------------------------------- MODULE TurnLoop -------------------------------
(***************************************************************************)
(* One websocket connection of the agent backend: the requests the read    *)
(* loop turns into asyncio tasks, the per-connection agent lock the turns  *)
(* queue on, the multi-agent turn that holds it (decompose, gather of the  *)
(* specialists, stage, speech), and barge-in and disconnection, which      *)
(* cancel tasks at whatever await they are suspended on.                   *)
(*                                                                         *)
(* A step of the model is what the event loop runs between two suspension  *)
(* points: emit() puts on an unbounded queue and never suspends, so a turn *)
(* suspends only in lock.acquire, in a model call, in gather and in a tool *)
(* that does network I/O.  The order of the tasks just created and of the  *)
(* lock's waiters is kept; other wake-ups may run in any order.            *)
(***************************************************************************)
EXTENDS Integers, FiniteSets, SequencesExt

CONSTANTS
  MaxRequests,   \* bound: inbound messages that become tasks
  MaxAgents,     \* bound: specialists of one plan
  MaxCalls,      \* bound: tool calls of one specialist
  MaxBargeIns,   \* bound: client.barge_in messages that find a turn
  Kinds          \* the kinds of message the client sends

AllKinds ==
  {"text", "blank", "watch", "unwatch", "interaction", "settings", "alert"}

ASSUME TurnLoopAssumption ==
  /\ MaxRequests \in Nat
  /\ MaxAgents \in Nat \ {0}
  /\ MaxCalls \in Nat \ {0}
  /\ MaxBargeIns \in Nat
  /\ Kinds \subseteq AllKinds

Requests == 1..MaxRequests
Agents   == 1..MaxAgents
Jarvis   == 0                  \* the orchestrator itself
NoTurn   == 0
Stage    == MaxAgents + 1      \* the stage-agent of a plan

VARIABLES
  kind,         \* [Requests -> message kind, "none" until it arrives]
  pc,           \* [Requests -> where the request's task is]
  spawned,      \* tasks created and not started, oldest first
  locked,       \* Connection._agent_lock: held?
  waiters,      \* ... and the requests waiting in acquire, oldest first
  awake,        \* requests whose awaited future is done
  doomed,       \* requests with a CancelledError to be raised in them
  active,       \* AgentSession._active_turn
  cancelled,    \* AgentSession._cancelled
  crew,         \* [Agents -> where each specialist of the plan is]
  todo,         \* [Agents -> tool calls it has not started]
  startedVision,\* Orchestrator.run's local started_vision
  watching,     \* PerceptionBuffer.watching
  camera,       \* the last perception.request asked for the camera
  sent,         \* [Requests -> the notes emitted for the request]
  bargeIns,     \* history: barge-ins that found a turn
  interrupted,  \* history: the turns they found
  closing       \* Connection._closing

lockVars  == <<locked, waiters>>
turnVars  == <<active, cancelled>>
crewVars  == <<crew, todo, startedVision>>
sightVars == <<watching, camera>>
history   == <<bargeIns, interrupted>>
vars == <<kind, pc, spawned, lockVars, awake, doomed, turnVars, crewVars,
          sightVars, sent, history, closing>>

Places     == {"idle", "spawned", "waiting", "decompose", "gather", "done", "cut"}
Ended      == {"done", "cut"}
Holding    == {"decompose", "gather"}
CrewPlaces == {"none", "new", "tool", "back", "done", "failed", "gone"}
AtWork     == {"new", "tool", "back"}

Note(who, what) == [who |-> who, what |-> what]
Words == {"plan", "queued", "working", "done", "failed",
          "speech", "thinking_done", "camera_off", "settings"}
Notes == [who : 0..(MaxAgents + 1), what : Words]

Init ==
  /\ kind = [i \in Requests |-> "none"]
  /\ pc = [i \in Requests |-> "idle"]
  /\ spawned = <<>>
  /\ locked = FALSE
  /\ waiters = <<>>
  /\ awake = {}
  /\ doomed = {}
  /\ active = NoTurn
  /\ cancelled = FALSE
  /\ crew = [k \in Agents |-> "none"]
  /\ todo = [k \in Agents |-> 0]
  /\ startedVision = FALSE
  /\ watching = FALSE
  /\ camera = FALSE
  /\ sent = [i \in Requests |-> {}]
  /\ bargeIns = 0
  /\ interrupted = {}
  /\ closing = FALSE

(***************************************************************************)
(* The read loop.                                                          *)
(***************************************************************************)

\* Connection._dispatch: every message that may produce output becomes a task
\* of its own (_spawn), started later in the order of creation.
Dispatch(i) ==
  /\ ~closing
  /\ pc[i] = "idle"
  /\ \A j \in 1..(i - 1) : pc[j] # "idle"
  /\ \E m \in Kinds : kind' = [kind EXCEPT ![i] = m]
  /\ pc' = [pc EXCEPT ![i] = "spawned"]
  /\ spawned' = Append(spawned, i)
  /\ UNCHANGED <<lockVars, awake, doomed, turnVars, crewVars, sightVars, sent,
                 history, closing>>

\* Faulty variants: only the flag is set; every task is cancelled.
FaultyBargeInFlagOnly ==
  /\ ~closing
  /\ active # NoTurn
  /\ bargeIns < MaxBargeIns
  /\ cancelled' = TRUE
  /\ sent' = [sent EXCEPT ![active] = @ \cup {Note(Jarvis, "thinking_done")}]
  /\ bargeIns' = bargeIns + 1
  /\ interrupted' = interrupted \cup {active}
  /\ UNCHANGED <<kind, pc, spawned, lockVars, awake, doomed, active, crewVars,
                 sightVars, closing>>

FaultyBargeInCancelsAll ==
  /\ ~closing
  /\ active # NoTurn
  /\ bargeIns < MaxBargeIns
  /\ cancelled' = TRUE
  /\ doomed' = doomed \cup {i \in Requests : pc[i] \notin Ended \cup {"idle"}}
  /\ awake' = awake \cup {i \in Requests : pc[i] \in {"waiting", "decompose"}}
  /\ sent' = [sent EXCEPT ![active] = @ \cup {Note(Jarvis, "thinking_done")}]
  /\ bargeIns' = bargeIns + 1
  /\ interrupted' = interrupted \cup {active}
  /\ UNCHANGED <<kind, pc, spawned, lockVars, active, crewVars, sightVars, closing>>

\* AgentSession.barge_in, called inline by the read loop: sets the flag, cancels
\* the task of the active turn and reports the turn as done.
BargeIn ==
  /\ ~closing
  /\ active # NoTurn
  /\ bargeIns < MaxBargeIns
  /\ cancelled' = TRUE
  /\ doomed' = doomed \cup {active}
  /\ awake' = IF pc[active] = "decompose" THEN awake \cup {active} ELSE awake
  /\ sent' = [sent EXCEPT ![active] = @ \cup {Note(Jarvis, "thinking_done")}]
  /\ bargeIns' = bargeIns + 1
  /\ interrupted' = interrupted \cup {active}
  /\ UNCHANGED <<kind, pc, spawned, lockVars, active, crewVars, sightVars, closing>>

\* Faulty variant: only the turn that is running is cancelled.
FaultyShutdown ==
  /\ ~closing
  /\ closing' = TRUE
  /\ doomed' = doomed \cup ({active} \ {NoTurn})
  /\ awake' = awake \cup {i \in Requests : pc[i] = "decompose"}
  /\ UNCHANGED <<kind, pc, spawned, lockVars, turnVars, crewVars, sightVars, sent,
                 history>>

\* Connection._shutdown: the socket is gone and every live task is cancelled.
Shutdown ==
  /\ ~closing
  /\ closing' = TRUE
  /\ doomed' = doomed \cup {i \in Requests : pc[i] \notin Ended \cup {"idle"}}
  /\ awake' = awake \cup {i \in Requests : pc[i] \in {"waiting", "decompose"}}
  /\ UNCHANGED <<kind, pc, spawned, lockVars, turnVars, crewVars, sightVars, sent,
                 history>>

(***************************************************************************)
(* asyncio.Lock: a release wakes the first waiter, which takes the lock    *)
(* when it runs; nobody overtakes a waiter that is still to run.           *)
(***************************************************************************)

FaultyLockFreeIgnoresHolder  == Range(waiters) \subseteq doomed
FaultyLockFreeIgnoresWaiters == ~locked
LockFree == ~locked /\ Range(waiters) \subseteq doomed

FaultyWakeFirst(queue, set) == set
WakeFirst(queue, set) == IF queue = <<>> THEN set ELSE set \cup {Head(queue)}

\* The lock is kept over the suspension the step ends with.
Keep(queue, set) ==
  /\ locked' = TRUE
  /\ waiters' = queue
  /\ awake' = set

\* The lock is released before the step ends.
Release(queue, set) ==
  /\ locked' = FALSE
  /\ waiters' = queue
  /\ awake' = WakeFirst(queue, set)

(***************************************************************************)
(* A turn, from the acquisition of the lock on.  queue and set are the     *)
(* lock's waiters and the woken requests once this one is taken off them.  *)
(***************************************************************************)

\* AgentSession.run_turn: the cancel flag is that of the turn that starts.
FaultyFreshTurn == UNCHANGED cancelled
FreshTurn == cancelled' = FALSE

\* Turns that end without suspending: blank text, the two perception commands,
\* an interaction a widget handler takes, and a settings update, which holds the
\* lock without being a turn (it leaves the cancel flag of the last turn alone).
Brief(i, queue, set) ==
  /\ kind[i] # "text"
  /\ Release(queue, set)
  /\ pc' = [pc EXCEPT ![i] = "done"]
  /\ IF kind[i] = "settings" THEN UNCHANGED cancelled ELSE FreshTurn
  /\ sent' = [sent EXCEPT ![i] = @ \cup
       CASE kind[i] = "blank"    -> {}
         [] kind[i] = "settings" -> {Note(Jarvis, "settings")}
         [] OTHER -> {Note(Jarvis, "speech"), Note(Jarvis, "thinking_done")}]
  /\ watching' = CASE kind[i] = "watch"   -> TRUE
                   [] kind[i] = "unwatch" -> FALSE
                   [] OTHER               -> watching
  /\ camera' = CASE kind[i] = "watch"   -> TRUE
                 [] kind[i] = "unwatch" -> FALSE
                 [] OTHER               -> camera
  /\ UNCHANGED <<active, crewVars>>

\* AgentSession._begin_perception_for_turn: in continuous mode the camera is
\* already on and is not this turn's to stop.
FaultyBeginsVision(attach) == attach
BeginsVision(attach) == attach /\ ~watching

\* The plan has no subtask: the reply is spoken at once.
AnswerDirectly(i, queue, set) ==
  /\ Release(queue, set)
  /\ pc' = [pc EXCEPT ![i] = "done"]
  /\ active' = NoTurn
  /\ sent' = [sent EXCEPT ![i] = @ \cup
       {Note(Jarvis, "plan"), Note(Jarvis, "speech"), Note(Jarvis, "thinking_done")}]
  /\ UNCHANGED <<crewVars, sightVars>>

\* The plan has n subtasks: every agent is announced as queued, a stage agent too
\* if there are several, and the specialists' tasks are created by gather.
StartCrew(i, queue, set, n) ==
  /\ Keep(queue, set)
  /\ pc' = [pc EXCEPT ![i] = "gather"]
  /\ active' = i
  /\ crew' = [k \in Agents |-> IF k <= n THEN "new" ELSE "none"]
  /\ \E calls \in [1..n -> 1..MaxCalls] :
       todo' = [k \in Agents |-> IF k <= n THEN calls[k] ELSE 0]
  /\ \E attach \in BOOLEAN :
       /\ startedVision' = BeginsVision(attach)
       /\ camera' = (camera \/ BeginsVision(attach))
  /\ sent' = [sent EXCEPT ![i] = @ \cup {Note(Jarvis, "plan")} \cup
       {Note(k, "queued") : k \in 1..n \cup IF n >= 2 THEN {Stage} ELSE {}}]
  /\ UNCHANGED watching

\* Orchestrator.run up to its gather, once the goal is decomposed.
Orchestrate(i, queue, set) ==
  \/ AnswerDirectly(i, queue, set)
  \/ \E n \in Agents : StartCrew(i, queue, set, n)

\* handle_user_text of a message with text, or of the text an interaction no
\* widget handler takes is turned into (not echoed).  A real provider suspends
\* the turn in the model call, the built-in planner does not.
Ask(i, queue, set) ==
  /\ kind[i] \in {"text", "interaction"}
  /\ FreshTurn
  /\ \/ /\ Keep(queue, set)
        /\ pc' = [pc EXCEPT ![i] = "decompose"]
        /\ active' = i
        /\ UNCHANGED <<crewVars, sightVars, sent>>
     \/ Orchestrate(i, queue, set)

\* "async with self._agent_lock" has been entered.
Enter(i, queue, set) ==
  /\ Brief(i, queue, set) \/ Ask(i, queue, set)
  /\ UNCHANGED <<kind, doomed, history, closing>>

(***************************************************************************)
(* Steps of a request's task.                                              *)
(***************************************************************************)

Starts(i) ==
  /\ spawned # <<>>
  /\ i = Head(spawned)
  /\ spawned' = Tail(spawned)

\* handle_audio_event: takes no lock, so it may run in the middle of a turn; what
\* it says is suppressed while the cancel flag is set.
Alert(i) ==
  /\ Starts(i)
  /\ i \notin doomed
  /\ kind[i] = "alert"
  /\ pc' = [pc EXCEPT ![i] = "done"]
  /\ sent' = [sent EXCEPT ![i] = IF cancelled THEN {} ELSE {Note(Jarvis, "speech")}]
  /\ UNCHANGED <<kind, lockVars, awake, doomed, turnVars, crewVars, sightVars,
                 history, closing>>

\* The task reaches the lock and finds it free.
StartTurn(i) ==
  /\ Starts(i)
  /\ i \notin doomed
  /\ kind[i] # "alert"
  /\ LockFree
  /\ Enter(i, waiters, awake)

\* The task reaches the lock and has to wait.
AwaitLock(i) ==
  /\ Starts(i)
  /\ i \notin doomed
  /\ kind[i] # "alert"
  /\ ~LockFree
  /\ pc' = [pc EXCEPT ![i] = "waiting"]
  /\ waiters' = Append(waiters, i)
  /\ UNCHANGED <<kind, locked, awake, doomed, turnVars, crewVars, sightVars, sent,
                 history, closing>>

\* A woken waiter takes the lock.
TakeLock(i) ==
  /\ pc[i] = "waiting"
  /\ i \in awake
  /\ i \notin doomed
  /\ \E n \in DOMAIN waiters :
       waiters[n] = i /\ Enter(i, RemoveAt(waiters, n), awake \ {i})
  /\ UNCHANGED spawned

\* The provider has answered the decomposition (or failed: the planner stands in).
Decomposed(i) ==
  /\ pc[i] = "decompose"
  /\ i \in awake
  /\ i \notin doomed
  /\ Orchestrate(i, waiters, awake \ {i})
  /\ UNCHANGED <<kind, spawned, doomed, cancelled, history, closing>>

Crew     == {k \in Agents : crew[k] # "none"}
FaultyGathered == \E k \in Crew : crew[k] \notin AtWork
Gathered == \A k \in Crew : crew[k] \notin AtWork

\* The turn's frame is gone; a specialist that still ran would go on without it.
LeaveCrew ==
  /\ crew' = [k \in Agents |-> IF crew[k] \in AtWork THEN crew[k] ELSE "none"]
  /\ startedVision' = FALSE
  /\ UNCHANGED todo

\* gather has returned: the stage agent lays the holograms out, the reply is spoken, the
\* turn is reported done and then, last of all, the camera it switched on is switched off.
Synthesize(i) ==
  /\ pc[i] = "gather"
  /\ Gathered
  /\ i \notin doomed
  /\ Release(waiters, awake)
  /\ pc' = [pc EXCEPT ![i] = "done"]
  /\ active' = NoTurn
  /\ sent' = [sent EXCEPT ![i] = @
       \cup (IF Cardinality(Crew) >= 2
             THEN {Note(Stage, "working"), Note(Stage, "done")} ELSE {})
       \cup (IF cancelled THEN {} ELSE {Note(Jarvis, "speech")})
       \cup {Note(Jarvis, "thinking_done")}
       \cup (IF startedVision THEN {Note(Jarvis, "camera_off")} ELSE {})]
  /\ camera' = (camera /\ ~startedVision)
  /\ LeaveCrew
  /\ UNCHANGED <<kind, spawned, doomed, cancelled, watching, history, closing>>

\* CancelledError raised in a task that never started: its coroutine is dropped.
CutUnstarted(i) ==
  /\ Starts(i)
  /\ i \in doomed
  /\ pc' = [pc EXCEPT ![i] = "cut"]
  /\ UNCHANGED <<kind, lockVars, awake, doomed, turnVars, crewVars, sightVars, sent,
                 history, closing>>

\* CancelledError raised in lock.acquire.
CutWaiting(i) ==
  /\ pc[i] = "waiting"
  /\ i \in awake
  /\ i \in doomed
  /\ pc' = [pc EXCEPT ![i] = "cut"]
  /\ \E n \in DOMAIN waiters :
       /\ waiters[n] = i
       /\ waiters' = RemoveAt(waiters, n)
       /\ awake' = IF locked THEN awake \ {i}
                             ELSE WakeFirst(RemoveAt(waiters, n), awake \ {i})
  /\ UNCHANGED <<kind, spawned, locked, doomed, turnVars, crewVars, sightVars, sent,
                 history, closing>>

\* CancelledError raised in the turn: nothing catches it, so the rest of the turn
\* is skipped; run_turn's finally and the lock's release are all that runs.
CutTurn(i) ==
  /\ \/ pc[i] = "decompose" /\ i \in awake
     \/ pc[i] = "gather" /\ Gathered
  /\ i \in doomed
  /\ pc' = [pc EXCEPT ![i] = "cut"]
  /\ active' = NoTurn
  /\ Release(waiters, awake \ {i})
  /\ LeaveCrew
  /\ UNCHANGED <<kind, spawned, doomed, cancelled, sightVars, sent, history, closing>>

(***************************************************************************)
(* Steps of a specialist's task.                                           *)
(***************************************************************************)

\* gather passes the cancellation of the turn on to the specialists.
FaultyCrewDoomed == FALSE
CrewDoomed == active \in doomed

Started(k) == IF crew[k] = "new" THEN {Note(k, "working")} ELSE {}

\* Orchestrator._run_specialist runs its tool calls up to one that does network I/O.
CallTool(k) ==
  /\ crew[k] \in {"new", "back"}
  /\ ~CrewDoomed
  /\ ~cancelled
  /\ \E left \in 0..(todo[k] - 1) : todo' = [todo EXCEPT ![k] = left]
  /\ crew' = [crew EXCEPT ![k] = "tool"]
  /\ sent' = [sent EXCEPT ![active] = @ \cup Started(k)]
  /\ UNCHANGED <<kind, pc, spawned, lockVars, awake, doomed, turnVars, startedVision,
                 sightVars, history, closing>>

\* ... or to the end; an exception outside the tools makes the agent fail.
FinishAgent(k) ==
  /\ crew[k] \in {"new", "back"}
  /\ ~CrewDoomed
  /\ todo' = [todo EXCEPT ![k] = 0]
  /\ \E end \in {"done", "failed"} :
       /\ crew' = [crew EXCEPT ![k] = end]
       /\ sent' = [sent EXCEPT ![active] = @ \cup Started(k) \cup {Note(k, end)}]
  /\ UNCHANGED <<kind, pc, spawned, lockVars, awake, doomed, turnVars, startedVision,
                 sightVars, history, closing>>

\* CancelledError raised in the specialist: only "except Exception" is there.
CutAgent(k) ==
  /\ crew[k] \in AtWork
  /\ CrewDoomed
  /\ crew' = [crew EXCEPT ![k] = "gone"]
  /\ todo' = [todo EXCEPT ![k] = 0]
  /\ UNCHANGED <<kind, pc, spawned, lockVars, awake, doomed, turnVars, startedVision,
                 sightVars, sent, history, closing>>

(***************************************************************************)
(* The provider and the network.                                           *)
(***************************************************************************)

ProviderAnswers(i) ==
  /\ pc[i] = "decompose"
  /\ i \notin awake
  /\ awake' = awake \cup {i}
  /\ UNCHANGED <<kind, pc, spawned, lockVars, doomed, turnVars, crewVars, sightVars,
                 sent, history, closing>>

ToolAnswers(k) ==
  /\ crew[k] = "tool"
  /\ crew' = [crew EXCEPT ![k] = "back"]
  /\ UNCHANGED <<kind, pc, spawned, lockVars, awake, doomed, turnVars, todo,
                 startedVision, sightVars, sent, history, closing>>

(***************************************************************************)
(* The specification.                                                      *)
(***************************************************************************)

Starting(i) == Alert(i) \/ StartTurn(i) \/ AwaitLock(i) \/ CutUnstarted(i)
Resuming(i) == TakeLock(i) \/ Decomposed(i) \/ Synthesize(i) \/ CutWaiting(i) \/ CutTurn(i)
Working(k)  == CallTool(k) \/ FinishAgent(k) \/ CutAgent(k)
Answering   == (\E i \in Requests : ProviderAnswers(i)) \/ (\E k \in Agents : ToolAnswers(k))

Next ==
  \/ \E i \in Requests : Dispatch(i) \/ Starting(i) \/ Resuming(i)
  \/ \E k \in Agents : Working(k)
  \/ BargeIn
  \/ Shutdown
  \/ Answering

\* The event loop runs every task that can run.
LoopFairness ==
  /\ \A i \in Requests : WF_vars(Starting(i)) /\ WF_vars(Resuming(i))
  /\ \A k \in Agents : WF_vars(Working(k))

\* Providers and network tools are called with a timeout.
AnswerFairness == WF_vars(Answering)

Safety   == Init /\ [][Next]_vars
LoopSpec == Safety /\ LoopFairness

(***************************************************************************)
(* Properties.                                                             *)
(***************************************************************************)

\* Every variable has a value of its kind.
TypeOK ==
  /\ kind \in [Requests -> Kinds \cup {"none"}]
  /\ pc \in [Requests -> Places]
  /\ spawned \in Seq(Requests)
  /\ locked \in BOOLEAN
  /\ waiters \in Seq(Requests)
  /\ awake \subseteq Requests
  /\ doomed \subseteq Requests
  /\ active \in Requests \cup {NoTurn}
  /\ cancelled \in BOOLEAN
  /\ crew \in [Agents -> CrewPlaces]
  /\ todo \in [Agents -> 0..MaxCalls]
  /\ startedVision \in BOOLEAN
  /\ watching \in BOOLEAN
  /\ camera \in BOOLEAN
  /\ sent \in [Requests -> SUBSET Notes]
  /\ bargeIns \in 0..MaxBargeIns
  /\ interrupted \subseteq Requests
  /\ closing \in BOOLEAN

Said(i, what) == Note(Jarvis, what) \in sent[i]

\* One turn at a time: the requests past "async with self._agent_lock" are at most
\* one, it is the one barge_in would cancel, and the lock is held exactly while
\* there is one, through hand-overs to waiters, cancellations and disconnection.
OneTurn ==
  /\ \A i \in Requests : pc[i] \in Holding <=> active = i
  /\ locked <=> active # NoTurn

\* Turns are served in the order their messages arrived: no request is in or past
\* its turn while an older one still waits for its own (the tasks start in order,
\* and the lock lets nobody overtake its waiters).
ServedInOrder ==
  \A i, j \in Requests :
    /\ i < j
    /\ "alert" \notin {kind[i], kind[j]}
    /\ pc[j] \in Holding \cup {"done"}
    => pc[i] \in Holding \cup Ended

\* No step after the one that sends thinking{done} for a turn sends anything of that turn,
\* but thinking{done} again at a second barge-in: not the specialists, which an interruption
\* finds suspended in their tools or not started, nor the code after the gather.  Within that
\* step one message follows it, the stop of the camera (camera_off), and only if this
\* turn switched the camera on and the user has not asked to keep it on.
QuietAfterDone ==
  [][\A i \in Requests :
       /\ Said(i, "thinking_done") => sent'[i] = sent[i]
       /\ Said(i, "camera_off")' /\ ~Said(i, "camera_off") =>
            i = active /\ startedVision /\ ~watching]_vars

\* A request with text that was not cut off has been answered aloud, whatever was
\* interrupted before it.
Answered ==
  \A i \in Requests : pc[i] = "done" /\ kind[i] = "text" => Said(i, "speech")

\* Every agent announced for the request has reported its end.
AllReported(i) ==
  \A k \in 1..Stage : Note(k, "queued") \in sent[i] =>
    sent[i] \cap {Note(k, "done"), Note(k, "failed")} # {}

\* When a turn has ended by itself each agent it announced has reported done or
\* failed, and no specialist works when no turn is running.
CrewAccountedFor ==
  /\ active = NoTurn => \A k \in Agents : crew[k] \notin AtWork
  /\ \A i \in Requests : pc[i] = "done" => AllReported(i)

\* A barge-in cancels the turn that is running and nothing else: a request is cut
\* only if a barge-in found it running, or the connection is gone.
OnlyTheTurnIsCut ==
  \A i \in Requests : pc[i] = "cut" => i \in interrupted \/ closing

\* A turn that needs one look never switches off the camera the user asked Jarvis
\* to keep on.
WatchKeepsCamera == watching => camera

\* After the disconnection no turn starts, although the lock is handed over while
\* the tasks are being cancelled.
NoTurnAfterClose ==
  [][closing => \A i \in Requests : pc'[i] \in Holding => pc[i] \in Holding]_vars

\* Every request is disposed of, if providers and tools answer in the end.
EveryRequestEnds ==
  AnswerFairness => \A i \in Requests : (pc[i] # "idle") ~> (pc[i] \in Ended)

\* A barge-in ends the turn without the help of the provider or tool it waits for.
BargeInIsPrompt ==
  \A i \in Requests : (i \in interrupted) ~> (pc[i] \in Ended)

\* So does a disconnection, for all that was running or waiting.
ShutdownIsPrompt ==
  closing ~> (\A i \in Requests : pc[i] \in Ended \cup {"idle"}) /\ ~locked

(***************************************************************************)
(* The connection implements TurnAbs.  A notable sound is no request: it   *)
(* takes no turn.                                                          *)
(***************************************************************************)

Phase(i) ==
  IF kind[i] \in {"none", "alert"} THEN "absent"
  ELSE CASE pc[i] \in {"spawned", "waiting"} -> "queued"
         [] pc[i] \in Holding                -> "served"
         [] pc[i] = "done"                   -> "answered"
         [] OTHER                            -> "dropped"

Abs == INSTANCE TurnAbs WITH phase <- [i \in Requests |-> Phase(i)],
                             silenced <- interrupted,
                             gone <- closing

\* Every step of the connection is a step of TurnAbs or leaves it unchanged: served
\* one at a time, in order, cut only if interrupted or disconnected, never answered
\* after an interruption.
ImplementsTurnAbs == Abs!Spec

(***************************************************************************)
(* What documents and comments of the repository say and the code does not *)
(* do.                                                                     *)
(***************************************************************************)

\* "The camera was turned on just for us, so turn it back off" (agent.py, on a
\* barged-in turn); "server stops the camera when done" (PROTOCOL 8.6): with no
\* turn running the camera is on only in the continuous mode.
CameraReleased == active = NoTurn /\ ~closing /\ camera => watching

\* "agent_status (queued -> working -> [delegating] -> done/failed)": every agent
\* announced is reported done or failed by the time the turn is over.
AgentsReportTheirEnd ==
  \A i \in Requests : pc[i] \in Ended /\ ~closing => AllReported(i)
=============================================================================
