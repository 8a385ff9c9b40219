------------------------------ MODULE Conformance ------------------------------
(***************************************************************************)
(* The scripted conversations of the end-to-end harness held with the      *)
(* brains that speak the protocol: the mock server, which serves a         *)
(* connection's frames one after the other, and the agent backend, which   *)
(* turns requests into tasks that queue on a lock while its read loop goes *)
(* on, with or without the team of agents.                                 *)
(*                                                                         *)
(* A message is its type and the words of its payload the harness looks    *)
(* at.  Both directions of the connection are FIFO.  The providers and the *)
(* weather are the offline ones.  The frame the harness sends on a socket  *)
(* of its own, /vision, before its script for the camera is left out: it   *)
(* names no session, so that both servers drop it, and only a connection   *)
(* that cannot be opened would be reported.  So are the warnings, and the  *)
(* reports a slow brain or a broken connection would cause.                *)
(***************************************************************************)
EXTENDS Integers, SequencesExt

CONSTANT Plays         \* the <<brain, script>> that are played

AllBrains  == {"mock", "single", "team"}
AllScripts == {"v1", "vision", "barge_in", "settings"}

ASSUME ConformanceAssumption == Plays \subseteq AllBrains \X AllScripts

VARIABLES
  brain, play,   \* what is played
  line,          \* the line of the script the client is at
  waiting,       \* has it sent this line, and receives?
  heard,         \* what it received since it last began to wait
  violations,    \* what its report lists
  toServer, toClient,
  tasks,         \* backend: requests whose task waits for the lock, oldest first
  serving,       \* the request at work, 0: none
  script,        \* ... what it still emits, up to each of its awaits
  provider,      \* the provider and the model in use, and whether there is a key
  over           \* has the server let go of the connection?

clientVars == <<brain, play, line, waiting, heard, violations>>
workVars   == <<tasks, serving, script, provider>>
vars == <<clientVars, toServer, toClient, workVars, over>>

(***************************************************************************)
(* Messages.                                                               *)
(***************************************************************************)

Message(t, words) == [type |-> t, what |-> words]

HelloAck    == Message("server.hello_ack", {"session"})
Beat        == Message("server.heartbeat", {})
ServerError == Message("server.error", {})
Transcript  == Message("agent.transcript", {})
Speech      == Message("agent.speech", {})
Observation == Message("agent.observation", {})
Update      == Message("holo.update", {})
Plan        == Message("orchestration.plan", {})
Status(s)   == Message("orchestration.agent_status", {s})
Thinking(s) == Message("agent.thinking", {s})
Camera(a)   == Message("perception.request", {a})
Spawn(w)    == Message("holo.spawn", {w})
Spawned     == Message("holo.spawn", {})
Settings(p) == Message("server.settings", p)
Done        == Thinking("done")

\* A received message is of the type and has the words that are asked for.
IsA(m, asked) == m.type = asked.type /\ asked.what \subseteq m.what

Has(ms, asked) == \E k \in DOMAIN ms : IsA(ms[k], asked)

Frame(t)  == [type |-> t, n |-> 0, what |-> {}]
\* The requests, numbered; a question is told apart by the hologram that answers it.
Ask(i, w) == [type |-> "user.text", n |-> i, what |-> {w}]
Tap(i, w) == [type |-> "client.interaction", n |-> i, what |-> {w}]
Change(i) == [type |-> "client.settings_update", n |-> i, what |-> {"openai", "gpt-4o", "api_key"}]

\* The schemas and the registry of widgets: the types of messages there are, and the words
\* each allows.
Words == [t \in {"server.hello_ack", "server.heartbeat", "server.error", "agent.transcript",
                 "agent.speech", "agent.observation", "holo.update", "orchestration.plan",
                 "orchestration.agent_status", "agent.thinking", "perception.request",
                 "holo.spawn", "server.settings"} |->
  CASE t = "server.hello_ack"   -> {"session"}
    [] t = "agent.thinking"     -> {"planning", "tool_call", "rendering", "done", "perceiving", "looking"}
    [] t = "perception.request" -> {"start", "stop", "once", "set"}
    [] t = "holo.spawn"         -> {"weather_orb", "timer", "vision_annotation"}
    [] t = "server.settings"    -> {"mock", "openai", "gpt-4o", "key_set"}
    [] t = "orchestration.agent_status" ->
         {"queued", "planning", "working", "delegating", "waiting", "done", "failed"}
    [] OTHER -> {}]

Conforms(m) == m.type \in DOMAIN Words /\ m.what \subseteq Words[m.type]

\* The key must not come back, whatever the schemas allow.
Leaks(m) == play = "settings" /\ "api_key" \in m.what

(***************************************************************************)
(* The harness.  A line of a script is sent if what it refers to has been  *)
(* heard; the client then receives until it hears what it awaits, if       *)
(* anything, checks each message, and reports what is missing.             *)
(***************************************************************************)

Line(given, sends, await, needs) ==
  [given |-> given, sends |-> sends, await |-> await, needs |-> needs,
   most |-> 25, never |-> {}]

Greet == Line({}, <<Frame("client.hello")>>, {Message("server.hello_ack", {})}, {HelloAck})
Acked == Line({Spawned}, <<Frame("client.ack")>>, {}, {})
Bye   == Line({}, <<Frame("client.bye")>>, {}, {})

\* run_conformance; the tap is on the timer heard of two lines before.
ConversationScript ==
  << Greet,
     Line({}, <<Frame("client.heartbeat")>>, {Beat}, {}),
     Line({}, <<Ask(1, "weather_orb")>>, {Done}, {Speech, Spawned}),
     Acked,
     Line({}, <<Ask(2, "timer")>>, {Done}, {Speech, Spawned}),
     Acked,
     Line({Spawned}, <<Tap(3, "timer")>>, {Done}, {Update}),
     Bye >>

\* run_multimodal_conformance: the turn ends when the camera is asked to stop.
VisionScript ==
  << Greet,
     Line({}, <<Frame("perception.vision_frame"), Frame("perception.scene_objects"),
                Ask(1, "vision_annotation")>>,
          {Camera("stop")},
          {Camera("start"), Thinking("perceiving"), Observation,
           Spawn("vision_annotation"), Speech}),
     Acked,
     Bye >>

\* run_barge_in_conformance.
BargeInScript ==
  << Greet,
     [Line({}, <<Ask(1, "weather_orb"), Frame("client.barge_in"),
                 Frame("client.heartbeat")>>, {Beat}, {})
        EXCEPT !.most = 40, !.never = {ServerError}],
     Bye >>

\* run_settings_conformance.
SettingsScript ==
  << Greet,
     Line({}, <<Frame("client.settings_get")>>, {Settings({})}, {}),
     Line({}, <<Change(1)>>, {Settings({})}, {Settings({"openai", "gpt-4o", "key_set"})}),
     Bye >>

Lines == CASE play = "v1"       -> ConversationScript
           [] play = "vision"   -> VisionScript
           [] play = "barge_in" -> BargeInScript
           [] play = "settings" -> SettingsScript

Now == Lines[line]

Init ==
  /\ \E p \in Plays : brain = p[1] /\ play = p[2]
  /\ line = 1
  /\ waiting = FALSE
  /\ heard = <<>>
  /\ violations = {}
  /\ toServer = <<>>
  /\ toClient = <<>>
  /\ tasks = <<>>
  /\ serving = 0
  /\ script = <<>>
  /\ provider = {"mock"}
  /\ over = FALSE

\* ConformanceClient.send, for a line's messages.
Play ==
  /\ line <= Len(Lines)
  /\ ~waiting
  /\ LET sends  == IF \A asked \in Now.given : Has(heard, asked) THEN Now.sends ELSE <<>>
         awaits == sends # <<>> /\ Now.await # {}
     IN /\ toServer' = toServer \o sends
        /\ waiting' = awaits
        /\ heard' = IF awaits THEN <<>> ELSE heard
        /\ line' = IF awaits THEN line ELSE line + 1
  /\ UNCHANGED <<brain, play, violations, toClient, workVars, over>>

\* ConformanceClient.recv_until, with the checks of each message, then the script's
\* assertions on what was heard.
Receive ==
  /\ waiting
  /\ toClient # <<>>
  /\ toClient' = Tail(toClient)
  /\ heard' = Append(heard, Head(toClient))
  /\ LET found   == \A asked \in Now.await : IsA(Head(toClient), asked)
         stops   == found \/ Len(heard') = Now.most
         missing == {asked \in Now.await \cup Now.needs : ~Has(heard', asked)}
         errors  == {asked \in Now.never : Has(heard', asked)}
     IN /\ waiting' = ~stops
        /\ line' = IF stops THEN line + 1 ELSE line
        /\ violations' = violations
             \cup {m \in {Head(toClient)} : ~Conforms(m) \/ Leaks(m)}
             \cup IF stops THEN missing \cup errors ELSE {}
  /\ UNCHANGED <<brain, play, toServer, workVars, over>>

(***************************************************************************)
(* What a request makes the brains emit, up to each await.                 *)
(***************************************************************************)

Looks(f) == f.what = {"vision_annotation"}

IfSeen(f, ms) == IF Looks(f) THEN ms ELSE <<>>

\* The mock server, where every send is an await.  Its camera is off when a turn begins.
MockVisionTurn(f) ==
  << <<Camera("start")>>, <<Thinking("perceiving")>>, <<Observation>>,
     <<Message("holo.spawn", f.what)>>, <<Speech>>, <<Done>>, <<Camera("stop")>> >>

MockTurn(f) ==
  IF Looks(f) THEN MockVisionTurn(f)
  ELSE << <<Thinking("planning")>>, <<Thinking("tool_call")>>, <<Speech>>,
          <<Thinking("rendering")>>, <<Message("holo.spawn", f.what)>>, <<Done>> >>

\* AgentSession._tool_stage.
ToolStage(f) == IF Looks(f) THEN "looking" ELSE "tool_call"

\* AgentSession.handle_user_text: the model, the tool, the model again.
SingleTurn(f) ==
  << <<Transcript>> \o IF Looks(f) THEN <<Camera("start"), Thinking("perceiving")>>
                       ELSE <<Thinking("planning")>>,
     <<Thinking(ToolStage(f))>>,
     <<Thinking("rendering"), Message("holo.spawn", f.what)>> \o IfSeen(f, <<Observation>>),
     <<Speech, Done>> \o IfSeen(f, <<Camera("stop")>>) >>

\* Faulty variant: the turn ends before it is spoken.
FaultyTeamTurn(f) ==
  << <<Transcript, Thinking("planning")>>,
     IfSeen(f, <<Camera("start")>>) \o <<Plan, Status("queued")>>,
     <<Status("working"), Thinking(ToolStage(f))>>,
     <<Message("holo.spawn", f.what)>> \o IfSeen(f, <<Observation>>) \o <<Status("done")>>,
     <<Done, Speech>> \o IfSeen(f, <<Camera("stop")>>) >>

\* Orchestrator.run with one specialist: the model, the gather, its tool, the speech.
TeamTurn(f) ==
  << <<Transcript, Thinking("planning")>>,
     IfSeen(f, <<Camera("start")>>) \o <<Plan, Status("queued")>>,
     <<Status("working"), Thinking(ToolStage(f))>>,
     <<Message("holo.spawn", f.what)>> \o IfSeen(f, <<Observation>>) \o <<Status("done")>>,
     <<Speech, Done>> \o IfSeen(f, <<Camera("stop")>>) >>

\* handle_interaction on a timer that was spawned; the harness touches no other.
Touched == <<Update, Speech, Done>>

\* The settings after an update: the key is not among them, but that there is one.
Applied(f) == (f.what \ {"api_key"}) \cup {"key_set"}

Emits(f) ==
  CASE f.type = "client.settings_update" -> << <<Settings(Applied(f))>> >>
    [] f.type = "client.interaction" ->
         IF brain = "mock" THEN << <<Update>>, <<Speech>>, <<Done>> >> ELSE <<Touched>>
    [] f.type = "user.text" ->
         CASE brain = "mock"   -> MockTurn(f)
           [] brain = "single" -> SingleTurn(f)
           [] brain = "team"   -> TeamTurn(f)

(***************************************************************************)
(* The brains.                                                             *)
(***************************************************************************)

Requested == {"user.text", "client.interaction", "client.settings_update"}

\* The mock takes a frame when it has served the one before.
Reads(types) ==
  /\ ~over
  /\ toServer # <<>>
  /\ Head(toServer).type \in types
  /\ brain = "mock" => serving = 0
  /\ toServer' = Tail(toServer)

\* What is emitted up to the next await; the request has ended if there is none.
Work(i, chunks) ==
  /\ toClient' = toClient \o Head(chunks)
  /\ script' = Tail(chunks)
  /\ serving' = IF Len(chunks) = 1 THEN 0 ELSE i

Serve(f) ==
  /\ Work(f.n, Emits(f))
  /\ provider' = IF f.type = "client.settings_update" THEN Applied(f) ELSE provider

\* Frames that are answered in the read loop, by a task without the lock, or not at
\* all; the perception they buffer decides nothing the scripts look at.
InlineReply(t) ==
  CASE t = "client.hello"        -> <<HelloAck>>
    [] t = "client.heartbeat"    -> <<Beat>>
    [] t = "client.settings_get" -> <<Settings(provider)>>
    [] OTHER                     -> <<>>

ReadQuiet ==
  /\ Reads({"client.hello", "client.heartbeat", "client.settings_get", "client.ack",
            "perception.vision_frame", "perception.scene_objects"})
  /\ toClient' = toClient \o InlineReply(Head(toServer).type)
  /\ UNCHANGED <<clientVars, workVars, over>>

\* The mock's main_handler: it serves the request and reads on.
MockServes ==
  /\ brain = "mock"
  /\ Reads(Requested)
  /\ Serve(Head(toServer))
  /\ UNCHANGED <<clientVars, tasks, over>>

\* Connection._dispatch.
ReadRequest ==
  /\ brain # "mock"
  /\ Reads(Requested)
  /\ tasks' = Append(tasks, Head(toServer))
  /\ UNCHANGED <<clientVars, toClient, serving, script, provider, over>>

\* A task gets the lock.
Begin ==
  /\ ~over
  /\ serving = 0
  /\ tasks # <<>>
  /\ Serve(Head(tasks))
  /\ tasks' = Tail(tasks)
  /\ UNCHANGED <<clientVars, toServer, over>>

Continue ==
  /\ ~over
  /\ script # <<>>
  /\ Work(serving, script)
  /\ UNCHANGED <<clientVars, toServer, tasks, provider, over>>

\* The backend interrupts the turn at work, the mock does not know the message.
ReadBargeIn ==
  /\ Reads({"client.barge_in"})
  /\ LET interrupts == brain # "mock" /\ serving # 0
     IN /\ toClient' = IF interrupts THEN Append(toClient, Done) ELSE toClient
        /\ script' = IF interrupts THEN <<>> ELSE script
  /\ UNCHANGED <<clientVars, tasks, serving, provider, over>>

\* The cancelled task ends and lets the lock go.
Release ==
  /\ ~over
  /\ serving # 0
  /\ script = <<>>
  /\ serving' = 0
  /\ UNCHANGED <<clientVars, toServer, toClient, tasks, script, provider, over>>

\* The connection ends; Connection._shutdown cancels what is left.
ReadBye ==
  /\ Reads({"client.bye"})
  /\ over' = TRUE
  /\ tasks' = <<>> /\ script' = <<>> /\ serving' = 0
  /\ UNCHANGED <<clientVars, toClient, provider>>

\* The script is played to its end.  A client left waiting for a message that never
\* comes, where the harness reports a timeout, is a deadlock of the model.
Played ==
  /\ line > Len(Lines)
  /\ over
  /\ UNCHANGED vars

Next ==
  \/ Play \/ Receive \/ ReadQuiet \/ MockServes \/ ReadRequest \/ Begin \/ Continue
  \/ ReadBargeIn \/ Release \/ ReadBye \/ Played

Spec == Init /\ [][Next]_vars

(***************************************************************************)
(* Properties.                                                             *)
(***************************************************************************)

\* The harness finds nothing to report but one message: what it looks for comes before the
\* message that ends its wait, whatever the brain's pace, each message it receives on the
\* way is of a type and has the words the schemas allow, and no key comes back.  A question
\* about the room to the team is answered without thinking{perceiving} (harness.py).
OnlyPerceivingIsMissed ==
  violations \subseteq IF <<brain, play>> = <<"team", "vision">> THEN {Thinking("perceiving")} ELSE {}

(***************************************************************************)
(* What a doc and the harness say and the code does not do.                *)
(***************************************************************************)

\* A question about the room is answered with agent.thinking{perceiving} (agent-backend.md,
\* harness.py): the harness has nothing to report.
NoViolation == violations = {}
=============================================================================
