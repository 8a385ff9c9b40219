# JarvisVR, in TLA+

JarvisVR is a voice assistant for a headset. A Python **agent backend** holds
the conversation and decides; a Unity **headset client** shows holograms and
reports touches and perception; a Python **voice service** hears and speaks.
Both are websocket clients of the backend, each with a session of its own.
This directory models the parts of the system whose difficulty is in the order
in which things happen, checks them with TLC and proves the main results with
TLAPS. Paths below are relative to the repository's source.

## 1. The system

| component | state it keeps | operations | interacts with |
| --- | --- | --- | --- |
| connection (`agent-backend/.../server.py`) | tasks, agent lock, outbox, session | dispatch of inbound messages, tasks, shutdown | agent session (calls, in a task under the lock; barge-in inline), websocket |
| agent session (`agent/agent.py`) | active turn, cancel flag, camera mode | text, interaction and sound turns, barge-in | orchestrator, tools, session state |
| orchestrator (`agent/orchestrator.py`) | the plan and its agents, of one turn | decompose, specialists (gather), stage, synthesis | model provider, tools, tracer |
| session state and tools (`agent/state.py`, `agent/tools/`) | objects, refs, timers | spawn/update/destroy directives, timers, touch handlers | headset (holo.*), model |
| tools and catalog (`agent/tools/`, `catalog.py`) | holograms' props, the things remembered, the observation | a tool call, validation of its directives, touch handlers | session state; the planner (`agent/llm.py`, mock) or a model chooses the calls |
| single-agent loop, providers (`agent/llm.py`) | the model in use; the conversation it is sent | model call, tool calls, limit of steps | provider over HTTP |
| memory (`agent/memory.py`, `agent_memory.py`) | conversation, facts, episodes, files | add, trim, recall, save | agent, file system |
| tracer (`agent/trace.py`) | rings of traces and entries | begin, entry, finish, subscribe | orchestrator, inspector in the headset |
| settings (`settings_service.py`, `providers.py`, `setup_wizard.py`, `config.py`) | `.env`, environment, live configuration, live model | set-up, start, update, get | the agent all connections share; the file system |
| authoring (`authoring.py`, `user_roster.py`) | skills, user agents, routing, files | create, update, delete | the agent all connections share |
| perception (`perception/`, `PerceptionController.cs`) | rolling buffer, watch mode; active streams | request, frames, state | backend and headset |
| headset connection (`JarvisConnection.cs`) | socket, state, backoff, session id | connect, reconnect, heartbeat, close | everything in the headset |
| holograms (`HologramManager.cs`, `HologramPersistence.cs`) | widgets shown, saved layout | spawn, update, destroy, touch, save, restore | backend (holo.*, client.interaction) |
| voice pipeline (`pipeline.py`) | recording, speaking and barge-in flags | frame, speak | microphone's thread, executor's thread |
| mock backend (`infra/mock-backend/server.py`) | camera, holograms, provider | serves frames one by one | headset and harness, in the place of the backend |
| harness (`infra/e2e/harness.py`) | what it received, violations | scripted conversations | any server of the protocol |
| voice bridge (`bridge.py`, `ambient.py`) | outbox, session, ambient mode | receive, send, capture, reconnect | backend, pipeline |

What is hard here:

* **turns and their cancellation**: every text and touch is an asyncio task,
  turns exclude one another by a lock, and a barge-in or a disconnection cancels
  them at whatever await they are suspended on, specialists included;
* **two sides that must agree**: the session and the headset each keep the
  holograms, connected by messages in both directions that cross;
* **threads without locks** in the voice pipeline;
* **what outlives its owner**: flags that outlive a turn, holograms and ids that
  outlive a session, a camera that outlives the look it was switched on for;
* **the same thing kept twice**: a setting in the file, the environment and the
  configuration; a skill on disk and in memory; a hologram's props and the catalog
  that only spawns are held against; a conversation that must suit every provider.

`PROJECT.json` lists every component with what is left out of it, and under
`hazards` the places where these bite.

## 2. The modules

| module | models | lines up with |
| --- | --- | --- |
| `TurnLoop` | one connection of the backend: tasks, lock, turns, specialists, barge-in, shutdown | `server.py`, `agent.py`, `orchestrator.py`; `asyncio.Lock` and `gather` as external |
| `TurnAbs` | what a connection promises about requests | the refinement target of `TurnLoop` |
| `TurnLoopProofs` | theorems about `TurnLoop`: its lock, the order of requests, the cuts and `TurnAbs`, what a turn says, its specialists and the camera | |
| `Holograms` | session state, tools, touches, holo.* messages, the headset's view, reconnection and layouts | `state.py`, `agent.py`, `tools/`, `HologramManager.cs`, `HologramPersistence.cs`, `HoloInteractable.cs` |
| `MirrorAbs` | what session and headset promise together: changes repeated in order | the refinement target of `Holograms` |
| `HologramsProofs` | theorems about `Holograms`: its session, the headset's view and `MirrorAbs` | |
| `Tools` | the planner without a model, every tool's directives and speech, the widget catalogs, annotations, touches | `agent/llm.py` (mock), `agent/tools/`, `catalog.py`, `agent.py` |
| `ToolsProofs` | theorems about `Tools` | |
| `Conversation` | the single agent's loop and memory over turns, what each provider is sent | `agent.py`, `memory.py`, `llm.py`; what the providers' interfaces require |
| `ConversationProofs` | theorems about `Conversation` | |
| `ServingBackend` | the life of the backend's process, used by the next two | `__main__.py`, `server.py` (`run_server`) |
| `Settings` | the choice of the model: file, environment, configuration, live model | `settings_service.py`, `providers.py`, `setup_wizard.py`, `config.py`, `llm.py` |
| `Authoring` | skills in their directories, user agents, routes from tools to agents | `authoring.py`, `user_roster.py`, `skills_loader.py`, `agent.py` |
| `Studio`, `MCStudio` | `Settings` and `Authoring` in one process that may end at any time | composition |
| `StudioProofs` | theorems about `Studio` | |
| `Conformance`, `MCConformance` | the end-to-end harness's scripts against the mock server and the backend in both its modes | `harness.py`, the mock's `server.py`, the backend's `server.py`, `agent.py`, `orchestrator.py` |
| `VoicePipeline` | speaking thread and microphone's thread | `pipeline.py`, `tts.py`, `audio.py` |
| `VoicePipelineProofs` | theorems about `VoicePipeline` | |
| `Bridge` | the voice client's connections: receive loop, outbox and sender, microphone's threads, ambient listening | `bridge.py`, `ambient.py`; the websocket and the backend's messages as external |
| `OutboxAbs` | what the bridge promises about what it hears: one line, of which a connection that fails costs one | the refinement target of `Bridge` |
| `BridgeProofs` | theorems about `Bridge`: its line of envelopes, what is lost and `OutboxAbs` | |
| `Perception` | the camera: requests of the backend, the stream, its coroutine and its socket, what the headset tells, reconnection | `agent.py`, `buffer.py`, `PerceptionController.cs`, `VisionStreamer.cs`, `PassthroughCameraProvider.cs`, `VisionChannel.cs`; NativeWebSocket as external |
| `PerceptionProofs` | theorems about `Perception` | |

In each module an operator whose name begins with `Faulty` is not used by the
specification: it is a plausible bug of the definition next to it, and
`PROJECT.json` names the property that fails when it takes that definition's
place. History variables are marked as such where they are declared.

### TurnLoop

A step is what the event loop runs between two suspension points. `emit` only
puts on an unbounded queue, so a turn suspends in four places: acquiring the
lock, a model call, the gather, and a tool that does network I/O. `pc[i]` says
where the task of request i is; `crew` and `todo` where the specialists of the
plan are (only one turn has a plan at a time). `asyncio.Lock` is modelled by its
published algorithm: a fast path that requires that no live waiter queues, FIFO
waiters, `release` that wakes the first, a cancelled waiter that hands the wake-up
on. `locked`, `waiters`, `awake` and `doomed` are that state; `doomed` is the
CancelledError that has been requested and not raised yet. `sent` has what a turn has
said, in the order of the code within a step as well: the camera of a look is switched
off (`camera_off`) after thinking{done}. Tasks start in the
order they were created; every other wake-up may come in any order, which is more
than the event loop does and covers providers that answer at any time.

Messages that never suspend and touch nothing else (heartbeats, trace requests)
are left out; so are plan contents. A notable sound (`"alert"`) runs outside the
lock, as in the code.

### Holograms

`objects`, `refs`, `timerRefs`, `timers`, `lastTimer` are `SessionState`; `down`
and `up` the messages on the way; `shown` and `saved` the headset. A tool call
and a touch handler apply their directives without suspending, so each is one
step. The props of a hologram are one value (play state, or content). `shown` is what a
widget holds in its props; what it draws of them is another matter (`Drawn`, section 4).
A timer's record is written before the catalog is asked, so a start may leave a record
whose id names no hologram (`widget[o] = "refused"`). Which tool the model calls, and
when, is free.

### Tools

A text is the set of intents the planner's patterns find in it, a prop the class of
its value, or the word itself where the catalog lists words. A tool first composes its
directives and its speech; then `AgentSession` checks each spawn against the catalog,
built in or published (`registry`), updates the hologram under the tool's ref if there is
one (no check), and names in the observation the holograms that carry a label
(`Annotation`). `pending` are the calls the planner has decided and not made yet, `caller`
says who decides: a language model may call any tool, again and again (`AnyTool`), and
where a tool passes an argument on, any argument (`Willed`). A barge-in cuts the rest. A
touch no handler knows becomes a request (`TouchOther`). The weather's source uses the
words of `Feed`, of which the catalog need not know all. The clock and the lists behind
notes are left out.

### Conversation

The loop that runs when orchestration is off. Of a message the role is kept, how many tools
it calls and which of these calls it answers. `Converted` and `Attach` are the two
conversions on the way to a provider, `Accepts` what the interfaces of the providers
require of a conversation (external to this code). A turn suspends in the model, in
each tool and between pieces of speech; a barge-in at any of them leaves the memory
as it is, and the fold that follows a turn that ended (`Done`) does not happen. `refused`
is a history variable.

### Settings, Authoring, Studio

`Settings` keeps apart the four places where the choice of a model lives: `file` (.env),
`env` (os.environ), `config` (read once at the start) and `live` (`agent.llm`). A variable
is a pair of what it holds and the provider it is named after. `Operators` are the ways the
backend may have been installed: what the shell exports, what the operator noted in the file
before (the generic model, url or key), the optional packages, and whether JARVIS_ENV_FILE
sends what an update writes to a file that no start reads (`elsewhere`). `Update` is the whole handler: the file, the Config and the
environment, the new model; `Setup` is the wizard, which writes the file whether or not a
backend runs. `Resolve`, `CreateLLM` with its fallback to the mock, `Written` and `KeyIsSet`
are the functions of the same purpose in `providers.py`, `llm.py` and `setup_wizard.py`.
`chosen` and `given` are history: the last choice, and the last key given for each provider.

`Authoring` has the skills as directories `<category>/<name>` with a file that may be
missing or torn, next to what `load_skills` made of them (`skills`); `stale` says that the
file of a skill was touched since the skills were last read. The body of a skill is read
when it is first needed (`Activated`), also by an update that then fails. The user's agents
are the order of a dictionary (`roster`), their file (`saved`) and the routes that follow
(`routes`). Each write may fail, that of the agents unnoticed; the process may end in the
middle of one.

`Studio` composes the two by the process: `Start` reads everything from what is on disk,
`Stop` forgets the rest. The two share no state but the process, so a behaviour may be one of
either or of both panels (`panels`).

### Conformance

A message is its type and the words of its payload the harness looks at; both directions
are FIFO. A line of a script is what the harness sends, if what it refers to has been
heard, what it then waits for, and what must or must not have come by then. A turn is the
chunks a brain emits up to each of its awaits (`MockTurn`, `SingleTurn`, `TeamTurn`), so
everything the harness sends in the meantime falls between two of them. The mock serves a
frame before it reads the next; the backend answers heartbeats at once and puts requests
into tasks that queue on the lock. Each message that is received is checked for its type
and its words (`Conforms`, the schemas and the registry of widgets) and, in the settings
script, for the key (`Leaks`). Where the harness would report a timeout the model
deadlocks. `MCConformance` plays every script with every brain. Left out: the frame the
camera script sends over /vision, which both servers drop because it names no session, the
harness's checks of what it sends itself, and its warnings.

### VoicePipeline

Python runs the two threads interleaved at every access to shared attributes:
`_barge_run += 1` is a read and a write, and the three assignments at the start of
`speak` are three steps. Steps that touch only one thread's own state are merged
with the access before them. A reply is synthesized as a whole and then played;
`tts.stop` ends only what is playing.

### Bridge

`run` ties a session to the receive loop, which waits for each sentence to be
spoken before it reads the next message and only then notices that the connection
is gone: `link` is `"lost"` in between. The heartbeat, the sender and the
microphone are tasks of the session, cancelled at its end; the outbox, the
threads of the microphone and ambient listening are not. A thread looks at its stop
event only when a frame comes (`Frame`), so the threads of several sessions may
be at work at once, and each frame may queue any number of envelopes (`Hear`), of
which only the order they were queued in is kept. A message received before the
connection broke is still read; one that is answered then ends the session.

### Perception

`down` carries the backend's requests, `up` frames and states; both are lost with the
connection. The main thread of the headset runs one handler at a time; what comes late
is the camera, which a coroutine starts when permission is given (`CameraStarts`), and
the socket for binary frames: `Connect` awaits until the socket is *closed* again, so
`_connecting` is set as long as it is open, and `Disconnect` awaits the closing
(`awaiting` and `closers`). `visionPreferBinary` has its default, TRUE, and a frame over
the open socket reaches no session (section 4). `told` is what the headset told in this
session; `EmitState` compares with `_lastStateHash`, which outlives sessions, so that a new
session may be told nothing (`Untold`, section 4). Requests
for one picture ("once"), which the backend never sends, and rates are left out.

## 3. The runs

| run | instance | shows |
| --- | --- | --- |
| `turn_order` | 3 texts, touches or settings updates, 2 barge-ins, 1 specialist with 1 network call, only the event loop fair | mutual exclusion, order, answers, what a barge-in cuts, nothing after close; `TurnLoop` implements `TurnAbs`; every request is disposed of if providers and tools answer, barge-in and shutdown need no such answer |
| `turn_crew` | 3 requests (texts, blank texts, camera commands, sounds), 1 barge-in, 2 specialists with up to 2 network calls | specialists end with their turn and report; after thinking{done} only the stop of the turn's own look is sent; the user's camera stays on |
| `holo` | 2 objects of 3 types, 2 sessions, layouts, 2 messages down and 1 touch up | the props of widgets over reconnection and restored layouts, refs, timers and refused starts; `Holograms` implements `MirrorAbs` |
| `tools` | 2 holograms, 4 kinds of text, a model that calls any tool, 2 labels of which one contains the other, a word of the weather the catalog has and one it has not, both catalogs | props of holograms; a tool is refused only what it was given from outside |
| `conversation` | 4 kinds of provider, 4 messages, 2 steps of 2 parallel calls, 2 interruptions | conversations heal, pictures stay with their question |
| `studio` | 3 changes. Settings: openai, mistral and custom, a model, a url, 2 keys, one of these named at a time, in a plain installation and in five that differ from it in one thing (`MCOperators`). Authoring: 2 categories, a shipped and a new skill; 2 agents, a tool of a built-in one and one nobody has | what was chosen last, and the key given last, is what the model has now and after a restart; skills stay within reach, what is built in stands |
| `conformance` | the 4 scripts with the 3 brains | the harness is never left waiting and reports nothing but, of the team, the missing thinking{perceiving} of section 4 |
| `voice` | 3 replies, limits 2, 2, 4, 2 | never deaf, one interruption per reply, recordings end |
| `bridge` | 3 connections, 3 envelopes, 1 message unread, the three settings of ambient listening | sent in order, one lost per broken connection, the rest gets out; `Bridge` implements `OutboxAbs` |
| `perception` | 2 sessions, 4 commands (of the user or the backend, or changes of temperature), 2 messages each way | the backend believes what it was told, and learns the truth unless a new session is told nothing; one socket for frames; one way only in which a camera escapes its stop |
| `turn_camera`, `voice_playback` | smaller ones | expected violations, section 4 |

The bounds are chosen for the interleavings they allow. Three requests are a
holder, a waiter that can be woken or overtaken, and one that arrives later; two
barge-ins allow one for each of two turns. Two specialists suffice for one that
fails or ends while the other is suspended, two calls for being cut before,
during and after one. Two objects allow two refs, or a ref that moves to a new
object; two messages on the way down are a spawn or update with the destroy behind
it, crossing a touch on the way up; in the second session the headset may hold, and
restore, what the first one left. Three replies let an interruption of the first end in the third.
The limits of the recording are the smallest at which the three ends differ. Three
connections are two that break and one that stays, so that what two threads queued
in the first two can be sent in the third; three envelopes are one in the sender's
hands, one waiting, and one that is heard after the connection is gone. Four commands are a start, a stop and another
start around one change of temperature or one reconnection; two messages each way let a
frame precede a state that crosses a request.

Two holograms are enough for a tool to find its own, another tool's or none under its ref,
and for a spawn that is refused between two that are not. A memory of four messages (24 in
the code) is folded inside a turn of two steps with two calls, at each of its cuts; the
bound of `HealsByItself` is stated in `MaxMessages`. Three changes are a provider
chosen, left and chosen again, a skill or an agent created, changed and deleted or
re-created, with a start and an end of the process between any two. Two of the providers
have a key of their own, so that one key can be the last given while the other's is in use;
custom shares the generic one and needs a url. A request that names model, url and key
together writes what three requests write (`AtOnce`). With the package openai `CreateLLM` takes the
native adapter, with litellm the other; its fallback to the mock is taken when a key or a
url is missing. The scripts of
`conformance` are those of the harness, unbounded in nothing.

Deadlock is checked for `voice`, `tools` and `conformance`; the other models may stop when
their bounded number of requests, objects, connections or interruptions is used up.

**Fairness.** `LoopSpec` of `TurnLoop` assumes only that asyncio runs what is
runnable. `EveryRequestEnds` assumes besides (`AnswerFairness`, its hypothesis) that
an awaited provider or tool answers or fails: the providers are called with a 60 s
timeout, the tools that use the network with one of 5 s. `FairSpec` of
`VoicePipeline` assumes that the microphone delivers frames, that both threads are
scheduled and that a reply is played out or fails. `FairSpec` of `Bridge` assumes
that the bridge goes on connecting (`connect_and_run` retries for ever by default),
that the event loop runs its tasks and a sentence is spoken or fails, and, by the
bound on the connections, that one of them lasts. `FairSpec` of `Perception` assumes
that both sides read what they receive and that Unity calls `Update`. Nothing obliges a client to
send, a user to touch or a backend to reply.

## 4. Where the code does something else than is said of it

Two runs each check one statement of a document or comment and find it violated;
`findings` in `PROJECT.json` quotes it.

| run | what happens |
| --- | --- |
| `turn_camera` | a barge-in during a one-look turn leaves the camera on |
| `voice_playback` | a barge-in during synthesis stops nothing and the reply is played |

More statements of the kind are written in their modules, next to the properties. No run is
kept for them; TLC refutes each with the constants of its module's run in section 3, but
`AnnotationsMatch`, which needs a second place.

| statement | who says so | what happens |
| --- | --- | --- |
| `Holograms!TimersAreDrawnAsTheyAre` | `TimerWidget.cs:10`, `docs/getting-started.md:213`, `docs/HOLO_TOOLS.md:957` | a timer is drawn as paused: `TimerWidget.cs:50` reads a prop "running" that no message carries, and not the "state" it is sent (`builtins.py:163`, `agent.py:672`) |
| `Tools!AnnotationsMatch` | `docs/HOLO_TOOLS.md:131` | of two things of one label in two places both annotations name the first one's hologram (`agent.py:574`) |
| `Settings!UpdatesPersist` | `docs/reference/env-vars.md:118` | a file named by JARVIS_ENV_FILE is written (`config.py:193`) and never read (`config.py:104`): the next start has the old provider |
| `Settings!KeyAsDocumented` | `docs/configuration.md:147` | `Config.llm_api_key` is set by the key of any provider (`settings_service.py:160`), and goes before JARVIS_LLM_API_KEY for a provider that has no key of its own (`providers.py:254`) |
| `Settings!ShownKeysAreStored` | `settings_service.py:170` | for the same reason custom is shown as having a key (`providers.py:313`), until the restart |
| `Settings!NewUrlIsUsed` | `settings_service.py:11` | a new `base_url` for a provider whose url came from the environment is shown and written, and the model built with the old one, because `resolve` prefers the environment (`providers.py:261`) |
| `Settings!AskedUrlStays` | `settings_service.py:130` | a later update that names no `base_url` writes the url of the environment over the new one |
| `Authoring!AgentsPersist` | `agent-backend/README.md:267` | an agent whose file could not be written (`user_roster.py:79`) is answered as created, and gone after a restart |
| `Bridge!ListensOnRequest` | `docs/concepts/perception.md:321`, `docs/configuration.md:349` | ambient listening asked for in one session goes on in the next, which did not ask for it (`bridge.py:217`) |
| `Perception!StateReflectsCapture` | `unity-client/README.md:117`, `SECURITY.md:48` | after a reconnection the state is not told, because it is what the former session was told (`PerceptionController.cs:205`); with frames on their own socket the new session takes the camera for off for ever |
| `Perception!CameraOnlyWhileAsked` | `PassthroughCameraProvider.cs:46`, `docs/concepts/perception.md:321` | a stop that comes while the camera is starting has no effect: the camera runs on, and is shown as off (`PassthroughCameraProvider.cs:117`); that there is no other way is `UnaskedOnlyByLateStart`, checked and proved |
| `Conformance!NoViolation` | `docs/components/agent-backend.md:128`, `infra/e2e/harness.py:287` | with orchestration on, the default, a turn begins with "planning" (`orchestrator.py:82`) and a look is "looking", never agent.thinking{perceiving}; the harness would report it |
| `TurnLoop!AgentsReportTheirEnd` | `agent-backend/README.md:228` | a barge-in leaves agents announced and never reported done |

Others were met while modelling and are only noted, no run is spent on them:

* a text of white space ends without the thinking{done} that "every turn" ends
  with (`agent.py:292` against the comment at `agent.py:623`); in `TurnLoop`, the
  turns of kind `"blank"`;
* after an interrupted turn the cancel flag stays set, so a sound alert is silent
  until the next turn (`agent.py:449`, though `agent.py:210` calls the flag per-turn);
  in `TurnLoop`, `Alert`;
* stop_timer looks only at the timer started last and, once that is gone, answers that
  there is no timer while others run (`builtins.py:192`); in `Holograms`, `lastTimer`;
* binary frames reach no session: the backend takes the session from the URL, a text
  message or the header (`server.py:476`), `docs/concepts/perception.md:93` says the
  client attaches with `?session=<id>`, and the headset's `VisionUrl` has no query
  (`JarvisConfig.cs:92`); in `Perception`, `Capture`;
* a `Disconnect` while the frame socket is connecting forgets it and it stays open, unused,
  as does one that is forgotten by the late end of an earlier `Disconnect`
  (`VisionChannel.cs:64` against the comment at line 12); in `Perception`,
  `DisconnectChannel` and `DisconnectReturns`;
* the headset goes on streaming after a reconnection to a session that did not ask
  (`PerceptionController.cs` has nothing at a close); in `Perception`, `Break`;
* a tap on a bounding box, a selection in the catalog, closes it, because its element
  name has an x in it (`agent.py:701`, `HOLO_TOOLS.md:1764`);
* the end of a barge-in may clear `_speaking` for the reply that has just begun, which
  is then played with the wake word detector listening (`pipeline.py:160`); in
  `VoicePipeline`, `Clear` between `Say` and `PlayedOut`;
* a loud frame between the first two statements of `speak` counts together with those
  of the reply before (`pipeline.py:235`); in `VoicePipeline`, `AddFrame` before
  `ResetRun`;
* after a reconnection two threads of the microphone may be in the same pipeline, the
  old one until its next frame (`bridge.py:299` sets the event "so it doesn't leak
  across reconnects"); in `Bridge`, two of `mic` at `"processing"`;
* a sentence that was received before a barge-in is spoken after it: the bridge
  has no way to drop it (`bridge.py:134`); in `Bridge`, `Speak`;
* settings are updated under the lock of one connection while the agent is shared by
  all (`server.py:297` calls the swap safe because it happens between turns); the other
  connections are not told. In `Conversation`, `SetLLM` at any time;
* a `start_timer` whose label the catalog refuses leaves a record of a timer without a
  hologram (`builtins.py:152`), the exception in `TimersMatchHolograms`;
* the bridge's stop event ends a thread of the microphone only at its next frame, and
  `MicStream` yields with its condition held, so the audio callback waits while a frame is
  processed (`audio.py:289`); a snapshot of the room shares the transcriber with the
  microphone's thread (`ambient.py:164`).

In `Conformance`:

* the harness's comment that the echo of its heartbeat arrives last because the outbox is
  FIFO holds for the mock, not for the backend, which answers heartbeats inline
  (`server.py:159`); nothing the script asserts depends on it;
* the settings script, run against a real backend, stores the provider openai and a
  made-up key in its .env.

In `Conversation`:

* a barge-in during a tool, or a fold that cuts inside a turn (`memory.py:5` says it folds
  old turns), leaves a call without its results; a real provider then refuses every
  request, up to `max_messages` + 1 = 25 turns answered "Sorry...", until the pair has left
  the memory. `HealsByItself` states this bound, which memories of 2, 3 and 5 messages
  attain;
* a turn that was interrupted never folds; what is said after a refusal or at the limit
  of steps is not remembered;
* with orchestration on, real providers get neither the history nor pictures.

In `Tools`:

* touching a timer that is gone becomes the text "I just tapped the timer hologram", which
  starts one (`agent.py`, `TouchOther`); tapping a `weather_orb` asks for the weather, and
  opens another orb, of the default city;
* `open_widget` without props says "Opening..." for widgets whose required props are
  missing, which the catalog refuses: the exception in `OnlyTheAskedForIsRefused`;
* the words of the live weather service are not all in the catalog's list, so an orb may
  be refused though the weather is spoken, as may be what a language model passes on (the
  label of a timer, a panel's text): the other exceptions in that property;
* canned objects, shown when nothing was detected, are remembered as seen.

In `Settings`:

* a key given for the mock reaches the environment and not the file;
* an explicit null `base_url` is not stored; `JARVIS_MODEL`, exported or noted in the file as
  `.env.example` suggests, overrides the model of an update at the next start (the exception in
  `RestartKeepsChoice`);
* `validate_provider` runs an event loop inside the server's, fails, and so never finds a
  key invalid;
* switching back to a provider without naming its model and url stores the defaults over
  those stored before.

In `Authoring`:

* a failed or torn write of SKILL.md leaves a directory without a file, which blocks the
  name, or a skill that counts as built in, which the user can neither change nor delete
  (`Empty` and `Torn`, the exceptions in `SkillsReachable`);
* an update drops the fields of the front matter it does not know; a name that YAML
  reads as a boolean ("on") becomes "True"; a new category does not move the directory;
* a deleted agent's notes are inherited by the next one of its role; the notes of a turn
  are reset by the turns of other connections (`agent_memory.py`);
* a saved roster is not checked against built-in roles and tools when it is loaded.

## 5. The theorems

All are for every value of the constants that satisfies the module's `ASSUME`.

* `TurnLoopProofs!TypeCorrect`, `TurnsExclude`, `ClosedForTurns`. `OneTurn` is not
  inductive: that the holder is alone depends on who may take the lock, which
  depends on the waiters. `IInv` adds to it that the queues hold only requests at
  the matching place, without repetition (`SpawnedOK`, `WaitersOK`), that only a
  waiter or the suspended holder can be awake (`AwakeOK`), that a free lock with
  live waiters has woken the first (`HandOver`), and that after the close every
  live request is doomed (`DoomedOK`), from which nothing can start. The proof
  has one lemma per action.
* `TurnLoopProofs!FirstComeFirstServed`, `OnlyThatTurn`, `Implements`. All three rest
  on one classification of the steps (`Moves`): a request arrives, begins, stops
  waiting or goes on, an interruption or the close dooms, or no task moves. The order
  of service needs that of both queues (`Order`: the new tasks and the waiters are
  increasing, every waiter is older than every new task) and that the lock is free for
  a new task only when no live waiter is left. Cuts need that what is doomed while the
  connection is up was interrupted (`CutOK`). The refinement goes from each class of
  steps to a step of `TurnAbs` or a stutter, with `IInv` and `Order` as facts about
  the step.
* `TurnLoopProofs!TextsAreAnswered`, `CrewIsAccountedFor`, `CameraIsKept`,
  `DoneIsQuiet`. `TInv` says beside the properties what they depend on: no agent is
  announced before there is a plan (`Unannounced`), a request reported done is over or
  was interrupted in its turn (`Reported`), the cancel flag is clear in a turn that was
  not (`Fresh`), specialists are at work in the gather only (`Busy`), as is the camera a
  turn switched on (`Sight`), and each announced specialist has reported what became of
  it (`Reporting`). `DoneIsQuiet` is about steps: none after thinking{done} sends anything
  of its turn, and what the step that sends it sends after it is the stop of the turn's
  own look.
* `VoicePipelineProofs!TypeCorrect`, `Listens`, `InterruptsOnce`. The types need that the
  frame that reaches a limit ends the recording (`Bounded`). The strengthening (`Quiet`) says
  where the microphone's thread can be once the reply being spoken has been
  interrupted: before the clearing of `_speaking`, or past it and the flag is
  clear; only the next reply sets it again.
* `BridgeProofs!TypeCorrect`, `InOrder`, `OneLost`. Neither of the two is inductive.
  The order of what has been sent depends on what will be: `Line` says that what was
  sent, the envelope in the sender's hands and the outbox are one increasing line.
  The count of what is lost depends on who can still lose: `Losses` says that a
  connection has lost nothing while it is up, and once it is gone only if its sender
  has died, which then holds nothing for the end of the session to drop; `Kept` that
  every envelope is in one of its places. The types need `Linked`: without a
  connection there is no sender.
* `BridgeProofs!Implements`. `OutboxAbs` knows a line of what is to go out, and a link that
  fails before it is down. The line is the envelope in the sender's hands and the outbox
  (`InLine`); the link is failing from the break on, until the sender has died of it or the
  receive loop has noticed (`Reach`). Each step is one of `OutboxAbs` or a stutter, with
  `Line`, `Losses` and `Kept` as facts about it; the failure loses the first of the line,
  and so may the end of a session, no other step any.
* `PerceptionProofs!TypeCorrect`, `ChannelAlone`, `BelievesWhatItIsTold`,
  `CameraEscapesOneWay`. That live sockets are few depends on the flag: `Alone` says that a socket that is not closed is
  awaited by a Connect, that there is one such Connect at most, and that `connecting` is
  set while there is. What is believed when the queues are empty depends on what is in
  them: `Heard` says that the last message on the way up agrees with what was told, and
  that a headset which told "off" streams nothing. The last is about steps: each that
  ends the stream stops the camera with it.
* `StudioProofs!BuiltinsAreKept`, `SkillsAreReachable`. Routes are a function of the roster
  (`RosterInv`). That shipped files stay needs that whatever the backend has read of a name
  of the user's lies elsewhere (`ShippedInv`): of two directories with one name the last one
  read counts, and a skill is changed or deleted where it was read. The other needs that
  there is one whole file for a name at most, that an unknown skill has no file, and that a
  skill read from its file has none elsewhere (`SkillsInv`); what a start reads of several
  directories is that of the last one that has the name (`LastFound`).
* `StudioProofs!RestartsKeepTheChoice`. What was chosen last stands in the file under the
  names `from_env` and `resolve` read back, whatever the file began with, as long as updates
  are written there (`ChoiceInv`); the rest is what `resolve` makes of these names.
* `StudioProofs!GivenKeysAreUsed`. The key given last for a provider is in the file under its
  variable, and in the environment of the process that was given it, and no change to another
  provider, with or without a key, touches either; the model is the one `create_llm` builds
  from the environment and the Config of this moment, whatever change came last (`GivenInv`).
  A provider's own variable goes before what is in the Config.
* `HologramsProofs!TypeCorrect`, `RefsAlwaysResolve`, `TimersAlwaysMatch`,
  `HeadsetMirrorsSession`. Every step of a session makes, changes or removes one hologram
  (`Requested`), so the three facts about refs, records and objects are proved for these
  three kinds of step (`SessionOK`); even the types need that a live object has a widget
  (`Known`), as a touch reads its elements. A start the catalog refuses is a fourth kind of
  step: it writes a record under a ref that leads nowhere, which only `stop_timer` finds. What the headset will show is the messages on the
  way applied to what it shows, one after the other (`Arrivals`). For this to be what the session
  holds after every next message, each update and removal on the way must find its
  hologram when it arrives: the strengthening `LastWord` says that the last message
  about an id says what the session holds of it. Appending, delivering and restoring are lemmas about
  `Arrivals`, by induction along the queue.
* `HologramsProofs!Implements`. In `MirrorAbs` a message is an assignment, whichever of the
  three it is, and the headset ignores none. That each step of `Holograms` is one of these
  needs `LastWord` again: an update finds its hologram, and a removal that does not says
  what is so already (`DeliverRepeats`). `Known` gives that what is made was never
  there, and that what a restored layout brings back once was. A session that reused the
  ids of an earlier one would break it (`FaultyFresh`).
* `ConversationProofs!ConversationHeals`, `PicturesGoWithTheQuestion`. A bound on
  the number of refusals is not inductive. `Refusals` says what they leave
  behind: all but the first add a user's message that nothing follows, so that after
  that many refusals as many messages at the end are the user's; folding keeps
  the memory within its bound, and a memory that has only user's messages is accepted.
* `ToolsProofs!HologramsAlwaysConform`, `OnlyTheGivenIsRefused`.
  That holograms conform is not a matter of the check: an update merges props without one.
  It holds because a ref is only ever used for one widget (`WidgetUnder`, in `Leads`), so that
  what is merged has passed the check of the same schema, because merging two sets
  of props that a schema allows gives a third (`PatchedConforms`), and because what a touch writes
  is in its widget's schema in both catalogs (`TouchesFit`). What becomes of the
  directives of one call is an induction along them (`Outcome`). The second holds what each
  tool composes against the built-in schema and the published one, for any words of the
  weather's source and any arguments of a model; what is left is what a tool passes on.

The provers cannot instantiate an induction rule, whose parameter is an operator. Where a
proof goes along a queue or a list of directives it takes the set of positions
at which the claim fails, and its least member (`Least`, `UpTo`, from the library's
theorem on well-founded orders), and such a fold is written as a recursive
function (`Arrivals`, `Applied`).

Proved and in no run: the type invariants (each a theorem `TypeCorrect`), and
`SentInOrder` of `Bridge`, which `ImplementsOutboxAbs` implies: what is heard joins the end
of one line, and what is sent leaves its head.

Only model-checked:

* liveness, which needs ENABLED and fairness and is out of the prover's reach:
  `EveryRequestEnds`, `BargeInIsPrompt`, `ShutdownIsPrompt`, `RecordingEnds`,
  `HeardGetsOut`, `BackendLearns`;
* `OnlyPerceivingIsMissed` of `Conformance`: the scripts, servers and brains are finite tables without
  constants, so TLC's run is already about all of it;
* the properties the code violates (section 4).

## 6. Plan, and what is not modelled

What could follow:

1. `Bridge` composed with `VoicePipeline`: two microphone's threads in one pipeline,
   and the sentences already on the way when a barge-in comes.
2. `Perception`: the ambient and gaze streams of the headset, which share its handlers.
3. `HeadsetConnection`: reconnection timers, backoff, intentional close, late
   callbacks of an old socket.
4. `Buffer` and `Tracer`: bounded rings, checked against unbounded reference
   definitions.
5. `Timer`: the countdown of the widget against that of the backend, pause, resume
   and reset.
6. An abstract specification of the settings, a choice that outlives the process, with
   `Studio` shown to implement it.

Not planned: validation of messages against schemas beyond types and words, the wire formats of the model
providers beyond roles and calls, rendering, signal processing, prompt texts: data
without protocol state. `components` in `PROJECT.json` says of each part what is left out.
