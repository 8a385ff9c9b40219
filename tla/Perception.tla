------------------------------- MODULE Perception -------------------------------
(***************************************************************************)
(* Sight: the backend asks the headset for its camera (to watch the room,  *)
(* or to look during one turn), the headset streams frames and tells what  *)
(* it captures.  Requests and answers cross; the user, the heat of the     *)
(* device and a lost connection act in between.  The camera starts in a    *)
(* coroutine, and the socket of the binary frames opens and closes while   *)
(* the main thread goes on.                                                *)
(*                                                                         *)
(* Of a frame only that it comes matters, of a request only start and      *)
(* stop: rate, quality and resolution are left out, and so are "once" and  *)
(* "set", which the backend never asks of the camera.                      *)
(***************************************************************************)
EXTENDS Integers, FiniteSets, Sequences

CONSTANTS
  MaxSessions,   \* bound: connections of the headset
  MaxCommands,   \* bound: what the user asks or does, changes of the temperature
  MaxDown,       \* bound: requests on the way to the headset
  MaxUp          \* bound: frames and states on the way to the backend

ASSUME PerceptionAssumption ==
  {MaxSessions, MaxCommands, MaxDown, MaxUp} \subseteq Nat \ {0}

Sockets == 1..MaxCommands
Nobody  == 0
States  == {"on", "off"}       \* perception.state, vision.active

VARIABLES
  link, session,   \* the headset's connection, and how many there have been
  commands,        \* commands given so far
  down, up,        \* messages on the way
  \* the backend's session
  visionActive, watching,   \* PerceptionBuffer
  turn,            \* "none", "looking", or "started": it has switched the camera on
  \* PerceptionController and VisionStreamer
  active,          \* VisionStreamer.Active
  thermal,         \* "nominal" or "critical"
  lastHash,        \* _lastStateHash: active and thermal when last told
  told,            \* the state told in this session: "nothing", "on" or "off"
  \* PassthroughCameraProvider
  starting, cam,   \* _starting; _cam is playing
  \* VisionChannel
  ws, connecting,  \* _ws, _connecting
  sock,            \* [Sockets -> "none", "connecting", "open", "closing" or "closed"]
  awaiting,        \* the sockets whose Connect has not returned
  closers          \* the sockets a Disconnect is waiting for

linkVars    == <<link, session>>
backendVars == <<visionActive, watching, turn>>
toldVars    == <<lastHash, told, up>>
cameraVars  == <<starting, cam>>
channelVars == <<ws, connecting, sock, awaiting, closers>>
vars == <<linkVars, commands, down, backendVars, active, thermal, toldVars, cameraVars,
          channelVars>>

Init ==
  /\ link = "down"
  /\ session = 0
  /\ commands = 0
  /\ down = <<>> /\ up = <<>>
  /\ visionActive = FALSE /\ watching = FALSE /\ turn = "none"
  /\ active = FALSE
  /\ thermal = "nominal"
  /\ lastHash = <<>> /\ told = "nothing"
  /\ starting = FALSE /\ cam = FALSE
  /\ ws = Nobody /\ connecting = FALSE
  /\ sock = [s \in Sockets |-> "none"]
  /\ awaiting = {} /\ closers = {}

Command == commands < MaxCommands /\ commands' = commands + 1
Room    == Len(up) < MaxUp

(***************************************************************************)
(* The headset's camera and the socket for its frames.                     *)
(***************************************************************************)

\* StartCapture only starts a coroutine; StopCapture only knows a camera that runs.
StartCapture == starting' = (starting \/ ~cam) /\ UNCHANGED cam
StopCapture  == cam' = FALSE /\ UNCHANGED starting

\* The coroutine has its permission and opens the camera, if there is one.
CameraStarts ==
  /\ starting
  /\ starting' = FALSE
  /\ cam' \in {cam, TRUE}
  /\ UNCHANGED <<linkVars, commands, down, backendVars, active, thermal, toldVars,
                 channelVars>>

IsOpen == ws # Nobody /\ sock[ws] = "open"

\* VisionChannel.Connect: _connecting is set until the socket is closed again.
ConnectChannel ==
  IF IsOpen \/ connecting
  THEN UNCHANGED channelVars
  ELSE \E s \in Sockets :
         /\ s = 1 + Cardinality({r \in Sockets : sock[r] # "none"})
         /\ ws' = s
         /\ connecting' = TRUE
         /\ sock' = [sock EXCEPT ![s] = "connecting"]
         /\ awaiting' = awaiting \cup {s}
         /\ UNCHANGED closers

\* VisionChannel.Disconnect: a socket that is not open yet is only forgotten.
DisconnectChannel ==
  IF IsOpen
  THEN /\ sock' = [sock EXCEPT ![ws] = "closing"]
       /\ closers' = closers \cup {ws}
       /\ UNCHANGED <<ws, connecting, awaiting>>
  ELSE /\ ws' = Nobody
       /\ UNCHANGED <<connecting, sock, awaiting, closers>>

ConnectReturns(s) ==
  /\ s \in awaiting
  /\ sock[s] = "closed"
  /\ awaiting' = awaiting \ {s}
  /\ connecting' = FALSE
  /\ UNCHANGED <<ws, sock, closers>>

DisconnectReturns(s) ==
  /\ s \in closers
  /\ sock[s] = "closed"
  /\ closers' = closers \ {s}
  /\ ws' = Nobody
  /\ UNCHANGED <<connecting, sock, awaiting>>

\* Faulty variant: the flag says that the socket is connecting.
FaultyOpened == connecting' = FALSE
Opened == UNCHANGED connecting

SocketOpens(s) ==
  /\ sock[s] = "connecting"
  /\ sock' = [sock EXCEPT ![s] = "open"]
  /\ Opened
  /\ UNCHANGED <<ws, awaiting, closers>>

SocketCloses(s) ==
  /\ sock[s] \in {"connecting", "open", "closing"}
  /\ sock' = [sock EXCEPT ![s] = "closed"]
  /\ UNCHANGED <<ws, connecting, awaiting, closers>>

Channel ==
  /\ \E s \in Sockets : \/ ConnectReturns(s) \/ DisconnectReturns(s)
                        \/ SocketOpens(s) \/ SocketCloses(s)
  /\ UNCHANGED <<linkVars, commands, down, backendVars, active, thermal, toldVars,
                 cameraVars>>

(***************************************************************************)
(* The headset's stream and what it tells.                                 *)
(***************************************************************************)

StartStream == active' = TRUE /\ StartCapture /\ ConnectChannel
StopStream  == active' = FALSE /\ StopCapture /\ DisconnectChannel

State(on) == IF on THEN "on" ELSE "off"

\* Faulty variant: the hash leaves the camera out.
FaultyHash(on, t) == <<TRUE, t>>
Hash(on, t) == <<on, t>>

\* EmitState: nothing without a connection, and no state twice unless forced.
EmitState(force) ==
  IF link = "up" /\ (force \/ Hash(active', thermal) # lastHash)
  THEN /\ Room
       /\ up' = Append(up, State(active'))
       /\ lastHash' = Hash(active', thermal)
       /\ told' = State(active')
  ELSE UNCHANGED toldVars

\* PerceptionController.HandleRequest
HandleRequest ==
  /\ down # <<>>
  /\ \/ Head(down) = "start" /\ StartStream
     \/ Head(down) = "stop" /\ StopStream
  /\ EmitState(TRUE)
  /\ down' = Tail(down)
  /\ UNCHANGED <<linkVars, commands, backendVars, thermal>>

\* The wrist menu.
ToggleVision ==
  /\ Command
  /\ IF active THEN StopStream ELSE StartStream
  /\ EmitState(TRUE)
  /\ UNCHANGED <<linkVars, down, backendVars, thermal>>

StopAllCapture ==
  /\ Command
  /\ StopStream
  /\ EmitState(TRUE)
  /\ UNCHANGED <<linkVars, down, backendVars, thermal>>

SetThermal(t) ==
  /\ t # thermal
  /\ Command
  /\ thermal' = t
  /\ UNCHANGED <<linkVars, down, backendVars, active, toldVars, cameraVars, channelVars>>

\* Faulty variant: the stream ends and its camera is forgotten.
FaultyThermalGuard ==
  IF active /\ thermal = "critical"
  THEN active' = FALSE /\ UNCHANGED cameraVars /\ DisconnectChannel
  ELSE UNCHANGED <<active, cameraVars, channelVars>>

ThermalGuard ==
  IF active /\ thermal = "critical"
  THEN StopStream
  ELSE UNCHANGED <<active, cameraVars, channelVars>>

\* PerceptionController.Update, with or without the periodic state.
Update(due) ==
  /\ ThermalGuard
  /\ IF due THEN EmitState(FALSE) ELSE UNCHANGED toldVars
  /\ UNCHANGED <<linkVars, commands, down, backendVars, thermal>>

\* VisionStreamer.Update: a frame (an artificial one while there is no camera) goes inline
\* unless the channel is open.  One that goes over the channel reaches no session:
\* _handle_vision looks for its name in the URL, in a text message and in the frame's
\* header, and the headset writes it in none of them.
Capture ==
  /\ active
  /\ ~IsOpen
  /\ link = "up"
  /\ Room
  /\ up' = Append(up, "frame")
  /\ UNCHANGED <<linkVars, commands, down, backendVars, active, thermal, lastHash, told,
                 cameraVars, channelVars>>

(***************************************************************************)
(* The backend.                                                            *)
(***************************************************************************)

Ask(action) == Len(down) < MaxDown /\ down' = Append(down, action)

\* _maybe_perception_control: "watch the room" and "stop watching".
Watch(on) ==
  /\ link = "up" /\ turn = "none"
  /\ Command
  /\ visionActive' = on
  /\ watching' = on
  /\ Ask(IF on THEN "start" ELSE "stop")
  /\ UNCHANGED <<linkVars, turn, active, thermal, toldVars, cameraVars, channelVars>>

\* A turn that looks: it leaves the camera alone when the room is watched anyway.
BeginLook ==
  /\ link = "up" /\ turn = "none"
  /\ Command
  /\ IF watching
     THEN turn' = "looking" /\ UNCHANGED down
     ELSE turn' = "started" /\ Ask("start")
  /\ UNCHANGED <<linkVars, visionActive, watching, active, thermal, toldVars, cameraVars,
                 channelVars>>

EndLook ==
  /\ turn # "none"
  /\ turn' = "none"
  /\ IF turn = "started" THEN Ask("stop") ELSE UNCHANGED down
  /\ UNCHANGED <<linkVars, commands, visionActive, watching, active, thermal, toldVars,
                 cameraVars, channelVars>>

\* A barge-in: the turn ends where it is.
CutLook ==
  /\ turn # "none"
  /\ turn' = "none"
  /\ UNCHANGED <<linkVars, commands, down, visionActive, watching, active, thermal,
                 toldVars, cameraVars, channelVars>>

\* Faulty variant: only a camera that is on is news.
FaultySetState(m) == visionActive' = (visionActive \/ m = "on")
SetState(m) == visionActive' = (m = "on")

\* ingest_state, ingest_vision_frame
Ingest ==
  /\ up # <<>>
  /\ IF Head(up) = "frame" THEN visionActive' = TRUE ELSE SetState(Head(up))
  /\ up' = Tail(up)
  /\ UNCHANGED <<linkVars, commands, down, watching, turn, active, thermal, lastHash, told,
                 cameraVars, channelVars>>

(***************************************************************************)
(* The connection: a new one has a new session of the backend.             *)
(***************************************************************************)

Connect ==
  /\ link = "down"
  /\ session < MaxSessions
  /\ link' = "up"
  /\ session' = session + 1
  /\ UNCHANGED <<commands, down, backendVars, active, thermal, toldVars, cameraVars,
                 channelVars>>

LoseSession == visionActive' = FALSE /\ turn' = "none" /\ watching' = FALSE

Break ==
  /\ link = "up"
  /\ link' = "down"
  /\ down' = <<>> /\ up' = <<>>
  /\ LoseSession
  /\ told' = "nothing"
  /\ UNCHANGED <<session, commands, active, thermal, lastHash, cameraVars, channelVars>>

(***************************************************************************)
(* The specification.                                                      *)
(***************************************************************************)

Next ==
  \/ CameraStarts \/ Channel
  \/ HandleRequest \/ ToggleVision \/ StopAllCapture \/ Capture
  \/ \E t \in {"nominal", "critical"} : SetThermal(t)
  \/ \E due \in BOOLEAN : Update(due)
  \/ \E on \in BOOLEAN : Watch(on)
  \/ BeginLook \/ EndLook \/ CutLook
  \/ Ingest
  \/ Connect \/ Break

Spec == Init /\ [][Next]_vars

\* Both sides read what they receive, and both Updates run at every frame of the display.
FairSpec ==
  /\ Spec
  /\ WF_vars(HandleRequest) /\ WF_vars(Update(TRUE)) /\ WF_vars(Capture)
  /\ WF_vars(Ingest)

(***************************************************************************)
(* Properties.                                                             *)
(***************************************************************************)

\* Every variable has a value of its kind, and nothing of a session survives its
\* connection.
TypeOK ==
  /\ link \in {"down", "up"}
  /\ session \in 0..MaxSessions
  /\ commands \in 0..MaxCommands
  /\ down \in Seq({"start", "stop"})
  /\ up \in Seq(States \cup {"frame"})
  /\ visionActive \in BOOLEAN /\ watching \in BOOLEAN
  /\ turn \in {"none", "looking", "started"}
  /\ active \in BOOLEAN
  /\ thermal \in {"nominal", "critical"}
  /\ lastHash \in {<<>>} \cup (BOOLEAN \X {"nominal", "critical"})
  /\ told \in States \cup {"nothing"}
  /\ starting \in BOOLEAN /\ cam \in BOOLEAN
  /\ ws \in Sockets \cup {Nobody}
  /\ connecting \in BOOLEAN
  /\ sock \in [Sockets -> {"none", "connecting", "open", "closing", "closed"}]
  /\ awaiting \subseteq Sockets /\ closers \subseteq Sockets
  /\ link = "down" => ~visionActive /\ ~watching /\ turn = "none" /\ told = "nothing"

\* When nothing is on the way the backend believes what it was last told: no frame, no
\* request and no turn in between has left it with another idea of the camera.
HeadsetIsHeard ==
  down = <<>> /\ up = <<>> /\ told # "nothing" => visionActive = (told = "on")

\* EmitState keeps silent in a new session, since _lastStateHash is what the former one was
\* told, and no frame comes inline either.
Untold ==
  told = "nothing" /\ lastHash = Hash(active, thermal) /\ (active => IsOpen)

\* In the end the backend of every session is right about the camera, also when the heat
\* of the device has switched it off unasked, but for a new session that is told nothing:
\* the only way of not learning it.
BackendLearns == []<>(link = "up" /\ ~Untold => visionActive = active)

\* However starts and stops follow one another, also while a socket opens or closes,
\* there is at most one socket for the frames.
OneChannel ==
  Cardinality({s \in Sockets : sock[s] \in {"connecting", "open", "closing"}}) <= 1

\* A camera comes to run unasked only where a start completes after the stop that meant to
\* prevent it: no stop, be it the backend's, the user's or that of the heat, in whatever
\* order, leaves a running camera on.
UnaskedOnlyByLateStart ==
  [][cam' /\ ~active' => (cam /\ ~active) \/ (starting /\ ~starting')]_vars

(***************************************************************************)
(* What a comment says and the code does not do.                           *)
(***************************************************************************)

\* "perception.state always reflects what's being captured" (unity-client/README.md): in
\* the end every session has the right idea of the camera.
StateReflectsCapture == []<>(link = "up" => visionActive = active)

\* "Capture is pull-based: it only runs while VisionStreamer asks for frames"
\* (PassthroughCameraProvider).
CameraOnlyWhileAsked == cam => active
=============================================================================
