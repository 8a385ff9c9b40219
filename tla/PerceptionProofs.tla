--------------------------- MODULE PerceptionProofs ---------------------------
(***************************************************************************)
(* Perception for every number of sessions, commands and messages on the   *)
(* way: its variables keep their types, there is one socket for the        *)
(* frames, and the backend believes what it was last told.                 *)
(***************************************************************************)
EXTENDS Perception, SequenceTheorems, FiniteSetTheorems, TLAPS

(***************************************************************************)
(* The inductive invariant.                                                *)
(***************************************************************************)

IsLive(s) == sock[s] \in {"connecting", "open", "closing"}

\* A socket that is not closed has a Connect that has not returned; while there is one,
\* connecting is set, and nobody begins another.
Alone ==
  /\ \A s \in Sockets : IsLive(s) => s \in awaiting
  /\ \A s \in awaiting : connecting
  /\ \A r, s \in awaiting : r = s

\* What a message makes the backend believe.
Means(m) == m # "off"

\* The last message on the way up says what was last told; with none left, and no
\* request of the backend under way either, that is what it believes.  Told "off", the
\* headset sends no frame; and without a connection nothing is on the way.
Heard ==
  /\ down # <<>> \/ up # <<>> => link = "up"
  /\ told # "nothing" =>
       /\ link = "up"
       /\ active => told = "on"
       /\ up # <<>> => Means(up[Len(up)]) <=> told = "on"
       /\ up = <<>> /\ down = <<>> => (visionActive <=> told = "on")

IInv == TypeOK /\ Alone /\ Heard

(***************************************************************************)
(* The socket.                                                             *)
(***************************************************************************)

\* The part of the type invariant that the socket's steps concern.
ChannelOK ==
  /\ ws \in Sockets \cup {Nobody}
  /\ connecting \in BOOLEAN
  /\ sock \in [Sockets -> {"none", "connecting", "open", "closing", "closed"}]
  /\ awaiting \subseteq Sockets /\ closers \subseteq Sockets

\* A Connect begins only when none is under way, ...
LEMMA Connects == ChannelOK /\ Alone /\ ConnectChannel => (ChannelOK /\ Alone)'
<1> SUFFICES ASSUME ChannelOK, Alone, ConnectChannel
             PROVE  (ChannelOK /\ Alone)'
  OBVIOUS
<1>1. CASE UNCHANGED channelVars
  BY <1>1 DEF ChannelOK, Alone, IsLive, channelVars
<1>2. CASE ~(IsOpen \/ connecting)
  <2>1. PICK s \in Sockets :
          /\ ws' = s /\ connecting' = TRUE
          /\ sock' = [sock EXCEPT ![s] = "connecting"]
          /\ awaiting' = awaiting \cup {s}
          /\ closers' = closers
    BY <1>2 DEF ConnectChannel
  <2>2. awaiting = {}
    BY <1>2 DEF Alone
  <2> QED
    BY <2>1, <2>2 DEF ChannelOK, Alone, IsLive
<1> QED
  BY <1>1, <1>2 DEF ConnectChannel

\* ... a Disconnect begins none, ...
LEMMA Disconnects == ChannelOK /\ Alone /\ DisconnectChannel => (ChannelOK /\ Alone)'
BY DEF ChannelOK, Alone, IsLive, DisconnectChannel, IsOpen

\* ... and what happens to the sockets by themselves makes none live.
LEMMA ChannelSteps ==
  ASSUME ChannelOK, Alone, NEW s \in Sockets,
         \/ ConnectReturns(s) \/ DisconnectReturns(s) \/ SocketOpens(s) \/ SocketCloses(s)
  PROVE  (ChannelOK /\ Alone)'
<1>1. CASE ConnectReturns(s)
  BY <1>1 DEF ConnectReturns, ChannelOK, Alone, IsLive
<1>2. CASE DisconnectReturns(s)
  BY <1>2 DEF DisconnectReturns, ChannelOK, Alone, IsLive
<1>3. CASE SocketOpens(s)
  BY <1>3 DEF SocketOpens, Opened, ChannelOK, Alone, IsLive
<1>4. CASE SocketCloses(s)
  BY <1>4 DEF SocketCloses, ChannelOK, Alone, IsLive
<1> QED
  BY <1>1, <1>2, <1>3, <1>4

\* Sockets wait for one Connect, so no more than one of them is live.
LEMMA AloneIsOne == ChannelOK /\ Alone => OneChannel
<1> SUFFICES ASSUME ChannelOK, Alone
             PROVE  OneChannel
  OBVIOUS
<1> DEFINE L == {s \in Sockets : sock[s] \in {"connecting", "open", "closing"}}
<1>1. CASE L = {}
  BY <1>1, FS_EmptySet DEF OneChannel
<1>2. ASSUME NEW s \in L
      PROVE  Cardinality(L) = 1
  <2>1. L = {s}
    BY <1>2 DEF Alone, IsLive
  <2> QED
    BY <2>1, FS_Singleton
<1> QED
  BY <1>1, <1>2 DEF OneChannel

(***************************************************************************)
(* Types.                                                                  *)
(***************************************************************************)

LEMMA InitIInv == Init => IInv
<1> SUFFICES ASSUME Init
             PROVE  IInv
  OBVIOUS
<1>1. TypeOK
  <2>1. down \in Seq({"start", "stop"}) /\ up \in Seq(States \cup {"frame"})
    BY DEF Init
  <2>2. lastHash \in {<<>>} \cup (BOOLEAN \X {"nominal", "critical"})
    BY Zenon DEF Init
  <2>3. session \in 0..MaxSessions /\ commands \in 0..MaxCommands
    BY PerceptionAssumption DEF Init
  <2>4. ChannelOK
    BY DEF Init, ChannelOK
  <2> QED
    BY <2>1, <2>2, <2>3, <2>4, Zenon DEF Init, TypeOK, ChannelOK
<1>2. Alone
  BY DEF Init, Alone, IsLive
<1>3. Heard
  BY DEF Init, Heard
<1> QED
  BY <1>1, <1>2, <1>3 DEF IInv

\* The socket's part of every step.
LEMMA ChannelStep == TypeOK /\ Alone /\ [Next]_vars => (ChannelOK /\ Alone)'
<1> SUFFICES ASSUME TypeOK, Alone, [Next]_vars
             PROVE  (ChannelOK /\ Alone)'
  OBVIOUS
<1> USE DEF channelVars
<1>1. ChannelOK
  BY DEF TypeOK, ChannelOK
<1>2. CASE UNCHANGED channelVars
  BY <1>1, <1>2 DEF ChannelOK, Alone, IsLive
<1>3. CASE ConnectChannel \/ DisconnectChannel
  BY <1>1, <1>3, Connects, Disconnects
<1>4. CASE Channel
  BY <1>1, <1>4, ChannelSteps DEF Channel
<1>5. CASE HandleRequest \/ ToggleVision \/ StopAllCapture
  BY <1>3, <1>5 DEF HandleRequest, ToggleVision, StopAllCapture, StartStream, StopStream
<1>6. CASE \E due \in BOOLEAN : Update(due)
  BY <1>2, <1>3, <1>6 DEF Update, ThermalGuard, StopStream
<1> QED
  BY <1>2, <1>4, <1>5, <1>6
     DEF Next, vars, CameraStarts, SetThermal, Capture, Watch, BeginLook, EndLook, CutLook,
         Ingest, Connect, Break

\* What is asked for and told is what the other side expects.
LEMMA AskType ==
  ASSUME down \in Seq({"start", "stop"}), NEW a \in {"start", "stop"}, Ask(a)
  PROVE  down' \in Seq({"start", "stop"})
BY AppendProperties DEF Ask

LEMMA EmitType ==
  ASSUME TypeOK, active' \in BOOLEAN, NEW force \in BOOLEAN, EmitState(force)
  PROVE  /\ up' \in Seq(States \cup {"frame"})
         /\ lastHash' \in {<<>>} \cup (BOOLEAN \X {"nominal", "critical"})
         /\ told' \in States \cup {"nothing"}
         /\ link = "down" => told' = told
<1>1. CASE UNCHANGED toldVars
  BY <1>1 DEF TypeOK, toldVars
<1>2. CASE /\ up' = Append(up, State(active'))
           /\ lastHash' = <<active', thermal>>
           /\ told' = State(active')
           /\ link = "up"
  <2>1. State(active') \in States
    BY DEF State, States
  <2>2. up' \in Seq(States \cup {"frame"})
    BY <1>2, <2>1, AppendProperties DEF TypeOK
  <2>3. lastHash' \in BOOLEAN \X {"nominal", "critical"}
    BY <1>2 DEF TypeOK
  <2> QED
    BY <1>2, <2>1, <2>2, <2>3
<1> QED
  BY <1>1, <1>2 DEF EmitState, Hash

LEMMA TypeStep == IInv /\ [Next]_vars => TypeOK'
<1> SUFFICES ASSUME TypeOK, Alone, Heard, [Next]_vars
             PROVE  TypeOK'
  BY DEF IInv
<1> USE DEF linkVars, backendVars, toldVars, cameraVars, channelVars
<1>0. ChannelOK'
  BY ChannelStep
<1>1. CASE UNCHANGED vars
  BY <1>1 DEF TypeOK, vars
<1>2. CASE CameraStarts
  <2>1. cam' \in BOOLEAN /\ starting' \in BOOLEAN
    BY <1>2 DEF TypeOK, CameraStarts
  <2> QED
    BY <1>2, <2>1 DEF TypeOK, CameraStarts
<1>3. CASE Channel
  BY <1>0, <1>3 DEF TypeOK, ChannelOK, Channel
<1>4. ASSUME \/ HandleRequest
             \/ ToggleVision
             \/ StopAllCapture
      PROVE  /\ active' \in BOOLEAN /\ starting' \in BOOLEAN /\ cam' \in BOOLEAN
             /\ up' \in Seq(States \cup {"frame"})
             /\ lastHash' \in {<<>>} \cup (BOOLEAN \X {"nominal", "critical"})
             /\ told' \in States \cup {"nothing"}
             /\ link = "down" => told' = told
  <2>1. StartStream \/ StopStream
    BY <1>4 DEF HandleRequest, ToggleVision, StopAllCapture
  <2>2. active' \in BOOLEAN /\ starting' \in BOOLEAN /\ cam' \in BOOLEAN
    BY <2>1 DEF StartStream, StopStream, StartCapture, StopCapture, TypeOK
  <2>3. EmitState(TRUE)
    BY <1>4 DEF HandleRequest, ToggleVision, StopAllCapture
  <2> QED
    BY <2>2, <2>3, EmitType
<1>5. CASE HandleRequest
  <2>1. down' \in Seq({"start", "stop"})
    BY <1>5, HeadTailProperties DEF HandleRequest, TypeOK
  <2>2. UNCHANGED <<linkVars, commands, backendVars, thermal>>
    BY <1>5 DEF HandleRequest
  <2> QED
    BY <1>0, <1>4, <1>5, <2>1, <2>2 DEF TypeOK, ChannelOK
<1>6. CASE ToggleVision \/ StopAllCapture
  <2>1. UNCHANGED <<linkVars, down, backendVars, thermal>> /\ Command
    BY <1>6 DEF ToggleVision, StopAllCapture
  <2>2. commands' \in 0..MaxCommands
    BY <2>1, PerceptionAssumption DEF Command, TypeOK
  <2> QED
    BY <1>0, <1>4, <1>6, <2>1, <2>2 DEF TypeOK, ChannelOK
<1>7. CASE \E t \in {"nominal", "critical"} : SetThermal(t)
  BY <1>7, PerceptionAssumption DEF SetThermal, Command, TypeOK
<1>8. CASE \E due \in BOOLEAN : Update(due)
  <2>1. active' \in BOOLEAN /\ starting' \in BOOLEAN /\ cam' \in BOOLEAN
    BY <1>8 DEF Update, ThermalGuard, StopStream, StopCapture, TypeOK
  <2>2. EmitState(FALSE) \/ UNCHANGED toldVars
    BY <1>8 DEF Update
  <2>3. /\ up' \in Seq(States \cup {"frame"})
        /\ lastHash' \in {<<>>} \cup (BOOLEAN \X {"nominal", "critical"})
        /\ told' \in States \cup {"nothing"}
        /\ link = "down" => told' = told
    BY <2>1, <2>2, EmitType DEF TypeOK
  <2>4. UNCHANGED <<linkVars, commands, down, backendVars, thermal>>
    BY <1>8 DEF Update
  <2> QED
    BY <1>0, <2>1, <2>3, <2>4 DEF TypeOK, ChannelOK
<1>9. CASE Capture
  BY <1>9, AppendProperties DEF Capture, TypeOK
<1>10. CASE \E on \in BOOLEAN : Watch(on)
  <2>1. PICK on \in BOOLEAN : Watch(on)
    BY <1>10
  <2>2. down' \in Seq({"start", "stop"})
    BY <2>1, AskType DEF Watch, TypeOK
  <2>3. commands' \in 0..MaxCommands
    BY <2>1, PerceptionAssumption DEF Watch, Command, TypeOK
  <2> QED
    BY <2>1, <2>2, <2>3 DEF Watch, TypeOK
<1>11. CASE BeginLook
  <2>1. down' \in Seq({"start", "stop"})
    BY <1>11, AskType DEF BeginLook, TypeOK
  <2>2. commands' \in 0..MaxCommands /\ turn' \in {"looking", "started"}
    BY <1>11, PerceptionAssumption DEF BeginLook, Command, TypeOK
  <2> QED
    BY <1>11, <2>1, <2>2 DEF BeginLook, TypeOK
<1>12. CASE EndLook
  <2>1. down' \in Seq({"start", "stop"})
    BY <1>12, AskType DEF EndLook, TypeOK
  <2> QED
    BY <1>12, <2>1 DEF EndLook, TypeOK
<1>13. CASE CutLook
  BY <1>13 DEF CutLook, TypeOK
<1>14. CASE Ingest
  <2>1. up' \in Seq(States \cup {"frame"}) /\ link = "up"
    BY <1>14, HeadTailProperties DEF Ingest, Heard, TypeOK
  <2>2. visionActive' \in BOOLEAN
    BY <1>14 DEF Ingest, SetState
  <2> QED
    BY <1>14, <2>1, <2>2 DEF Ingest, TypeOK
<1>15. CASE Connect
  BY <1>15, PerceptionAssumption DEF Connect, TypeOK
<1>16. CASE Break
  <2>1. down' \in Seq({"start", "stop"}) /\ up' \in Seq(States \cup {"frame"})
    BY <1>16 DEF Break
  <2> QED
    BY <1>16, <2>1 DEF Break, LoseSession, TypeOK
<1> QED
  BY <1>1, <1>2, <1>3, <1>5, <1>6, <1>7, <1>8, <1>9, <1>10, <1>11, <1>12, <1>13, <1>14,
     <1>15, <1>16
     DEF Next

(***************************************************************************)
(* What the backend believes.                                              *)
(***************************************************************************)

\* The end of a queue is what was appended; of a longer one it outlives the head.
LEMMA LastOfAppend ==
  ASSUME NEW S, NEW q \in Seq(S), NEW x \in S
  PROVE  Append(q, x) # <<>> /\ Append(q, x)[Len(Append(q, x))] = x
BY AppendProperties

LEMMA LastOfTail ==
  ASSUME NEW S, NEW q \in Seq(S), q # <<>>
  PROVE  /\ Tail(q) # <<>> => Tail(q)[Len(Tail(q))] = q[Len(q)]
         /\ Tail(q) = <<>> => Head(q) = q[Len(q)]
<1>1. /\ Len(q) \in Nat \ {0} /\ Tail(q) \in Seq(S) /\ Len(Tail(q)) = Len(q) - 1
      /\ Head(q) = q[1]
      /\ \A i \in 1..Len(Tail(q)) : Tail(q)[i] = q[i + 1]
  BY HeadTailProperties, EmptySeq, LenProperties
<1>2. Tail(q) # <<>> => Len(Tail(q)) \in 1..Len(Tail(q))
  BY <1>1, EmptySeq
<1>3. Tail(q) = <<>> => Len(q) = 1
  BY <1>1, EmptySeq
<1> QED
  BY <1>1, <1>2, <1>3

\* Told of the camera as it is now, the backend has it at the end of the queue.
LEMMA EmitHeard ==
  ASSUME TypeOK, Heard, active' \in BOOLEAN, NEW force \in BOOLEAN, EmitState(force),
         force \/ (active' => active),
         ~force => down' = down,
         down' # <<>> => down # <<>>,
         UNCHANGED <<link, visionActive>>
  PROVE  Heard'
<1>1. CASE /\ link = "up"
           /\ up' = Append(up, State(active'))
           /\ told' = State(active')
  <2>1. State(active') \in States \cup {"frame"} /\ (State(active') = "on" <=> active')
    BY DEF State, States
  <2>2. up' # <<>> /\ up'[Len(up')] = State(active')
    BY <1>1, <2>1, LastOfAppend DEF TypeOK
  <2>3. Means(State(active')) <=> State(active') = "on"
    BY DEF Means, State
  <2> QED
    BY <1>1, <2>1, <2>2, <2>3 DEF Heard
<1>2. CASE UNCHANGED toldVars /\ ~(link = "up" /\ force)
  <2>1. CASE link = "up"
    BY <1>2, <2>1 DEF Heard, toldVars
  <2>2. CASE link # "up"
    BY <1>2, <2>2 DEF Heard, toldVars
  <2> QED
    BY <2>1, <2>2
<1> QED
  BY <1>1, <1>2 DEF EmitState

LEMMA HeardStep == IInv /\ [Next]_vars => Heard'
<1> SUFFICES ASSUME TypeOK, Heard, IInv, [Next]_vars
             PROVE  Heard'
  BY DEF IInv
<1> USE DEF linkVars, backendVars, toldVars
<1>1. CASE UNCHANGED vars
  BY <1>1 DEF Heard, vars
<1>2. CASE CameraStarts \/ Channel \/ \E t \in {"nominal", "critical"} : SetThermal(t)
  <2>1. UNCHANGED <<down, link, up, told, active, visionActive>>
    BY <1>2 DEF CameraStarts, Channel, SetThermal
  <2> QED
    BY <2>1 DEF Heard
<1>3. CASE HandleRequest \/ ToggleVision \/ StopAllCapture
  <2>1. active' \in BOOLEAN
    BY <1>3 DEF HandleRequest, ToggleVision, StopAllCapture, StartStream, StopStream
  <2>2. EmitState(TRUE) /\ UNCHANGED <<link, visionActive>> /\ (down' # <<>> => down # <<>>)
    BY <1>3 DEF HandleRequest, ToggleVision, StopAllCapture
  <2> QED
    BY <2>1, <2>2, EmitHeard
<1>4. CASE \E due \in BOOLEAN : Update(due)
  <2>1. active' \in BOOLEAN /\ (active' => active)
    BY <1>4 DEF Update, ThermalGuard, StopStream, TypeOK
  <2>2. UNCHANGED <<link, visionActive, down>>
    BY <1>4 DEF Update
  <2>3. CASE EmitState(FALSE)
    BY <2>1, <2>2, <2>3, EmitHeard
  <2>4. CASE UNCHANGED toldVars
    BY <2>1, <2>2, <2>4 DEF Heard
  <2> QED
    BY <1>4, <2>3, <2>4 DEF Update
<1>5. CASE Capture
  <2>1. /\ up' # <<>> /\ up'[Len(up')] = "frame"
    BY <1>5, LastOfAppend DEF Capture, TypeOK
  <2>2. /\ active /\ link = "up"
        /\ UNCHANGED <<link, down, told, active, visionActive>>
    BY <1>5 DEF Capture
  <2> QED
    BY <2>1, <2>2 DEF Heard, Means
<1>6. CASE (\E on \in BOOLEAN : Watch(on)) \/ BeginLook \/ EndLook \/ CutLook
  <2>1. /\ UNCHANGED <<link, up, told, active>>
        /\ \/ down' # <<>>
           \/ UNCHANGED <<down, visionActive>>
    <3>1. ASSUME NEW a \in {"start", "stop"}, Ask(a)
          PROVE  down' # <<>>
      BY <3>1, LastOfAppend DEF Ask, TypeOK
    <3> QED
      BY <1>6, <3>1 DEF Watch, BeginLook, EndLook, CutLook
  <2>2. link = "up"
    BY <1>6 DEF Watch, BeginLook, EndLook, CutLook, TypeOK
  <2> QED
    BY <2>1, <2>2 DEF Heard
<1>7. CASE Ingest
  <2>1. /\ up # <<>> /\ up' = Tail(up) /\ UNCHANGED <<link, down, told, active>>
    BY <1>7 DEF Ingest
  <2>2. visionActive' <=> Means(Head(up))
    <3>1. Head(up) \in States \cup {"frame"}
      BY <2>1, HeadTailProperties DEF TypeOK
    <3> QED
      BY <1>7, <3>1 DEF Ingest, SetState, Means, States
  <2>3. /\ up' # <<>> => up'[Len(up')] = up[Len(up)]
        /\ up' = <<>> => Head(up) = up[Len(up)]
    BY <2>1, LastOfTail DEF TypeOK
  <2> QED
    BY <2>1, <2>2, <2>3 DEF Heard
<1>8. CASE Connect \/ Break
  BY <1>8 DEF Connect, Break, Heard, TypeOK
<1> QED
  BY <1>1, <1>2, <1>3, <1>4, <1>5, <1>6, <1>7, <1>8 DEF Next

(***************************************************************************)
(* The theorems.                                                           *)
(***************************************************************************)

LEMMA IInvStep == IInv /\ [Next]_vars => IInv'
BY TypeStep, ChannelStep, HeardStep DEF IInv

LEMMA Inductive == Spec => []IInv
<1> QED
  BY InitIInv, IInvStep, PTL DEF Spec

\* The variables keep their types, and nothing of a session of the backend survives its
\* connection (server.py: _shutdown).
THEOREM TypeCorrect == Spec => []TypeOK
<1>1. IInv => TypeOK
  BY DEF IInv
<1> QED
  BY <1>1, Inductive, PTL

\* However often streams start and stop while a socket opens or closes, there is at most
\* one for the frames (VisionChannel.cs: Connect, Disconnect).
THEOREM ChannelAlone == Spec => []OneChannel
<1>1. IInv => OneChannel
  BY AloneIsOne DEF IInv, TypeOK, ChannelOK
<1> QED
  BY <1>1, Inductive, PTL

\* With nothing on the way the backend believes what the headset told it last, whatever
\* frames, requests and turns there were in between (buffer.py: set_state, add_vision_frame;
\* PerceptionController.cs: EmitState).
THEOREM BelievesWhatItIsTold == Spec => []HeadsetIsHeard
<1>1. IInv => HeadsetIsHeard
  BY DEF IInv, Heard, TypeOK, HeadsetIsHeard
<1> QED
  BY <1>1, Inductive, PTL

(***************************************************************************)
(* The camera.                                                             *)
(***************************************************************************)

LEMMA StepSwitchesOff ==
  ASSUME TypeOK, [Next]_vars, cam', ~active'
  PROVE  (cam /\ ~active) \/ (starting /\ ~starting')
<1>1. CASE UNCHANGED <<active, cam>>
  BY <1>1
<1>2. CASE CameraStarts
  BY <1>2 DEF CameraStarts
<1>3. ~StopStream /\ ~StartStream
  BY DEF StopStream, StopCapture, StartStream
<1>4. CASE Channel
  BY <1>1, <1>4 DEF Channel, cameraVars
<1>5. CASE HandleRequest \/ ToggleVision \/ StopAllCapture
  BY <1>3, <1>5 DEF HandleRequest, ToggleVision, StopAllCapture
<1>6. CASE \E due \in BOOLEAN : Update(due)
  BY <1>1, <1>3, <1>6 DEF Update, ThermalGuard, cameraVars
<1>7. CASE Capture \/ (\E t \in {"nominal", "critical"} : SetThermal(t))
  BY <1>1, <1>7 DEF Capture, SetThermal, cameraVars
<1>8. CASE (\E on \in BOOLEAN : Watch(on)) \/ BeginLook \/ EndLook \/ CutLook \/ Ingest
  BY <1>1, <1>8 DEF Watch, BeginLook, EndLook, CutLook, Ingest, cameraVars
<1>9. CASE Connect \/ Break
  BY <1>1, <1>9 DEF Connect, Break, cameraVars
<1>10. CASE UNCHANGED vars
  BY <1>1, <1>10 DEF vars, cameraVars
<1> QED
  BY <1>2, <1>4, <1>5, <1>6, <1>7, <1>8, <1>9, <1>10 DEF Next

\* The camera escapes the stream only by the one race that the code has, a start that
\* completes after its stop, for every number of commands, requests and connections.
THEOREM CameraEscapesOneWay == Spec => UnaskedOnlyByLateStart
<1>1. TypeOK /\ [Next]_vars =>
        [cam' /\ ~active' => (cam /\ ~active) \/ (starting /\ ~starting')]_vars
  BY StepSwitchesOff
<1> QED
  BY <1>1, TypeCorrect, PTL DEF Spec, UnaskedOnlyByLateStart
=============================================================================
