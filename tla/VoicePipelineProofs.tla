-------------------------- MODULE VoicePipelineProofs --------------------------
(***************************************************************************)
(* NotLeftDeaf and OneInterruption for any number of replies and any       *)
(* limits.  The inductive invariant says where the microphone's thread can *)
(* be once the reply being spoken has been interrupted: between its        *)
(* decision and the clearing of _speaking, or past it with _speaking       *)
(* cleared, and only the next reply sets it again.                         *)
(***************************************************************************)
EXTENDS VoicePipeline, TLAPS

Quiet ==
  reply \in interrupted =>
    \/ mic \in {"stop", "clear"}
    \/ ~speaking /\ mic \in {"tell", "idle"}

Past == reply \in Nat /\ \A r \in interrupted : r \in Nat /\ r <= reply

IInv == spk \in SpkSteps /\ NotLeftDeaf /\ Past /\ Quiet

\* Initially nothing has been said and nothing interrupted.
LEMMA InitIInv == Init => IInv
  BY DEF Init, IInv, SpkSteps, NotLeftDeaf, Past, Quiet

\* Each step of the speaker keeps the invariant: the next reply is new.
LEMMA SpeakerIInv == ASSUME IInv, Speaker PROVE IInv'
<1>0. Past
  BY DEF IInv
<1> USE DEF IInv, SpkSteps, NotLeftDeaf, Past, Quiet, history
<1>1. CASE Say
  <2>1. reply' = reply + 1 /\ interrupted' = interrupted
    BY <1>1 DEF Say
  <2>2. reply + 1 \in Nat /\ reply + 1 \notin interrupted
    BY ONLY <1>0 DEF Past
  <2>3. Past'
    BY ONLY <1>0, <2>1, <2>2 DEF Past
  <2> QED BY <1>1, <2>1, <2>2, <2>3 DEF Say
<1>2. CASE ResetRun
  BY <1>2 DEF ResetRun
<1>3. CASE ResetRequest
  BY <1>3 DEF ResetRequest
<1>4. CASE Synthesize
  BY <1>4 DEF Synthesize, flags
<1>5. CASE PlayedOut
  BY <1>5 DEF PlayedOut, flags
<1>6. CASE EndSpeak
  BY <1>6 DEF EndSpeak, Finally
<1> QED BY <1>1, <1>2, <1>3, <1>4, <1>5, <1>6 DEF Speaker

\* Each step of the microphone's thread keeps it: a frame starts the barge-in check
\* only while _speaking is set.
LEMMA MicIInv == ASSUME IInv, HearFrame \/ Interrupt PROVE IInv'
<1>0. Past
  BY DEF IInv
<1> USE DEF IInv, SpkSteps, NotLeftDeaf, Past, Quiet
<1>1. CASE HearFrame
  <2>1. PICK frame \in Frames :
          \/ ~speaking /\ mic' = mic
          \/ speaking /\ mic' \in {"add", "judge"}
    BY <1>1 DEF HearFrame
  <2>2. UNCHANGED <<spk, reply, speaking, interrupted>> /\ mic = "idle"
    BY <1>1 DEF HearFrame, history
  <2> QED BY <2>1, <2>2
<1>2. CASE AddFrame
  BY <1>2 DEF AddFrame, history
<1>3. CASE Judge
  BY <1>3 DEF Judge, flags, history
<1>4. CASE AlreadyRequested
  BY <1>4 DEF AlreadyRequested, flags, history
<1>5. CASE Request
  <2>1. interrupted' = interrupted \cup {reply} /\ UNCHANGED <<spk, reply, speaking>>
    BY <1>5 DEF Request
  <2>2. Past'
    BY ONLY <1>0, <2>1 DEF Past
  <2>3. spk' \in SpkSteps /\ NotLeftDeaf'
    BY <2>1
  <2>4. Quiet'
    BY <1>5 DEF Request
  <2> QED BY ONLY <2>2, <2>3, <2>4 DEF IInv
<1>6. CASE Stop
  BY <1>6 DEF Stop, StopPlayback, flags, history
<1>7. CASE Clear
  BY <1>7 DEF Clear, ClearSpeaking, history
<1>8. CASE Tell
  BY <1>8 DEF Tell
<1> QED BY <1>1, <1>2, <1>3, <1>4, <1>5, <1>6, <1>7, <1>8 DEF Interrupt

LEMMA StutterIInv == ASSUME IInv, UNCHANGED vars PROVE IInv'
  BY DEF IInv, SpkSteps, NotLeftDeaf, Past, Quiet, vars, flags, history

\* The invariant holds in every reachable state.
THEOREM Invariance == Spec => []IInv
<1>1. ASSUME IInv, [Next]_vars PROVE IInv'
  BY <1>1, SpeakerIInv, MicIInv, StutterIInv DEF Next
<1> QED BY InitIInv, <1>1, PTL DEF Spec

\* Between two replies the pipeline listens, whatever failed or was interrupted.
THEOREM Listens == Spec => []NotLeftDeaf
<1>1. IInv => NotLeftDeaf
  BY DEF IInv
<1> QED BY Invariance, <1>1, PTL

\* A thread about to request an interruption does so for a reply that has none yet.
THEOREM InterruptsOnce == Spec => OneInterruption
<1>1. ASSUME IInv, [Next]_vars
      PROVE  [mic = "request" /\ mic' = "stop" => reply \notin interrupted]_vars
  BY <1>1 DEF IInv, Quiet
<1> QED BY Invariance, <1>1, PTL DEF Spec, OneInterruption
(***************************************************************************)
(* Types and the limits of a recording: TypeOK is inductive together with  *)
(* what is left of the limits while a recording goes on, and with the      *)
(* reply an interruption under way is for.                                 *)
(***************************************************************************)

Bounded ==
  /\ TypeOK
  /\ state = "RECORDING" => silence < SilenceLimit /\ recorded < MaxFrames
  /\ mic \in {"stop", "clear", "tell"} => target \in interrupted

LEMMA Limits ==
  /\ MaxReplies \in Nat
  /\ BargeLimit \in Nat /\ BargeLimit >= 1
  /\ SilenceLimit \in Nat /\ SilenceLimit >= 1
  /\ MaxFrames \in Nat /\ MaxFrames >= 1
  BY VoiceAssumption DEF VoiceAssumption

LEMMA Zeros ==
  0 \in 0..MaxReplies /\ 0 \in 0..BargeLimit /\ 0 \in 0..SilenceLimit /\ 0 \in 0..MaxFrames
  BY Limits

LEMMA InitBounded == Init => Bounded
  BY Limits, Zeros DEF Init, Bounded, TypeOK, SpkSteps, MicSteps

\* A frame of a recording: the counters stay within the limits, and the frame that
\* reaches one ends the recording.
LEMMA RecordBounded ==
  ASSUME Bounded, NEW frame \in Frames, Record(frame)
  PROVE  /\ state' \in {"LISTENING", "RECORDING"} /\ heard' \in BOOLEAN
         /\ silence' \in 0..SilenceLimit /\ recorded' \in 0..MaxFrames
         /\ state' = "RECORDING" => silence' < SilenceLimit /\ recorded' < MaxFrames
<1>1. /\ state = "RECORDING" /\ silence \in 0..(SilenceLimit - 1)
      /\ recorded \in 0..(MaxFrames - 1) /\ heard \in BOOLEAN
  BY Limits DEF Record, Bounded, TypeOK
<1>2. recorded' = recorded + 1 /\ heard' \in BOOLEAN
  BY <1>1 DEF Record, Elapsed
<1>3. \/ silence' = 0
      \/ silence' = silence
      \/ silence' = silence + 1 /\ heard'
  BY <1>1 DEF Record
<1>4. CASE UtteranceEnds(heard', silence', recorded')
  <2>1. state' = "LISTENING"
    BY <1>4 DEF Record
  <2> QED BY ONLY Limits, <1>1, <1>2, <1>3, <2>1
<1>5. CASE ~UtteranceEnds(heard', silence', recorded')
  <2>1. state' = "RECORDING"
    BY <1>1, <1>5 DEF Record
  <2>2. ~(heard' /\ silence' >= SilenceLimit) /\ ~(recorded' >= MaxFrames)
    BY <1>5 DEF UtteranceEnds
  <2>3. recorded' \in 0..MaxFrames /\ recorded' < MaxFrames
    BY ONLY Limits, <1>1, <1>2, <2>2
  <2>4. silence' \in 0..SilenceLimit /\ silence' < SilenceLimit
    BY ONLY Limits, <1>1, <1>3, <2>2
  <2> QED BY ONLY <1>2, <2>1, <2>3, <2>4
<1> QED BY ONLY <1>4, <1>5

\* The speaker's steps.
LEMMA SpeakerBounded == ASSUME Bounded, Speaker PROVE Bounded'
<1> USE Limits, Zeros DEF SpkSteps, flags, recording, history, Bounded, TypeOK
<1>1. CASE Say
  <2>1. reply \in 0..MaxReplies /\ reply < MaxReplies /\ reply' = reply + 1
    BY <1>1 DEF Say
  <2>2. reply' \in 0..MaxReplies
    BY ONLY Limits, <2>1
  <2> QED BY <1>1, <2>2 DEF Say
<1>2. CASE ResetRun
  BY <1>2 DEF ResetRun
<1>3. CASE ResetRequest
  BY <1>3 DEF ResetRequest
<1>4. CASE Synthesize
  BY <1>4 DEF Synthesize
<1>5. CASE PlayedOut
  BY <1>5 DEF PlayedOut
<1>6. CASE EndSpeak
  BY <1>6 DEF EndSpeak, Finally
<1> QED BY ONLY Speaker, <1>1, <1>2, <1>3, <1>4, <1>5, <1>6 DEF Speaker

\* The steps of the microphone's thread.
LEMMA FrameBounded == ASSUME Bounded, HearFrame PROVE Bounded'
<1>1. UNCHANGED <<spk, reply, speaking, requested, target, interrupted, told>>
  BY DEF HearFrame, history
<1>2. mic' \in {"idle", "add", "judge"} /\ read' \in 0..BargeLimit /\ run' \in 0..BargeLimit
  BY Limits DEF HearFrame, Bounded, TypeOK
<1>3. \/ UNCHANGED recording
      \/ BeginRecording
      \/ \E frame \in Frames : Record(frame)
  BY DEF HearFrame, Listen
<1>4. /\ state' \in {"LISTENING", "RECORDING"} /\ heard' \in BOOLEAN
      /\ silence' \in 0..SilenceLimit /\ recorded' \in 0..MaxFrames
      /\ state' = "RECORDING" => silence' < SilenceLimit /\ recorded' < MaxFrames
  <2>1. CASE UNCHANGED recording
    BY <2>1 DEF recording, Bounded, TypeOK
  <2>2. CASE BeginRecording
    <3>1. heard' \in BOOLEAN
      BY <2>2 DEF BeginRecording
    <3>2. state' = "RECORDING" /\ silence' = 0 /\ recorded' = 0
      BY <2>2 DEF BeginRecording
    <3> QED BY ONLY Limits, <3>1, <3>2
  <2>3. CASE \E frame \in Frames : Record(frame)
    BY <2>3, RecordBounded
  <2> QED BY <1>3, <2>1, <2>2, <2>3
<1> QED BY <1>1, <1>2, <1>4 DEF Bounded, TypeOK, MicSteps

LEMMA InterruptBounded == ASSUME Bounded, Interrupt PROVE Bounded'
<1> USE Limits, Zeros DEF MicSteps, flags, recording, history, Bounded, TypeOK
<1>1. CASE AddFrame
  <2>1. run' \in 0..BargeLimit
    BY <1>1 DEF AddFrame, Capped
  <2> QED BY <1>1, <2>1 DEF AddFrame
<1>2. CASE Judge
  BY <1>2 DEF Judge
<1>3. CASE AlreadyRequested
  BY <1>3 DEF AlreadyRequested
<1>4. CASE Request
  BY <1>4 DEF Request
<1>5. CASE Stop
  BY <1>5 DEF Stop, StopPlayback, SpkSteps
<1>6. CASE Clear
  BY <1>6 DEF Clear, ClearSpeaking
<1>7. CASE Tell
  BY <1>7 DEF Tell
<1> HIDE DEF Bounded
<1> QED BY ONLY Interrupt, <1>1, <1>2, <1>3, <1>4, <1>5, <1>6, <1>7 DEF Interrupt

LEMMA NextBounded == ASSUME Bounded, [Next]_vars PROVE Bounded'
<1>1. CASE UNCHANGED vars
  BY <1>1 DEF vars, flags, recording, history, Bounded, TypeOK
<1> QED BY <1>1, SpeakerBounded, FrameBounded, InterruptBounded DEF Next

\* No counter, flag or recording leaves its range, for any limits.
THEOREM TypeCorrect == Spec => []TypeOK
<1>1. Bounded => TypeOK
  BY DEF Bounded
<1> QED BY InitBounded, NextBounded, <1>1, PTL DEF Spec
=============================================================================
