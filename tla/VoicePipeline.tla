----------------------------- MODULE VoicePipeline -----------------------------
(***************************************************************************)
(* The voice pipeline: the thread of the microphone, which feeds frames to *)
(* process_frame, and the executor thread that speaks the replies.  They   *)
(* share the flags _speaking, _barge_requested and the counter _barge_run  *)
(* without a lock, so every statement that touches one is a step.  What    *)
(* only the microphone's thread touches (the recording) is part of the     *)
(* step that reads _speaking.                                              *)
(*                                                                         *)
(* A frame is quiet, speech (above the VAD threshold) or loud (above the   *)
(* barge-in threshold too); whether the wake word is heard is the          *)
(* detector's choice, and only the number of frames recorded matters.      *)
(***************************************************************************)
EXTENDS Integers

CONSTANTS
  MaxReplies,    \* bound: replies spoken
  BargeLimit,    \* _barge_limit: loud frames in a row that interrupt
  SilenceLimit,  \* _silence_limit
  MaxFrames,     \* _max_frames
  GraceFrames    \* _grace_frames

ASSUME VoiceAssumption ==
  /\ MaxReplies \in Nat
  /\ {BargeLimit, SilenceLimit, MaxFrames, GraceFrames} \subseteq Nat \ {0}

Frames == {"quiet", "speech", "loud"}

VARIABLES
  spk,          \* where the executor thread is in speak
  reply,        \* the number of the reply spoken, or spoken last
  mic,          \* where the microphone's thread is in process_frame
  read,         \* the value of _barge_run it has read
  speaking,     \* _speaking
  requested,    \* _barge_requested
  run,          \* _barge_run, up to BargeLimit
  state,        \* PipelineState
  heard,        \* _heard_speech
  silence,      \* _silence_frames
  recorded,     \* _record_frames
  target,       \* the reply the interruption under way is for
  interrupted,  \* history: the replies an interruption was decided for
  told          \* history: ... and the backend told of

flags     == <<speaking, requested, run>>
recording == <<state, heard, silence, recorded>>
history   == <<interrupted, told>>
vars == <<spk, reply, mic, read, flags, recording, target, history>>

Capped(n) == IF n > BargeLimit THEN BargeLimit ELSE n

Init ==
  /\ spk = "idle"
  /\ reply = 0
  /\ mic = "idle"
  /\ read = 0
  /\ speaking = FALSE
  /\ requested = FALSE
  /\ run = 0
  /\ state = "LISTENING"
  /\ heard = FALSE
  /\ silence = 0
  /\ recorded = 0
  /\ target = 0
  /\ interrupted = {}
  /\ told = {}

(***************************************************************************)
(* speak: the replies come one after the other.                            *)
(***************************************************************************)

Say ==
  /\ spk = "idle"
  /\ reply < MaxReplies
  /\ reply' = reply + 1
  /\ speaking' = TRUE
  /\ spk' = "reset run"
  /\ UNCHANGED <<mic, read, requested, run, recording, target, history>>

ResetRun ==
  /\ spk = "reset run"
  /\ run' = 0
  /\ spk' = "reset request"
  /\ UNCHANGED <<reply, mic, read, speaking, requested, recording, target, history>>

ResetRequest ==
  /\ spk = "reset request"
  /\ requested' = FALSE
  /\ spk' = "synthesize"
  /\ UNCHANGED <<reply, mic, read, speaking, run, recording, target, history>>

\* Speaker.speak synthesizes the whole reply, then plays it; either may fail, and
\* speak logs it.
FaultyFinally(next) == spk' = next /\ UNCHANGED speaking
Finally(next) == spk' = next /\ speaking' = FALSE

Synthesize ==
  /\ spk = "synthesize"
  /\ spk' \in {"play", "finally"}
  /\ UNCHANGED <<reply, mic, read, flags, recording, target, history>>

PlayedOut ==
  /\ spk = "play"
  /\ spk' = "finally"
  /\ UNCHANGED <<reply, mic, read, flags, recording, target, history>>

EndSpeak ==
  /\ spk = "finally"
  /\ Finally("idle")
  /\ UNCHANGED <<reply, mic, read, requested, run, recording, target, history>>

(***************************************************************************)
(* process_frame.                                                          *)
(***************************************************************************)

\* _begin_recording
BeginRecording ==
  state' = "RECORDING" /\ heard' = FALSE /\ silence' = 0 /\ recorded' = 0

Listen ==
  /\ state = "LISTENING"
  /\ BeginRecording \/ UNCHANGED recording

\* The tests for the end of the utterance, on the counters with this frame in them.
UtteranceEnds(h, s, n) ==
  (h /\ s >= SilenceLimit) \/ n >= MaxFrames \/ (~h /\ n >= GraceFrames)

\* Faulty variant: only the frames before the first speech count.
FaultyElapsed == IF heard THEN recorded ELSE recorded + 1
Elapsed == recorded + 1

Record(frame) ==
  /\ state = "RECORDING"
  /\ recorded' = Elapsed
  /\ heard' = (heard \/ frame # "quiet")
  /\ silence' = IF frame # "quiet" THEN 0 ELSE IF heard THEN silence + 1 ELSE silence
  /\ state' = IF UtteranceEnds(heard', silence', recorded') THEN "LISTENING" ELSE state

\* The next frame of the microphone, up to the first step of the barge-in check.
HearFrame ==
  /\ mic = "idle"
  /\ \E frame \in Frames :
       \/ /\ ~speaking
          /\ Listen \/ Record(frame)
          /\ UNCHANGED <<mic, read, run>>
       \/ /\ speaking
          /\ frame = "loud"
          /\ read' = run
          /\ mic' = "add"
          /\ UNCHANGED <<run, recording>>
       \/ /\ speaking
          /\ frame # "loud"
          /\ run' = 0
          /\ mic' = "judge"
          /\ UNCHANGED <<read, recording>>
  /\ UNCHANGED <<spk, reply, speaking, requested, target, history>>

\* self._barge_run += 1 is a read and a write.
AddFrame ==
  /\ mic = "add"
  /\ run' = Capped(read + 1)
  /\ mic' = "judge"
  /\ UNCHANGED <<spk, reply, read, speaking, requested, recording, target, history>>

Judge ==
  /\ mic = "judge"
  /\ \/ run < BargeLimit /\ mic' = "idle"
     \/ run >= BargeLimit /\ mic' = "request"
  /\ UNCHANGED <<spk, reply, read, flags, recording, target, history>>

\* _trigger_barge_in: only this thread sets _barge_requested, so the test and the
\* assignment are one step.
AlreadyRequested ==
  /\ mic = "request"
  /\ requested
  /\ mic' = "idle"
  /\ UNCHANGED <<spk, reply, read, flags, recording, target, history>>

Request ==
  /\ mic = "request"
  /\ ~requested
  /\ requested' = TRUE
  /\ target' = reply
  /\ interrupted' = interrupted \cup {reply}
  /\ mic' = "stop"
  /\ UNCHANGED <<spk, reply, read, speaking, run, recording, told>>

\* Speaker.stop: ends what is being played, if anything is.
StopPlayback == spk' = IF spk = "play" THEN "finally" ELSE spk

Stop ==
  /\ mic = "stop"
  /\ StopPlayback
  /\ mic' = "clear"
  /\ UNCHANGED <<reply, read, flags, recording, target, history>>

FaultyClearSpeaking == UNCHANGED speaking
ClearSpeaking == speaking' = FALSE

Clear ==
  /\ mic = "clear"
  /\ ClearSpeaking
  /\ mic' = "tell"
  /\ UNCHANGED <<spk, reply, read, requested, run, recording, target, history>>

\* The counter is reset; on_barge_in queues client.barge_in.
Tell ==
  /\ mic = "tell"
  /\ run' = 0
  /\ told' = told \cup {target}
  /\ mic' = "idle"
  /\ UNCHANGED <<spk, reply, read, speaking, requested, recording, target,
                 interrupted>>

(***************************************************************************)
(* The specification.                                                      *)
(***************************************************************************)

Speaker == Say \/ ResetRun \/ ResetRequest \/ Synthesize \/ PlayedOut \/ EndSpeak
Interrupt == AddFrame \/ Judge \/ AlreadyRequested \/ Request \/ Stop \/ Clear \/ Tell

Next == Speaker \/ HearFrame \/ Interrupt

Spec == Init /\ [][Next]_vars

\* The microphone delivers frames, both threads run and a reply is played out or
\* fails; nothing obliges the backend to reply.
FairSpec ==
  /\ Spec
  /\ WF_vars(HearFrame)
  /\ WF_vars(Interrupt)
  /\ WF_vars(ResetRun \/ ResetRequest \/ Synthesize \/ PlayedOut \/ EndSpeak)

(***************************************************************************)
(* Properties.                                                             *)
(***************************************************************************)

SpkSteps == {"idle", "reset run", "reset request", "synthesize", "play", "finally"}
MicSteps == {"idle", "add", "judge", "request", "stop", "clear", "tell"}

\* Every variable has a value of its kind; no recording passes the limits.
TypeOK ==
  /\ spk \in SpkSteps
  /\ reply \in 0..MaxReplies
  /\ mic \in MicSteps
  /\ read \in 0..BargeLimit
  /\ speaking \in BOOLEAN
  /\ requested \in BOOLEAN
  /\ run \in 0..BargeLimit
  /\ state \in {"LISTENING", "RECORDING"}
  /\ heard \in BOOLEAN
  /\ silence \in 0..SilenceLimit
  /\ recorded \in 0..MaxFrames
  /\ target \in 0..MaxReplies
  /\ interrupted \subseteq 0..MaxReplies
  /\ told \subseteq interrupted

\* When nothing is being spoken the pipeline listens: neither a failure of the engine
\* nor an interruption at any moment leaves it suppressed, waiting for a barge-in.
NotLeftDeaf == spk = "idle" => ~speaking

\* A reply is interrupted at most once, although the speaker resets the request while
\* the microphone's thread tests it: the backend is not told twice, and the second
\* client.barge_in does not cut the answer to what the user said.
OneInterruption == [][mic = "request" /\ mic' = "stop" => reply \notin interrupted]_vars

\* Every recording ends, whatever is heard and whatever is spoken in between.
RecordingEnds == (state = "RECORDING") ~> (state = "LISTENING")

(***************************************************************************)
(* What the documentation and the comments say and the code does not do.   *)
(***************************************************************************)

\* An interruption stops playback immediately: what was interrupted is not played
\* once the backend knows.
PlaybackStops == spk = "play" => reply \notin told
=============================================================================
