--------------------------------- MODULE Bridge ---------------------------------
(***************************************************************************)
(* VoiceBridge, the voice service's client of the backend: the receive     *)
(* loop, which waits for each sentence to be spoken before it reads on,    *)
(* the sender, which drains an outbox that outlives the connections, the   *)
(* thread of the microphone of each connection, ambient listening on       *)
(* request, and the reconnection.                                          *)
(*                                                                         *)
(* An envelope is the number of what was heard; its text and the session   *)
(* it is stamped with (which the backend does not read) are left out, as   *)
(* are heartbeats and the acknowledgement of the hello, which change       *)
(* nothing here.                                                           *)
(***************************************************************************)
EXTENDS Integers, FiniteSets, SequencesExt

CONSTANTS
  MaxSessions,   \* bound: connections made
  MaxHeard,      \* bound: envelopes queued by the microphone's threads
  MaxInbox,      \* bound: messages received and not read
  Modes          \* the values of JARVIS_AMBIENT explored

ASSUME BridgeAssumption ==
  /\ MaxSessions \in Nat \ {0}
  /\ MaxHeard \in Nat
  /\ MaxInbox \in Nat
  /\ Modes \subseteq {"auto", "on", "off"}

Sessions  == 1..MaxSessions
Envelopes == 1..MaxHeard
Nobody    == 0
Requests  == {"start", "stop", "once"}   \* perception.request actions, on ambient_audio

VARIABLES
  mode,      \* config.ambient_mode, read at the start
  link,      \* "down", "up", or "lost": closed, and recv_loop has not noticed
  session,   \* how many connections there have been
  inbox,     \* messages received and not read
  recv,      \* recv_loop: "off", "reading" or "speaking"
  outbox,    \* _outbox
  sender,    \* sender_loop: "off", "waiting", "sending" or "dead"
  held,      \* the envelope it has taken off the outbox
  mic,       \* [Sessions -> where the thread of capture_loop is]
  stopped,   \* the sessions whose stop event is set
  ambient,   \* _ambient_active
  heard,     \* how many envelopes have been queued, by any thread
  handed,    \* history: envelopes handed to the socket, in order
  lost,      \* history: envelopes taken off the outbox and not sent
  asked      \* history: the backend has asked this session to listen

queueVars   == <<outbox, heard>>
senderVars  == <<sender, held, handed, lost>>
micVars     == <<mic, stopped>>
ambientVars == <<ambient, asked>>
vars == <<mode, link, session, inbox, recv, queueVars, senderVars, micVars, ambientVars>>

Init ==
  /\ mode \in Modes
  /\ link = "down"
  /\ session = 0
  /\ inbox = <<>>
  /\ recv = "off"
  /\ outbox = <<>>
  /\ sender = "off"
  /\ held = Nobody
  /\ mic = [g \in Sessions |-> "none"]
  /\ stopped = {}
  /\ ambient = FALSE
  /\ heard = 0
  /\ handed = <<>>
  /\ lost = {}
  /\ asked = FALSE

\* _enqueue, from any thread; beyond the bound nothing more is heard.
Enqueue ==
  IF heard < MaxHeard
  THEN heard' = heard + 1 /\ outbox' = Append(outbox, heard + 1)
  ELSE UNCHANGED queueVars

(***************************************************************************)
(* The connection.                                                         *)
(***************************************************************************)

\* Faulty variant: the sender is created with the bridge, not with the connection.
FaultyStartSender == sender' = IF session = 0 THEN "waiting" ELSE sender
StartSender == sender' = "waiting"

\* connect_and_run has connected; run says hello and starts the support tasks.  (A
\* connection that fails before that leaves nothing behind.)
Connect ==
  /\ link = "down"
  /\ session < MaxSessions
  /\ link' = "up"
  /\ session' = session + 1
  /\ recv' = "reading"
  /\ StartSender
  /\ mic' = [mic EXCEPT ![session + 1] = "waiting"]
  /\ ambient' = (ambient \/ mode = "on")
  /\ asked' = FALSE
  /\ UNCHANGED <<mode, inbox, queueVars, held, handed, lost, stopped>>

\* The socket closes; what has been received can still be read.
Break ==
  /\ link = "up"
  /\ session < MaxSessions
  /\ link' = "lost"
  /\ UNCHANGED <<mode, session, inbox, recv, queueVars, senderVars, micVars, ambientVars>>

\* run is left: the support tasks are cancelled, an envelope that is being sent with
\* them; capture_loop only asks its thread to stop.
TearDown ==
  /\ link' = "down"
  /\ recv' = "off"
  /\ sender' = "off"
  /\ held' = Nobody
  /\ lost' = lost \cup ({held} \ {Nobody})
  /\ stopped' = stopped \cup {session}
  /\ UNCHANGED handed

\* recv_loop has read all there was.
EndSession ==
  /\ link = "lost"
  /\ recv = "reading"
  /\ inbox = <<>>
  /\ TearDown
  /\ UNCHANGED <<mode, session, inbox, queueVars, mic, ambientVars>>

(***************************************************************************)
(* recv_loop.                                                              *)
(***************************************************************************)

\* The backend sends a sentence or a request.
Receive(m) ==
  /\ link = "up"
  /\ Len(inbox) < MaxInbox
  /\ inbox' = Append(inbox, m)
  /\ UNCHANGED <<mode, link, session, recv, queueVars, senderVars, micVars, ambientVars>>

Reads(m) ==
  /\ recv = "reading"
  /\ inbox # <<>>
  /\ m = Head(inbox)

\* _handle_speech: spoken by a thread of the executor, which the loop waits for.
Speak ==
  /\ Reads("speech")
  /\ inbox' = Tail(inbox)
  /\ recv' = "speaking"
  /\ UNCHANGED <<mode, link, session, queueVars, senderVars, micVars, ambientVars>>

Spoken ==
  /\ recv = "speaking"
  /\ recv' = "reading"
  /\ UNCHANGED <<mode, link, session, inbox, queueVars, senderVars, micVars, ambientVars>>

\* A snapshot leaves the listening as it is, and queues what there is of the room.
Listening(m) ==
  CASE mode # "off" /\ m = "start" -> TRUE
    [] mode # "off" /\ m = "stop"  -> FALSE
    [] OTHER                       -> ambient

Snapshot(m) == IF m = "once" /\ mode # "off" THEN Enqueue ELSE UNCHANGED queueVars

\* _handle_perception_request: does what is asked and answers with perception.state;
\* if that fails the exception ends the session, the rest of the inbox unread.
HandleRequest(m) ==
  /\ Reads(m)
  /\ ambient' = Listening(m)
  /\ asked' = (asked \/ m = "start")
  /\ Snapshot(m)
  /\ \/ /\ link = "up"
        /\ inbox' = Tail(inbox)
        /\ UNCHANGED <<link, recv, senderVars, stopped>>
     \/ /\ link = "lost"
        /\ TearDown
        /\ inbox' = <<>>
  /\ UNCHANGED <<mode, session, mic>>

(***************************************************************************)
(* sender_loop.                                                            *)
(***************************************************************************)

Take ==
  /\ sender = "waiting"
  /\ outbox # <<>>
  /\ held' = Head(outbox)
  /\ outbox' = Tail(outbox)
  /\ sender' = "sending"
  /\ UNCHANGED <<mode, link, session, inbox, recv, heard, handed, lost, micVars,
                 ambientVars>>

Sent ==
  /\ sender = "sending"
  /\ link = "up"
  /\ handed' = Append(handed, held)
  /\ held' = Nobody
  /\ sender' = "waiting"
  /\ UNCHANGED <<mode, link, session, inbox, recv, queueVars, lost, micVars, ambientVars>>

\* Faulty variants of what a failed send does: the loop goes on; the envelope goes
\* back to the end of the queue.
FaultyFailKeepsSending ==
  /\ sender' = "waiting"
  /\ held' = Nobody
  /\ lost' = lost \cup {held}
  /\ UNCHANGED outbox

FaultyFailQueuesAgain ==
  /\ sender' = "dead"
  /\ held' = Nobody
  /\ outbox' = Append(outbox, held)
  /\ UNCHANGED lost

\* The exception ends the task, and with it the envelope.
Fail ==
  /\ sender' = "dead"
  /\ held' = Nobody
  /\ lost' = lost \cup {held}
  /\ UNCHANGED outbox

SendFails ==
  /\ sender = "sending"
  /\ link = "lost"
  /\ Fail
  /\ UNCHANGED <<mode, link, session, inbox, recv, heard, handed, micVars, ambientVars>>

(***************************************************************************)
(* The threads of the microphone: a thread looks at its stop event when a  *)
(* frame comes, and may still be at work on one when the next begins.      *)
(***************************************************************************)

Frame(g) ==
  /\ mic[g] = "waiting"
  /\ mic' = [mic EXCEPT ![g] = IF g \in stopped THEN "gone" ELSE "processing"]
  /\ UNCHANGED <<mode, link, session, inbox, recv, queueVars, senderVars, stopped,
                 ambientVars>>

\* A callback queues a transcript, a barge-in, a sound or a scene.
Hear(g) ==
  /\ mic[g] = "processing"
  /\ Enqueue
  /\ UNCHANGED <<mode, link, session, inbox, recv, senderVars, micVars, ambientVars>>

Processed(g) ==
  /\ mic[g] = "processing"
  /\ mic' = [mic EXCEPT ![g] = "waiting"]
  /\ UNCHANGED <<mode, link, session, inbox, recv, queueVars, senderVars, stopped,
                 ambientVars>>

\* The device fails: the session goes on without a microphone.
MicFails(g) ==
  /\ mic[g] = "waiting"
  /\ mic' = [mic EXCEPT ![g] = "gone"]
  /\ UNCHANGED <<mode, link, session, inbox, recv, queueVars, senderVars, stopped,
                 ambientVars>>

(***************************************************************************)
(* The specification.                                                      *)
(***************************************************************************)

Reading == EndSession \/ Speak \/ Spoken \/ \E m \in Requests : HandleRequest(m)
Sending == Take \/ Sent \/ SendFails

Next ==
  \/ Connect
  \/ Break
  \/ \E m \in Requests \cup {"speech"} : Receive(m)
  \/ Reading
  \/ Sending
  \/ \E g \in Sessions : Frame(g) \/ Hear(g) \/ Processed(g) \/ MicFails(g)

Spec == Init /\ [][Next]_vars

\* The bridge retries for ever and the backend can be reached in the end, the event
\* loop runs its tasks, and a sentence is spoken or fails.  Nothing obliges the
\* microphone to deliver.
FairSpec == Spec /\ WF_vars(Connect) /\ WF_vars(Reading) /\ WF_vars(Sending)

(***************************************************************************)
(* Properties.                                                             *)
(***************************************************************************)

\* Every variable has a value of its kind, and the sender holds an envelope exactly
\* while it sends.
TypeOK ==
  /\ mode \in Modes
  /\ link \in {"down", "up", "lost"}
  /\ session \in 0..MaxSessions
  /\ inbox \in Seq(Requests \cup {"speech"})
  /\ recv \in {"off", "reading", "speaking"}
  /\ outbox \in Seq(Envelopes)
  /\ sender \in {"off", "waiting", "sending", "dead"}
  /\ held \in Envelopes \cup {Nobody}
  /\ (held # Nobody) = (sender = "sending")
  /\ mic \in [Sessions -> {"none", "waiting", "processing", "gone"}]
  /\ stopped \subseteq Sessions
  /\ ambient \in BOOLEAN
  /\ heard \in 0..MaxHeard
  /\ handed \in Seq(Envelopes)
  /\ lost \subseteq Envelopes
  /\ asked \in BOOLEAN

\* What was heard goes out in the order it was heard, across reconnections and although
\* two threads may queue and the sender is cancelled with an envelope in its hands.
SentInOrder == \A i, j \in DOMAIN handed : i < j => handed[i] < handed[j]

\* A lost connection costs at most the envelope that was being sent: what was queued
\* before, while nobody had noticed, or while there was no connection waits in the
\* outbox for the next one.
Breaks == IF link = "up" THEN session - 1 ELSE session

OneLostPerBreak ==
  /\ Cardinality(lost) <= Breaks
  /\ 1..heard = Range(outbox) \cup ({held} \ {Nobody}) \cup Range(handed) \cup lost

\* Everything heard is sent in the end, or lost with a connection: the loop that waits
\* for a sentence notices the loss afterwards, and each connection has a sender.
HeardGetsOut ==
  \A n \in Envelopes : (heard >= n) ~> (n \in Range(handed) \cup lost)

\* The connection as OutboxAbs sees it: until the end of a broken session is noticed, or
\* its sender has died, it may cost an envelope.  The line begins in the sender's hands.
Reach ==
  CASE link = "up"                       -> "up"
    [] link = "lost" /\ sender # "dead" -> "failing"
    [] OTHER                             -> "down"

InLine == IF held = Nobody THEN outbox ELSE <<held>> \o outbox

Abs == INSTANCE OutboxAbs WITH link <- Reach, line <- InLine, sent <- handed

\* The bridge, its senders and their cancellation are the outbox of OutboxAbs: nothing is
\* sent once a connection is gone, what a break costs is the oldest envelope that waits and
\* is lost before the next connection is made, and all others stay where they stand.
ImplementsOutboxAbs == Abs!Spec

(***************************************************************************)
(* What the documents say and the code does not do.                        *)
(***************************************************************************)

\* "Cameras and mics run only while a perception.request stream is active": unless it
\* is configured to listen from the start, a session listens only if it was asked to.
ListensOnRequest == mode = "auto" /\ link = "up" /\ ambient => asked
=============================================================================
