----------------------------- MODULE BridgeProofs -----------------------------
(***************************************************************************)
(* Bridge for every number of connections and envelopes: its variables     *)
(* keep their types, what was heard goes out in the order it was heard, a  *)
(* lost connection costs at most one envelope, and the bridge implements   *)
(* OutboxAbs.                                                              *)
(***************************************************************************)
EXTENDS Bridge, SequenceTheorems, FiniteSetTheorems, TLAPS

(***************************************************************************)
(* The inductive invariant.                                                *)
(***************************************************************************)

\* What has been handed to the socket, the envelope in the sender's hands and the
\* outbox are one increasing line, and nothing in it has yet to be heard.
Line ==
  /\ SentInOrder
  /\ \A i, j \in DOMAIN outbox : i < j => outbox[i] < outbox[j]
  /\ \A j \in DOMAIN outbox : outbox[j] <= heard
  /\ held # Nobody => held <= heard /\ \A j \in DOMAIN outbox : held < outbox[j]
  /\ \A i \in DOMAIN handed :
       /\ handed[i] <= heard
       /\ held # Nobody => handed[i] < held
       /\ \A j \in DOMAIN outbox : handed[i] < outbox[j]

\* Nothing heard is forgotten but what is counted as lost.
Kept ==
  1..heard = Range(outbox) \cup ({held} \ {Nobody}) \cup Range(handed) \cup lost

\* A connection that breaks has lost nothing; until its end is noticed it loses an
\* envelope only by the death of its sender, and that sender holds no other.
Losses ==
  /\ link = "up" => /\ sender \in {"waiting", "sending"}
                    /\ Cardinality(lost) <= session - 1
  /\ link = "lost" => Cardinality(lost) <= IF sender = "dead" THEN session ELSE session - 1
  /\ link = "down" => sender = "off" /\ Cardinality(lost) <= session

\* Who is connected counts a session; who is not has no sender.
Linked ==
  /\ link = "down" => sender = "off"
  /\ link # "down" => session # 0

IInv == TypeOK /\ Linked /\ Line /\ Kept /\ Losses

(***************************************************************************)
(* Lemmas on sequences and sets.                                           *)
(***************************************************************************)

\* The elements of a sequence grow by what is appended ...
LEMMA RangeOfAppend ==
  ASSUME NEW S, NEW s \in Seq(S), NEW x \in S
  PROVE  Range(Append(s, x)) = Range(s) \cup {x}
<1>1. /\ Len(s) \in Nat /\ DOMAIN s = 1..Len(s)
      /\ DOMAIN Append(s, x) = 1..(Len(s) + 1)
      /\ \A n \in 1..Len(s) : Append(s, x)[n] = s[n]
      /\ Append(s, x)[Len(s) + 1] = x
  BY AppendProperties, LenProperties
<1> QED
  BY <1>1 DEF Range

\* ... and are the first one and those of the tail.
LEMMA RangeOfTail ==
  ASSUME NEW S, NEW s \in Seq(S), s # <<>>
  PROVE  Range(s) = {Head(s)} \cup Range(Tail(s))
<1>1. /\ Len(s) \in Nat \ {0} /\ DOMAIN s = 1..Len(s)
      /\ DOMAIN Tail(s) = 1..(Len(s) - 1)
      /\ \A n \in 1..(Len(s) - 1) : Tail(s)[n] = s[n + 1]
      /\ Head(s) = s[1]
  BY HeadTailProperties, LenProperties, EmptySeq
<1>2. ASSUME NEW n \in DOMAIN s
      PROVE  s[n] \in {Head(s)} \cup Range(Tail(s))
  <2>1. CASE n = 1
    BY <2>1, <1>1
  <2>2. CASE n # 1
    <3>1. n - 1 \in 1..(Len(s) - 1) /\ s[n] = Tail(s)[n - 1]
      BY <2>2, <1>1
    <3> QED
      BY <3>1, <1>1 DEF Range
  <2> QED
    BY <2>1, <2>2
<1>3. ASSUME NEW n \in DOMAIN Tail(s)
      PROVE  Tail(s)[n] \in Range(s)
  <2>1. n + 1 \in DOMAIN s /\ Tail(s)[n] = s[n + 1]
    BY <1>1
  <2> QED
    BY <2>1 DEF Range
<1>4. Head(s) \in Range(s)
  BY <1>1 DEF Range
<1> QED
  BY <1>2, <1>3, <1>4 DEF Range

\* Sets of envelopes are finite, and one envelope more adds at most one.
LEMMA OneMore ==
  ASSUME NEW L \in SUBSET Envelopes, NEW e
  PROVE  /\ Cardinality(L) \in Nat
         /\ Cardinality(L \cup {e}) \in Nat
         /\ Cardinality(L \cup {e}) <= Cardinality(L) + 1
<1>1. IsFiniteSet(Envelopes)
  BY BridgeAssumption, FS_Interval DEF Envelopes
<1>2. IsFiniteSet(L)
  BY <1>1, FS_Subset
<1>3. Cardinality(L) \in Nat
  BY <1>2, FS_CardinalityType
<1> QED
  BY <1>2, <1>3, FS_AddElement

(***************************************************************************)
(* Types.                                                                  *)
(***************************************************************************)

LEMMA EnqueueType ==
  ASSUME TypeOK, Enqueue
  PROVE  /\ heard' \in 0..MaxHeard
         /\ outbox' \in Seq(Envelopes)
<1>1. CASE heard < MaxHeard
  <2>1. heard + 1 \in Envelopes
    BY <1>1, BridgeAssumption DEF TypeOK, Envelopes
  <2>2. heard' = heard + 1 /\ outbox' = Append(outbox, heard + 1)
    BY <1>1 DEF Enqueue
  <2>3. outbox \in Seq(Envelopes)
    BY DEF TypeOK
  <2>4. outbox' \in Seq(Envelopes)
    BY <2>1, <2>2, <2>3, AppendProperties
  <2>5. heard' \in 0..MaxHeard
    BY <2>1, <2>2, BridgeAssumption DEF Envelopes
  <2> QED
    BY <2>4, <2>5
<1>2. CASE ~(heard < MaxHeard)
  BY <1>2 DEF TypeOK, Enqueue, queueVars
<1> QED
  BY <1>1, <1>2

LEMMA TearDownType ==
  ASSUME TypeOK, TearDown, session' = session, session # 0
  PROVE  /\ link' = "down" /\ recv' = "off" /\ sender' = "off" /\ held' = Nobody
         /\ handed' \in Seq(Envelopes)
         /\ lost' \subseteq Envelopes
         /\ stopped' \subseteq Sessions
BY BridgeAssumption DEF TypeOK, TearDown, Sessions

LEMMA FailType ==
  ASSUME TypeOK, Fail, sender = "sending"
  PROVE  /\ sender' = "dead" /\ held' = Nobody
         /\ lost' \subseteq Envelopes
         /\ outbox' \in Seq(Envelopes)
BY DEF TypeOK, Fail, Envelopes, Nobody

\* Every step keeps the types.
LEMMA TypeStep ==
  ASSUME TypeOK, Linked, [Next]_vars
  PROVE  TypeOK'
<1>1. CASE Connect
  <2>1. session' \in 0..MaxSessions /\ session + 1 \in Sessions
    BY <1>1, BridgeAssumption DEF TypeOK, Connect, Sessions
  <2>2. mic' \in [Sessions -> {"none", "waiting", "processing", "gone"}]
    BY <1>1, <2>1 DEF TypeOK, Connect
  <2>3. held' = Nobody /\ sender' = "waiting"
    BY <1>1 DEF TypeOK, Linked, Connect, StartSender
  <2> QED
    BY <1>1, <2>1, <2>2, <2>3 DEF TypeOK, Connect, queueVars
<1>2. CASE Break
  BY <1>2 DEF TypeOK, Break, queueVars, senderVars, micVars, ambientVars
<1>3. ASSUME NEW m \in Requests \cup {"speech"}, Receive(m)
      PROVE  TypeOK'
  <2>1. inbox' \in Seq(Requests \cup {"speech"})
    BY <1>3, AppendProperties DEF TypeOK, Receive
  <2> QED
    BY <1>3, <2>1 DEF TypeOK, Receive, queueVars, senderVars, micVars, ambientVars
<1>4. CASE EndSession
  <2>1. session # 0 /\ TearDown /\ session' = session
    BY <1>4 DEF EndSession, Linked
  <2> QED
    BY <1>4, <2>1, TearDownType DEF TypeOK, EndSession, queueVars, ambientVars
<1>5. CASE Speak
  <2>1. inbox' \in Seq(Requests \cup {"speech"})
    BY <1>5, HeadTailProperties DEF TypeOK, Speak, Reads
  <2> QED
    BY <1>5, <2>1 DEF TypeOK, Speak, queueVars, senderVars, micVars, ambientVars
<1>6. CASE Spoken
  BY <1>6 DEF TypeOK, Spoken, queueVars, senderVars, micVars, ambientVars
<1>7. ASSUME NEW m \in Requests, HandleRequest(m)
      PROVE  TypeOK'
  <2>1. heard' \in 0..MaxHeard /\ outbox' \in Seq(Envelopes)
    BY <1>7, EnqueueType DEF TypeOK, HandleRequest, Snapshot, queueVars
  <2>2. ambient' \in BOOLEAN /\ asked' \in BOOLEAN
    BY <1>7 DEF TypeOK, HandleRequest, Listening
  <2>3. CASE link = "up"
    <3>1. inbox' = Tail(inbox) /\ inbox # <<>> /\ inbox \in Seq(Requests \cup {"speech"})
      BY <1>7, <2>3 DEF TypeOK, HandleRequest, Reads, TearDown
    <3>2. inbox' \in Seq(Requests \cup {"speech"})
      BY <3>1, HeadTailProperties
    <3> QED
      BY <1>7, <2>1, <2>2, <2>3, <3>2 DEF TypeOK, HandleRequest, senderVars
  <2>4. CASE link = "lost"
    <3>1. TearDown /\ session' = session /\ session # 0 /\ inbox' = <<>>
      BY <1>7, <2>4 DEF HandleRequest, Linked
    <3>2. inbox' \in Seq(Requests \cup {"speech"})
      BY <3>1, EmptySeq
    <3> QED
      BY <1>7, <2>1, <2>2, <2>4, <3>1, <3>2, TearDownType DEF TypeOK, HandleRequest
  <2> QED
    BY <1>7, <2>3, <2>4 DEF HandleRequest
<1>8. CASE Take
  <2>1. Head(outbox) \in Envelopes /\ Tail(outbox) \in Seq(Envelopes)
    BY <1>8, HeadTailProperties DEF TypeOK, Take
  <2> QED
    BY <1>8, <2>1 DEF TypeOK, Take, micVars, ambientVars, Envelopes, Nobody
<1>9. CASE Sent
  <2>1. held \in Envelopes
    BY <1>9 DEF TypeOK, Sent
  <2> QED
    BY <1>9, <2>1, AppendProperties
       DEF TypeOK, Sent, queueVars, micVars, ambientVars
<1>10. CASE SendFails
  BY <1>10, FailType DEF TypeOK, SendFails, micVars, ambientVars
<1>11. ASSUME NEW g \in Sessions, Frame(g)
       PROVE  TypeOK'
  BY <1>11 DEF TypeOK, Frame, queueVars, senderVars, ambientVars
<1>12. ASSUME NEW g \in Sessions, Hear(g)
       PROVE  TypeOK'
  BY <1>12, EnqueueType DEF TypeOK, Hear, senderVars, micVars, ambientVars
<1>13. ASSUME NEW g \in Sessions, Processed(g)
       PROVE  TypeOK'
  BY <1>13 DEF TypeOK, Processed, queueVars, senderVars, ambientVars
<1>14. ASSUME NEW g \in Sessions, MicFails(g)
       PROVE  TypeOK'
  BY <1>14 DEF TypeOK, MicFails, queueVars, senderVars, ambientVars
<1>15. CASE UNCHANGED vars
  BY <1>15 DEF TypeOK, vars, queueVars, senderVars, micVars, ambientVars
<1> QED
  BY <1>1, <1>2, <1>3, <1>4, <1>5, <1>6, <1>7, <1>8, <1>9, <1>10, <1>11, <1>12, <1>13,
     <1>14, <1>15 DEF Next, Reading, Sending

(***************************************************************************)
(* The line.                                                               *)
(***************************************************************************)

LEMMA EnvelopeNumbers ==
  ASSUME NEW s \in Seq(Envelopes)
  PROVE  \A n \in DOMAIN s : s[n] \in Nat
<1>1. \A n \in DOMAIN s : s[n] \in Envelopes
  BY LenProperties, ElementOfSeq
<1>2. Envelopes \subseteq Nat
  BY BridgeAssumption DEF Envelopes
<1> QED
  BY <1>1, <1>2

\* What is heard goes to the end of the line (and the sender may drop what it holds).
LEMMA EnqueueLine ==
  ASSUME TypeOK, Line, Enqueue, held' \in {held, Nobody}, UNCHANGED handed
  PROVE  Line'
<1>1. CASE heard < MaxHeard
  <2>1. /\ heard \in Nat /\ heard + 1 \in Envelopes
        /\ outbox \in Seq(Envelopes) /\ handed \in Seq(Envelopes)
    BY <1>1, BridgeAssumption DEF TypeOK, Envelopes
  <2>2. /\ Len(outbox) \in Nat /\ DOMAIN outbox = 1..Len(outbox)
        /\ DOMAIN outbox' = 1..(Len(outbox) + 1)
        /\ \A n \in 1..Len(outbox) : outbox'[n] = outbox[n]
        /\ outbox'[Len(outbox) + 1] = heard + 1
    BY <1>1, <2>1, AppendProperties, LenProperties DEF Enqueue
  <2>3. /\ \A n \in DOMAIN outbox : outbox[n] \in Nat
        /\ \A i \in DOMAIN handed : handed[i] \in Nat
    BY <2>1, EnvelopeNumbers
  <2>4. heard' = heard + 1 /\ held \in Nat
    BY <1>1 DEF Enqueue, TypeOK, Envelopes, Nobody
  <2>5. \A j \in DOMAIN outbox' : outbox'[j] <= heard'
    BY <2>1, <2>2, <2>3, <2>4 DEF Line
  <2>6. \A i, j \in DOMAIN outbox' : i < j => outbox'[i] < outbox'[j]
    BY <2>1, <2>2, <2>3 DEF Line
  <2>7. held' # Nobody => held' <= heard' /\ \A j \in DOMAIN outbox' : held' < outbox'[j]
    BY <2>1, <2>2, <2>4 DEF Line
  <2>8. ASSUME NEW i \in DOMAIN handed
        PROVE  handed[i] <= heard' /\ \A j \in DOMAIN outbox' : handed[i] < outbox'[j]
    BY <2>1, <2>2, <2>3, <2>4 DEF Line
  <2> QED
    BY <2>5, <2>6, <2>7, <2>8 DEF Line, SentInOrder
<1>2. CASE ~(heard < MaxHeard)
  BY <1>2 DEF Enqueue, Line, SentInOrder, queueVars
<1> QED
  BY <1>1, <1>2

\* An envelope that is dropped leaves the line.
LEMMA DropLine ==
  ASSUME Line, held' = Nobody, UNCHANGED <<queueVars, handed>>
  PROVE  Line'
BY DEF Line, SentInOrder, queueVars

LEMMA TakeLine ==
  ASSUME TypeOK, Line, Take
  PROVE  Line'
<1>1. /\ outbox \in Seq(Envelopes) /\ outbox # <<>>
      /\ held' = Head(outbox) /\ outbox' = Tail(outbox)
      /\ UNCHANGED <<handed, heard>>
  BY DEF TypeOK, Take
<1>2. /\ Len(outbox) \in Nat \ {0} /\ DOMAIN outbox = 1..Len(outbox)
      /\ DOMAIN outbox' = 1..(Len(outbox) - 1)
      /\ \A n \in 1..(Len(outbox) - 1) : outbox'[n] = outbox[n + 1]
      /\ held' = outbox[1]
  BY <1>1, HeadTailProperties, LenProperties, EmptySeq
<1>3. 1 \in DOMAIN outbox /\ \A n \in DOMAIN outbox' : n + 1 \in DOMAIN outbox /\ 1 < n + 1
  BY <1>2
<1>4. \A i, j \in DOMAIN outbox' : i < j => outbox'[i] < outbox'[j]
  BY <1>2, <1>3 DEF Line
<1>5. \A j \in DOMAIN outbox' : outbox'[j] <= heard' /\ held' < outbox'[j]
  BY <1>1, <1>2, <1>3 DEF Line
<1>6. held' <= heard'
  BY <1>1, <1>2, <1>3 DEF Line
<1>7. \A i \in DOMAIN handed :
        /\ handed[i] <= heard' /\ handed[i] < held'
        /\ \A j \in DOMAIN outbox' : handed[i] < outbox'[j]
  BY <1>1, <1>2, <1>3 DEF Line
<1> QED
  BY <1>1, <1>4, <1>5, <1>6, <1>7 DEF Line, SentInOrder

LEMMA SentLine ==
  ASSUME TypeOK, Line, Sent
  PROVE  Line'
<1>1. /\ handed \in Seq(Envelopes) /\ held \in Envelopes /\ held # Nobody
      /\ handed' = Append(handed, held) /\ held' = Nobody
      /\ UNCHANGED <<outbox, heard>>
  BY DEF TypeOK, Sent, queueVars
<1>2. /\ Len(handed) \in Nat /\ DOMAIN handed = 1..Len(handed)
      /\ DOMAIN handed' = 1..(Len(handed) + 1)
      /\ \A n \in 1..Len(handed) : handed'[n] = handed[n]
      /\ handed'[Len(handed) + 1] = held
  BY <1>1, AppendProperties, LenProperties
<1>3. \A i, j \in DOMAIN handed' : i < j => handed'[i] < handed'[j]
  BY <1>1, <1>2 DEF Line, SentInOrder
<1>4. ASSUME NEW i \in DOMAIN handed'
      PROVE  handed'[i] <= heard /\ \A j \in DOMAIN outbox : handed'[i] < outbox[j]
  <2>1. CASE i \in DOMAIN handed
    BY <1>2, <2>1 DEF Line
  <2>2. CASE i = Len(handed) + 1
    BY <1>1, <1>2, <2>2 DEF Line
  <2> QED
    BY <1>2, <2>1, <2>2
<1> QED
  BY <1>1, <1>3, <1>4 DEF Line, SentInOrder

\* Every step keeps the line.
LEMMA LineStep ==
  ASSUME TypeOK, Linked, Line, [Next]_vars
  PROVE  Line'
<1>1. CASE Connect
  BY <1>1 DEF Connect, Line, SentInOrder, queueVars
<1>2. CASE Break
  BY <1>2 DEF Break, Line, SentInOrder, queueVars, senderVars
<1>3. ASSUME NEW m \in Requests \cup {"speech"}, Receive(m)
      PROVE  Line'
  BY <1>3 DEF Receive, Line, SentInOrder, queueVars, senderVars
<1>4. CASE EndSession
  BY <1>4, DropLine DEF EndSession, TearDown
<1>5. CASE Speak
  BY <1>5 DEF Speak, Line, SentInOrder, queueVars, senderVars
<1>6. CASE Spoken
  BY <1>6 DEF Spoken, Line, SentInOrder, queueVars, senderVars
<1>7. ASSUME NEW m \in Requests, HandleRequest(m)
      PROVE  Line'
  <2>1. CASE Enqueue /\ held' \in {held, Nobody} /\ UNCHANGED handed
    BY <2>1, EnqueueLine
  <2>2. CASE UNCHANGED queueVars /\ UNCHANGED <<held, handed>>
    BY <2>2 DEF Line, SentInOrder, queueVars
  <2>3. CASE UNCHANGED queueVars /\ TearDown
    BY <2>3, DropLine DEF TearDown
  <2> QED
    BY <1>7, <2>1, <2>2, <2>3 DEF HandleRequest, Snapshot, TearDown, senderVars
<1>8. CASE Take
  BY <1>8, TakeLine
<1>9. CASE Sent
  BY <1>9, SentLine
<1>10. CASE SendFails
  BY <1>10, DropLine DEF SendFails, Fail, queueVars
<1>11. ASSUME NEW g \in Sessions, Frame(g) \/ Processed(g) \/ MicFails(g)
       PROVE  Line'
  BY <1>11 DEF Frame, Processed, MicFails, Line, SentInOrder, queueVars, senderVars
<1>12. ASSUME NEW g \in Sessions, Hear(g)
       PROVE  Line'
  BY <1>12, EnqueueLine DEF Hear, senderVars
<1>13. CASE UNCHANGED vars
  BY <1>13 DEF vars, Line, SentInOrder, queueVars, senderVars
<1> QED
  BY <1>1, <1>2, <1>3, <1>4, <1>5, <1>6, <1>7, <1>8, <1>9, <1>10, <1>11, <1>12, <1>13
     DEF Next, Reading, Sending

(***************************************************************************)
(* What is lost.                                                           *)
(***************************************************************************)

LEMMA LinkedStep ==
  ASSUME TypeOK, Linked, [Next]_vars
  PROVE  Linked'
<1>1. session \in Nat
  BY BridgeAssumption DEF TypeOK
<1>2. CASE Connect
  BY <1>1, <1>2 DEF Connect, Linked
<1>3. CASE Break \/ EndSession \/ Speak \/ Spoken \/ UNCHANGED vars
  BY <1>3 DEF Break, EndSession, TearDown, Speak, Spoken, Linked, vars, senderVars
<1>4. ASSUME NEW m, Receive(m) \/ HandleRequest(m)
      PROVE  Linked'
  BY <1>4 DEF Receive, HandleRequest, TearDown, Linked, senderVars
<1>5. CASE Take \/ Sent \/ SendFails
  BY <1>5 DEF Take, Sent, SendFails, Fail, Linked
<1>6. ASSUME NEW g, Frame(g) \/ Hear(g) \/ Processed(g) \/ MicFails(g)
      PROVE  Linked'
  BY <1>6 DEF Frame, Hear, Processed, MicFails, Linked, senderVars
<1> QED
  BY <1>2, <1>3, <1>4, <1>5, <1>6 DEF Next, Reading, Sending

\* The end of a session drops the envelope in the sender's hands, if the sender lives.
LEMMA TearDownLosses ==
  ASSUME TypeOK, Linked, Losses, TearDown, link = "lost", session' = session
  PROVE  Losses'
<1>1. session \in Nat \ {0} /\ lost \in SUBSET Envelopes
  BY BridgeAssumption DEF TypeOK, Linked
<1>2. Cardinality(lost) \in Nat /\ Cardinality(lost \cup {held}) \in Nat
      /\ Cardinality(lost \cup {held}) <= Cardinality(lost) + 1
  BY <1>1, OneMore
<1>3. CASE held = Nobody
  <2>1. lost' = lost /\ link' = "down" /\ sender' = "off"
    BY <1>3 DEF TearDown
  <2>2. Cardinality(lost) <= session
    BY <1>1, <1>2 DEF Losses
  <2> QED
    BY <2>1, <2>2 DEF Losses
<1>4. CASE held # Nobody
  <2>1. lost' = lost \cup {held} /\ link' = "down" /\ sender' = "off" /\ sender # "dead"
    BY <1>4 DEF TearDown, TypeOK
  <2>2. Cardinality(lost \cup {held}) <= session
    BY <1>1, <1>2, <2>1 DEF Losses
  <2> QED
    BY <2>1, <2>2 DEF Losses
<1> QED
  BY <1>3, <1>4

\* Every step keeps the count of what is lost.
LEMMA LossesStep ==
  ASSUME TypeOK, Linked, Losses, [Next]_vars
  PROVE  Losses'
<1>1. session \in Nat /\ lost \in SUBSET Envelopes
  BY BridgeAssumption DEF TypeOK
<1>2. /\ Cardinality(lost) \in Nat /\ Cardinality(lost \cup {held}) \in Nat
      /\ Cardinality(lost \cup {held}) <= Cardinality(lost) + 1
  BY <1>1, OneMore
<1>3. CASE Connect
  BY <1>1, <1>2, <1>3 DEF Connect, StartSender, Losses
<1>4. CASE Break
  BY <1>1, <1>2, <1>4 DEF Break, Losses, senderVars
<1>5. CASE Speak \/ Spoken \/ UNCHANGED vars
  BY <1>5 DEF Speak, Spoken, Losses, vars, senderVars
<1>6. CASE EndSession
  BY <1>6, TearDownLosses DEF EndSession
<1>7. ASSUME NEW m, Receive(m)
      PROVE  Losses'
  BY <1>7 DEF Receive, Losses, senderVars
<1>8. ASSUME NEW m, HandleRequest(m)
      PROVE  Losses'
  <2>1. CASE link = "up"
    BY <1>8, <2>1 DEF HandleRequest, Losses, senderVars
  <2>2. CASE link = "lost"
    BY <1>8, <2>2, TearDownLosses DEF HandleRequest
  <2> QED
    BY <1>8, <2>1, <2>2 DEF HandleRequest
<1>9. CASE Take \/ Sent
  BY <1>9 DEF Take, Sent, Losses
<1>10. CASE SendFails
  BY <1>1, <1>2, <1>10 DEF SendFails, Fail, Losses
<1>11. ASSUME NEW g, Frame(g) \/ Hear(g) \/ Processed(g) \/ MicFails(g)
       PROVE  Losses'
  BY <1>11 DEF Frame, Hear, Processed, MicFails, Losses, senderVars
<1> QED
  BY <1>3, <1>4, <1>5, <1>6, <1>7, <1>8, <1>9, <1>10, <1>11 DEF Next, Reading, Sending

\* Queueing keeps everything.
LEMMA EnqueueKept ==
  ASSUME TypeOK, Kept, Enqueue, UNCHANGED handed,
         ({held'} \ {Nobody}) \cup lost' = ({held} \ {Nobody}) \cup lost
  PROVE  Kept'
<1>1. CASE heard < MaxHeard
  <2>1. heard \in Nat /\ heard + 1 \in Envelopes /\ outbox \in Seq(Envelopes)
    BY <1>1, BridgeAssumption DEF TypeOK, Envelopes
  <2>2. Range(outbox') = Range(outbox) \cup {heard + 1}
    <3>1. outbox' = Append(outbox, heard + 1)
      BY <1>1 DEF Enqueue
    <3> QED
      BY <2>1, <3>1, RangeOfAppend
  <2>3. 1..heard' = (1..heard) \cup {heard + 1}
    BY <1>1, <2>1 DEF Enqueue
  <2> QED
    BY <2>2, <2>3 DEF Kept
<1>2. CASE ~(heard < MaxHeard)
  BY <1>2 DEF Enqueue, Kept, queueVars
<1> QED
  BY <1>1, <1>2

\* Every step keeps all that was heard in one of its places.
LEMMA KeptStep ==
  ASSUME TypeOK, Kept, [Next]_vars
  PROVE  Kept'
<1>1. CASE Connect \/ Break \/ Speak \/ Spoken \/ UNCHANGED vars
  BY <1>1 DEF Connect, Break, Speak, Spoken, vars, Kept, queueVars, senderVars
<1>2. ASSUME NEW m, Receive(m)
      PROVE  Kept'
  BY <1>2 DEF Receive, Kept, queueVars, senderVars
<1>3. ASSUME TearDown
      PROVE  /\ handed' = handed
             /\ ({held'} \ {Nobody}) \cup lost' = ({held} \ {Nobody}) \cup lost
  BY <1>3 DEF TearDown
<1>4. CASE EndSession
  <2>1. UNCHANGED <<heard, outbox>> /\ TearDown
    BY <1>4 DEF EndSession, queueVars
  <2> QED
    BY <2>1, <1>3 DEF Kept
<1>5. ASSUME NEW m, HandleRequest(m)
      PROVE  Kept'
  <2>1. /\ handed' = handed
        /\ ({held'} \ {Nobody}) \cup lost' = ({held} \ {Nobody}) \cup lost
    BY <1>5, <1>3 DEF HandleRequest, senderVars
  <2>2. CASE Enqueue
    BY <2>1, <2>2, EnqueueKept
  <2>3. CASE UNCHANGED queueVars
    BY <2>1, <2>3 DEF Kept, queueVars
  <2> QED
    BY <1>5, <2>2, <2>3 DEF HandleRequest, Snapshot
<1>6. CASE Take
  <2>1. outbox \in Seq(Envelopes) /\ outbox # <<>> /\ held = Nobody
    BY <1>6 DEF TypeOK, Take
  <2>2. Range(outbox) = {held'} \cup Range(outbox')
    BY <1>6, <2>1, RangeOfTail DEF Take
  <2>3. held' \in Envelopes
    BY <1>6, <2>1, HeadTailProperties DEF Take
  <2>4. held' # Nobody
    BY <2>3 DEF Envelopes, Nobody
  <2> QED
    BY <1>6, <2>1, <2>2, <2>4 DEF Take, Kept
<1>7. CASE Sent
  <2>1. held \in Envelopes /\ handed \in Seq(Envelopes) /\ held # Nobody
    BY <1>7 DEF TypeOK, Sent
  <2>2. Range(handed') = Range(handed) \cup {held}
    BY <1>7, <2>1, RangeOfAppend DEF Sent
  <2> QED
    BY <1>7, <2>1, <2>2 DEF Sent, Kept, queueVars
<1>8. CASE SendFails
  <2>1. held # Nobody
    BY <1>8 DEF TypeOK, SendFails
  <2> QED
    BY <1>8, <2>1 DEF SendFails, Fail, Kept
<1>9. ASSUME NEW g, Frame(g) \/ Processed(g) \/ MicFails(g)
      PROVE  Kept'
  BY <1>9 DEF Frame, Processed, MicFails, Kept, queueVars, senderVars
<1>10. ASSUME NEW g, Hear(g)
       PROVE  Kept'
  BY <1>10, EnqueueKept DEF Hear, senderVars
<1> QED
  BY <1>1, <1>2, <1>4, <1>5, <1>6, <1>7, <1>8, <1>9, <1>10 DEF Next, Reading, Sending

(***************************************************************************)
(* The theorems.                                                           *)
(***************************************************************************)

LEMMA InitIInv == Init => IInv
<1> SUFFICES ASSUME Init
             PROVE  IInv
  OBVIOUS
<1>1. TypeOK
  <2>1. /\ inbox \in Seq(Requests \cup {"speech"})
        /\ outbox \in Seq(Envelopes) /\ handed \in Seq(Envelopes)
    BY EmptySeq DEF Init
  <2>2. session \in 0..MaxSessions /\ heard \in 0..MaxHeard
    BY BridgeAssumption DEF Init
  <2>3. mic \in [Sessions -> {"none", "waiting", "processing", "gone"}]
    BY DEF Init
  <2> QED
    BY <2>1, <2>2, <2>3 DEF Init, TypeOK
<1>2. Linked /\ Line
  BY DEF Init, Linked, Line, SentInOrder
<1>3. Kept
  BY DEF Init, Kept, Range
<1>4. Losses
  BY FS_EmptySet DEF Init, Losses
<1> QED
  BY <1>1, <1>2, <1>3, <1>4 DEF IInv

LEMMA IInvStep == IInv /\ [Next]_vars => IInv'
BY TypeStep, LinkedStep, LineStep, KeptStep, LossesStep DEF IInv

LEMMA IInvBreaks == IInv => OneLostPerBreak
<1> SUFFICES ASSUME IInv
             PROVE  OneLostPerBreak
  OBVIOUS
<1>1. session \in Nat /\ lost \in SUBSET Envelopes
  BY BridgeAssumption DEF IInv, TypeOK
<1>2. Cardinality(lost) \in Nat
  BY <1>1, OneMore
<1> QED
  BY <1>1, <1>2 DEF IInv, TypeOK, Losses, Kept, OneLostPerBreak, Breaks

LEMMA Inductive == Spec => []IInv
<1> QED
  BY InitIInv, IInvStep, PTL DEF Spec

\* The bridge's variables keep their types, and its sender holds an envelope exactly
\* while it sends (bridge.py: sender_loop).
THEOREM TypeCorrect == Spec => []TypeOK
<1>1. IInv => TypeOK
  BY DEF IInv
<1> QED
  BY <1>1, Inductive, PTL

\* Whatever the number of connections and whenever they break, what was heard is
\* handed to the sockets in the order it was heard (bridge.py: _enqueue, sender_loop).
THEOREM InOrder == Spec => []SentInOrder
<1>1. IInv => SentInOrder
  BY DEF IInv, Line
<1> QED
  BY <1>1, Inductive, PTL

\* All that was heard is in the outbox, in the sender's hands, sent, or lost, and no
\* more envelopes are lost than connections (bridge.py: sender_loop, run).
THEOREM OneLost == Spec => []OneLostPerBreak
BY IInvBreaks, Inductive, PTL

(***************************************************************************)
(* The outbox.                                                             *)
(***************************************************************************)

\* One in front of a sequence: what the sender holds, and the outbox.
LEMMA InFront ==
  ASSUME NEW S, NEW x \in S, NEW s \in Seq(S)
  PROVE  /\ <<x>> \o s # <<>> /\ Head(<<x>> \o s) = x /\ Tail(<<x>> \o s) = s
         /\ \A y \in S : <<x>> \o Append(s, y) = Append(<<x>> \o s, y)
<1>1. Len(<<x>> \o s) = 1 + Len(s) /\ (<<x>> \o s)[1] = x
  OBVIOUS
<1>2. <<x>> \o s # <<>> /\ Head(<<x>> \o s) = x
  BY <1>1
<1>3. Tail(<<x>> \o s) = s
  OBVIOUS
<1>4. ASSUME NEW y \in S PROVE <<x>> \o Append(s, y) = Append(<<x>> \o s, y)
  OBVIOUS
<1> QED
  BY <1>2, <1>3, <1>4

LEMMA FirstAndRest ==
  ASSUME NEW S, NEW s \in Seq(S), s # <<>>
  PROVE  Head(s) \in S /\ Tail(s) \in Seq(S) /\ <<Head(s)>> \o Tail(s) = s
OBVIOUS

\* What is queued, if anything, joins the line at its end; the envelope in the sender's
\* hands may leave it at the same time.
LEMMA EnqueueJoins ==
  ASSUME TypeOK, Enqueue \/ UNCHANGED queueVars
  PROVE  /\ held' = held => Abs!Joins(InLine)
         /\ held' = Nobody /\ held # Nobody =>
              InLine # <<>> /\ Head(InLine) = held /\ Abs!Joins(Tail(InLine))
<1>1. outbox \in Seq(Envelopes) /\ (held # Nobody => held \in Envelopes)
  BY DEF TypeOK
<1>2. held # Nobody => InLine = <<held>> \o outbox /\ InLine # <<>> /\ Head(InLine) = held
                       /\ Tail(InLine) = outbox
  BY <1>1, InFront DEF InLine
<1>3. CASE UNCHANGED queueVars
  BY <1>2, <1>3 DEF InLine, Abs!Joins, queueVars
<1>4. CASE heard < MaxHeard /\ Enqueue
  <2>1. heard' = heard + 1 /\ outbox' = Append(outbox, heard + 1)
    BY <1>4 DEF Enqueue
  <2>2. heard + 1 \in Envelopes
    BY <1>4, BridgeAssumption DEF TypeOK, Envelopes
  <2>3. held # Nobody => <<held>> \o outbox' = Append(<<held>> \o outbox, heard + 1)
    BY <1>1, <2>1, <2>2, InFront
  <2> QED
    BY <1>2, <2>1, <2>3 DEF InLine, Abs!Joins
<1> QED
  BY <1>3, <1>4 DEF Enqueue

\* A session that ends: its sender has died and holds nothing, or the break is noticed now.
LEMMA TearDownNotices ==
  ASSUME TypeOK, Losses, link = "lost", TearDown, Enqueue \/ UNCHANGED queueVars
  PROVE  Abs!Notice \/ Abs!Hear
<1>1. /\ link' = "down" /\ held' = Nobody /\ handed' = handed
      /\ lost' = lost \cup ({held} \ {Nobody})
  BY DEF TearDown
<1>2. Reach' = "down"
  BY <1>1 DEF Reach
<1>3. CASE held = Nobody
  <2>1. Abs!Joins(InLine) /\ lost' = lost
    BY <1>1, <1>3, EnqueueJoins
  <2> QED
    BY <1>1, <1>2, <2>1 DEF Reach, Abs!Notice, Abs!Hear
<1>4. CASE held # Nobody
  <2>1. sender # "dead"
    BY <1>4 DEF TypeOK
  <2>2. InLine # <<>> /\ Head(InLine) = held /\ Abs!Joins(Tail(InLine))
    BY <1>1, <1>4, EnqueueJoins
  <2> QED
    BY <1>1, <1>2, <1>4, <2>1, <2>2 DEF Reach, Abs!Notice
<1> QED
  BY <1>3, <1>4

\* What the outbox does not see.
LEMMA Unseen ==
  ASSUME UNCHANGED <<link, queueVars, senderVars>>
  PROVE  UNCHANGED Abs!vars
BY DEF Abs!vars, Reach, InLine, queueVars, senderVars

\* Every step of the bridge is one of the outbox, or none.
LEMMA StepImplements ==
  ASSUME IInv, [Next]_vars
  PROVE  [Abs!Next]_(Abs!vars)
<1> USE DEF IInv
<1>1. CASE Connect
  <2>1. Reach = "down" /\ Reach' = "up" /\ InLine' = InLine
    BY <1>1 DEF Connect, Reach, InLine, queueVars
  <2> QED
    BY <1>1, <2>1 DEF Connect, queueVars, Abs!Connect, Abs!Next
<1>2. CASE Break
  <2>1. Reach = "up" /\ Reach' = "failing" /\ InLine' = InLine
    BY <1>2 DEF Break, Reach, InLine, queueVars, senderVars, Losses
  <2> QED
    BY <1>2, <2>1 DEF Break, queueVars, senderVars, Abs!Break, Abs!Next
<1>3. CASE Speak \/ Spoken \/ UNCHANGED vars
  BY <1>3, Unseen DEF Speak, Spoken, vars
<1>4. ASSUME NEW m, Receive(m) PROVE [Abs!Next]_(Abs!vars)
  BY <1>4, Unseen DEF Receive
<1>5. CASE EndSession
  <2>1. link = "lost" /\ TearDown /\ UNCHANGED queueVars
    BY <1>5 DEF EndSession
  <2> QED
    BY <2>1, TearDownNotices DEF Abs!Next
<1>6. ASSUME NEW m, HandleRequest(m) PROVE [Abs!Next]_(Abs!vars)
  <2>1. Enqueue \/ UNCHANGED queueVars
    BY <1>6 DEF HandleRequest, Snapshot
  <2>2. CASE UNCHANGED <<link, senderVars>>
    <3>1. Abs!Joins(InLine) /\ UNCHANGED <<Reach, handed, lost>>
      BY <2>1, <2>2, EnqueueJoins DEF Reach, senderVars
    <3> QED
      BY <3>1 DEF Abs!Hear, Abs!Next
  <2>3. CASE link = "lost" /\ TearDown
    BY <2>1, <2>3, TearDownNotices DEF Abs!Next
  <2> QED
    BY <1>6, <2>2, <2>3 DEF HandleRequest
<1>7. CASE Take
  <2>1. /\ outbox \in Seq(Envelopes) /\ outbox # <<>> /\ held = Nobody
        /\ held' = Head(outbox) /\ outbox' = Tail(outbox)
        /\ sender = "waiting" /\ sender' = "sending"
        /\ UNCHANGED <<link, heard, handed, lost>>
    BY <1>7 DEF Take, TypeOK
  <2>2. held' \in Envelopes /\ <<held'>> \o outbox' = outbox
    BY <2>1, FirstAndRest
  <2>3. InLine' = InLine
    <3>1. held' # Nobody
      BY <2>2 DEF Envelopes, Nobody
    <3>2. InLine' = <<held'>> \o outbox'
      BY <3>1 DEF InLine
    <3>3. InLine = outbox
      BY <2>1 DEF InLine
    <3> QED
      BY <2>2, <3>2, <3>3
  <2>4. Reach' = Reach
    BY <2>1 DEF Reach
  <2> QED
    BY <2>1, <2>3, <2>4 DEF Abs!vars
<1>8. CASE Sent
  <2>1. /\ outbox \in Seq(Envelopes) /\ held \in Envelopes /\ held # Nobody
        /\ handed' = Append(handed, held) /\ held' = Nobody
        /\ link = "up" /\ UNCHANGED <<link, outbox, heard, lost>>
    BY <1>8 DEF Sent, TypeOK, queueVars
  <2>2. InLine # <<>> /\ Head(InLine) = held /\ Tail(InLine) = outbox
    BY <2>1, InFront DEF InLine
  <2>3. InLine' = outbox /\ Reach = "up" /\ Reach' = "up"
    BY <2>1 DEF InLine, Reach
  <2> QED
    BY <2>1, <2>2, <2>3 DEF Abs!Send, Abs!Next
<1>9. CASE SendFails
  <2>1. /\ sender = "sending" /\ sender' = "dead" /\ held # Nobody /\ held' = Nobody
        /\ link = "lost" /\ lost' = lost \cup {held}
        /\ UNCHANGED <<link, queueVars, handed>>
    BY <1>9 DEF SendFails, Fail, TypeOK, queueVars
  <2>2. InLine # <<>> /\ Head(InLine) = held /\ Abs!Joins(Tail(InLine))
    BY <2>1, EnqueueJoins
  <2>3. Reach = "failing" /\ Reach' = "down"
    BY <2>1 DEF Reach
  <2> QED
    BY <2>1, <2>2, <2>3 DEF Abs!Notice, Abs!Next
<1>10. ASSUME NEW g, Frame(g) \/ Processed(g) \/ MicFails(g) PROVE [Abs!Next]_(Abs!vars)
  BY <1>10, Unseen DEF Frame, Processed, MicFails
<1>11. ASSUME NEW g, Hear(g) PROVE [Abs!Next]_(Abs!vars)
  <2>1. Abs!Joins(InLine) /\ UNCHANGED <<Reach, handed, lost>>
    BY <1>11, EnqueueJoins DEF Hear, Reach, senderVars
  <2> QED
    BY <2>1 DEF Abs!Hear, Abs!Next
<1> QED
  BY <1>1, <1>2, <1>3, <1>4, <1>5, <1>6, <1>7, <1>8, <1>9, <1>10, <1>11
     DEF Next, Reading, Sending

\* For every number of connections and envelopes the bridge is the outbox of OutboxAbs:
\* one line, served from its head while there is a connection, from which a break takes
\* the head at most (bridge.py: _enqueue, sender_loop, run).
THEOREM Implements == Spec => ImplementsOutboxAbs
<1>1. Init => Abs!Init
  BY DEF Init, Abs!Init, Reach, InLine
<1>2. IInv /\ [Next]_vars => [Abs!Next]_(Abs!vars)
  BY StepImplements
<1> QED
  BY <1>1, <1>2, Inductive, PTL DEF Spec, ImplementsOutboxAbs, Abs!Spec
=============================================================================
