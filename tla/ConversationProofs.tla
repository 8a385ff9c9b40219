--------------------------- MODULE ConversationProofs ---------------------------
(***************************************************************************)
(* Conversation for every limit of messages, steps and tools and every     *)
(* choice of providers: a conversation that providers refuse heals by      *)
(* itself, and the pictures of a turn go with its question.                *)
(***************************************************************************)
EXTENDS Conversation, TLAPS

(***************************************************************************)
(* The inductive invariant.                                                *)
(***************************************************************************)

Messages == {m \in [role : {"user", "assistant", "tool"}, calls : Nat, answers : Nat] :
               m.role = "user" => m.calls = 0}

Types ==
  /\ memory \in Seq(Messages)
  /\ pc \in {"idle", "model", "tools", "speech"}
  /\ step \in Nat /\ calls \in Nat /\ ran \in Nat
  /\ refused \in Nat

\* The last n messages are the user's.
Trailing(messages, n) ==
  \A i \in DOMAIN messages : i > Len(messages) - n => messages[i].role = "user"

\* Each refusal but the first, which may come in the middle of a turn, leaves the user's
\* message of its turn last in the memory, which is folded between the turns: what made
\* the providers refuse is further and further from the end of a memory that is bounded.
Refusals ==
  /\ pc \in {"idle", "speech"} => Trailing(memory, refused - 1)
  /\ pc = "model" /\ step = 0 => memory # <<>> /\ Trailing(memory, refused) /\ Trailing(memory, 1)
  /\ pc = "tools" \/ (pc = "model" /\ step # 0) => refused = 0 /\ memory # <<>>
  /\ pc = "idle" /\ refused # 0 => Len(memory) <= MaxMessages
  /\ pc = "model" /\ refused # 0 => Len(memory) <= MaxMessages + 1

HInv == Types /\ Refusals /\ HealsByItself

LEMMA Limits ==
  MaxMessages \in Nat \ {0} /\ MaxToolSteps \in Nat \ {0} /\ MaxParallel \in Nat \ {0}
BY ConversationAssumption

LEMMA MessagesOf ==
  /\ UserMessage \in Messages /\ UserMessage.role = "user"
  /\ \A n \in Nat : Assistant(n) \in Messages /\ ToolResult(n) \in Messages
BY DEF Messages, UserMessage, Assistant, ToolResult, Message

\* Folding keeps the end of the memory, and bounds it.
LEMMA FoldedEnd ==
  ASSUME NEW messages \in Seq(Messages), NEW n \in Int, Trailing(messages, n)
  PROVE  /\ Folded(messages) \in Seq(Messages) /\ Len(Folded(messages)) <= MaxMessages
         /\ Trailing(Folded(messages), n)
<1> DEFINE half == MaxMessages \div 2
           from == Len(messages) - half
<1>1. /\ MaxMessages \in Nat \ {0} /\ half \in Nat /\ half <= MaxMessages
      /\ Len(messages) \in Nat
  BY Limits
<1>2. CASE Len(messages) <= MaxMessages
  BY <1>2 DEF Folded
<1>3. CASE Len(messages) > MaxMessages
  <2>1. Folded(messages) = SubSeq(messages, from + 1, Len(messages))
    BY <1>1, <1>3 DEF Folded
  <2>2. from \in Nat /\ from + half = Len(messages)
    BY <1>1, <1>3
  <2> HIDE DEF half, from
  <2>3. /\ Folded(messages) \in Seq(Messages) /\ Len(Folded(messages)) = half
        /\ \A i \in 1..half : /\ Folded(messages)[i] = messages[from + i]
                              /\ from + i \in 1..Len(messages)
    BY <1>1, <2>1, <2>2
  <2>4. Trailing(Folded(messages), n)
    <3>1. ASSUME NEW i \in 1..half, i > half - n
          PROVE  Folded(messages)[i].role = "user"
      <4>1. from + i > Len(messages) - n
        BY <1>1, <2>2, <3>1
      <4> QED
        BY <2>3, <4>1 DEF Trailing
    <3> QED
      BY <1>1, <2>3, <3>1 DEF Trailing
  <2> QED
    BY <1>1, <2>3, <2>4
<1> QED
  BY <1>1, <1>2, <1>3

(***************************************************************************)
(* Requests.                                                               *)
(***************************************************************************)

Lines == [role : {"user", "assistant", "tool"}, uses : SUBSET Nat, images : BOOLEAN,
          answers : SUBSET Nat]

LEMMA ConvertedLines ==
  ASSUME memory \in Seq(Messages)
  PROVE  /\ Converted(memory) \in [1..Len(memory) -> Lines]
         /\ \A i \in 1..Len(memory) :
              /\ Converted(memory)[i].images = FALSE
              /\ Converted(memory)[i].uses = 1..memory[i].calls
              /\ Converted(memory)[i].answers =
                   IF memory[i].role = "tool" THEN {memory[i].answers} ELSE {}
              /\ memory[i].role = "user" => Converted(memory)[i].role = "user"
<1>1. DOMAIN memory = 1..Len(memory) /\ \A i \in 1..Len(memory) : memory[i] \in Messages
  OBVIOUS
<1>2. ASSUME NEW m \in Messages, NEW role \in {"user", "assistant", "tool"}
      PROVE  /\ Wire(role, m) \in Lines /\ Wire(role, m).images = FALSE
             /\ Wire(role, m).role = role /\ Wire(role, m).uses = 1..m.calls
             /\ Wire(role, m).answers = IF m.role = "tool" THEN {m.answers} ELSE {}
  BY DEF Wire, Lines, Messages
<1>3. ASSUME NEW i \in 1..Len(memory)
      PROVE  \E role \in {"user", "assistant", "tool"} :
               /\ Converted(memory)[i] = Wire(role, memory[i])
               /\ memory[i].role = "user" => role = "user"
  BY <1>1 DEF Converted, ToOpenAI, ToAnthropic, Messages
<1>4. Converted(memory) = [i \in 1..Len(memory) |-> Converted(memory)[i]]
  BY <1>1 DEF Converted
<1>5. ASSUME NEW i \in 1..Len(memory)
      PROVE  /\ Converted(memory)[i] \in Lines /\ Converted(memory)[i].images = FALSE
             /\ Converted(memory)[i].uses = 1..memory[i].calls
             /\ Converted(memory)[i].answers =
                  IF memory[i].role = "tool" THEN {memory[i].answers} ELSE {}
             /\ memory[i].role = "user" => Converted(memory)[i].role = "user"
  <2>1. PICK role \in {"user", "assistant", "tool"} :
          /\ Converted(memory)[i] = Wire(role, memory[i])
          /\ memory[i].role = "user" => role = "user"
    BY <1>3
  <2>2. /\ Wire(role, memory[i]) \in Lines /\ Wire(role, memory[i]).images = FALSE
        /\ Wire(role, memory[i]).role = role /\ Wire(role, memory[i]).uses = 1..memory[i].calls
        /\ Wire(role, memory[i]).answers =
             IF memory[i].role = "tool" THEN {memory[i].answers} ELSE {}
    BY <1>1, <1>2
  <2> QED
    BY <2>1, <2>2, Zenon
<1>6. Converted(memory) \in [1..Len(memory) -> Lines]
  BY <1>4, <1>5
<1> QED
  BY <1>5, <1>6

LEMMA RequestLines ==
  ASSUME memory \in Seq(Messages)
  PROVE  /\ Request \in Seq(Lines) /\ Len(Request) = Len(memory)
         /\ \A i \in 1..Len(memory) :
              /\ Request[i].uses = 1..memory[i].calls
              /\ Request[i].answers = IF memory[i].role = "tool" THEN {memory[i].answers} ELSE {}
<1> DEFINE c == Converted(memory)
           n == Len(memory)
<1>1. n \in Nat /\ c \in [1..n -> Lines]
  BY ConvertedLines
<1>2. Request = c \/ Request = [c EXCEPT ![LastUser(c)].images = TRUE]
  BY DEF Request, Attach
<1>3. \A i \in 1..n : /\ c[i].uses = 1..memory[i].calls
                      /\ c[i].answers = IF memory[i].role = "tool" THEN {memory[i].answers} ELSE {}
  BY ConvertedLines
<1> HIDE DEF c, n
<1>4. /\ Request \in [1..n -> Lines]
      /\ \A i \in 1..n : Request[i].uses = c[i].uses /\ Request[i].answers = c[i].answers
  <2>1. CASE Request = c
    BY <1>1, <2>1
  <2>2. CASE Request = [c EXCEPT ![LastUser(c)].images = TRUE]
    <3>1. \A i \in 1..n : Request[i] = c[i] \/ Request[i] = [c[i] EXCEPT !.images = TRUE]
      BY <1>1, <2>2
    <3>2. \A l \in Lines : /\ [l EXCEPT !.images = TRUE] \in Lines
                           /\ [l EXCEPT !.images = TRUE].uses = l.uses
                           /\ [l EXCEPT !.images = TRUE].answers = l.answers
      BY DEF Lines
    <3>3. Request = [i \in 1..n |-> Request[i]]
      BY <1>1, <2>2
    <3> QED
      BY <1>1, <3>1, <3>2, <3>3
  <2> QED
    BY <1>2, <2>1, <2>2
<1>5. Request \in Seq(Lines) /\ Len(Request) = n
  BY <1>1, <1>4
<1> QED
  BY <1>3, <1>4, <1>5 DEF n

\* A conversation of nothing but the user's messages, none of them empty, is accepted.
LEMMA UsersAccepted ==
  ASSUME memory \in Seq(Messages), memory # <<>>,
         \A i \in 1..Len(memory) : memory[i].role = "user"
  PROVE  Accepts(Request)
<1>1. \A i \in 1..Len(memory) : memory[i].role = "user" /\ memory[i].calls = 0
  BY DEF Messages
<1>2. /\ Len(Request) = Len(memory) /\ Len(memory) \in Nat /\ 1 \in 1..Len(memory)
      /\ DOMAIN Request = 1..Len(memory)
      /\ \A i \in 1..Len(memory) : Request[i].answers = {} /\ Request[i].uses = {}
  <2>1. Request \in Seq(Lines) /\ Len(Request) = Len(memory)
    BY RequestLines
  <2>2. Len(memory) \in Nat /\ 1 \in 1..Len(memory)
    OBVIOUS
  <2>3. \A i \in 1..Len(memory) : Request[i].answers = {} /\ Request[i].uses = 1..0
    BY <1>1, RequestLines
  <2> QED
    BY <2>1, <2>2, <2>3
<1>3. ASSUME NEW i \in 1..Len(memory)
      PROVE  AnsweredAfter(Request, i) = {}
  <2>1. {j \in i+1 .. Len(Request) : \A k \in i+1 .. j : Request[k].answers # {}} = {}
    <3> SUFFICES ASSUME NEW j \in i+1 .. Len(Request) PROVE ~(Request[j].answers # {}) /\ j \in i+1 .. j
      OBVIOUS
    <3> QED
      BY <1>2
  <2> QED
    BY <2>1 DEF AnsweredAfter
<1> QED
  BY <1>2, <1>3 DEF Accepts

(***************************************************************************)
(* The steps.                                                              *)
(***************************************************************************)

LEMMA Appended ==
  ASSUME NEW messages \in Seq(Messages), NEW m \in Messages
  PROVE  /\ Append(messages, m) \in Seq(Messages) /\ Append(messages, m) # <<>>
         /\ Len(Append(messages, m)) = Len(messages) + 1
         /\ \A n \in Int : Trailing(messages, n) /\ m.role = "user"
                             => Trailing(Append(messages, m), n + 1)
BY DEF Trailing

LEMMA NoTrail ==
  ASSUME NEW messages \in Seq(Messages), NEW n \in Int, n <= 0
  PROVE  Trailing(messages, n)
BY DEF Trailing

LEMMA FewerTrailing ==
  ASSUME NEW messages \in Seq(Messages), NEW n \in Int, NEW m \in Int, m <= n,
         Trailing(messages, n)
  PROVE  Trailing(messages, m)
BY DEF Trailing

LEMMA HInit == Init => HInv
<1> SUFFICES ASSUME Init PROVE HInv
  OBVIOUS
<1>1. Types /\ HealsByItself
  BY Limits DEF Init, Types, HealsByItself
<1>2. Trailing(memory, refused - 1)
  BY DEF Init, Trailing
<1> QED
  BY <1>1, <1>2 DEF HInv, Refusals, Init

LEMMA AskKeeps ==
  ASSUME HInv, Ask
  PROVE  HInv'
<1>1. /\ pc = "idle" /\ pc' = "model" /\ memory' = Append(memory, UserMessage)
      /\ step' = 0 /\ UNCHANGED <<calls, ran, refused>>
  BY DEF Ask
<1>2. /\ memory \in Seq(Messages) /\ Len(memory) \in Nat /\ refused \in Nat
      /\ Trailing(memory, refused - 1)
      /\ refused # 0 => Len(memory) <= MaxMessages
  BY <1>1 DEF HInv, Types, Refusals
<1>3. /\ memory' \in Seq(Messages) /\ memory' # <<>> /\ Len(memory') = Len(memory) + 1
      /\ Trailing(memory', (refused - 1) + 1)
  BY <1>1, <1>2, MessagesOf, Appended
<1>4. Trailing(memory', refused)
  BY <1>2, <1>3
<1>5. Trailing(memory', 1)
  BY <1>1, <1>2, MessagesOf, Appended, NoTrail
<1>6. refused' # 0 => Len(memory') <= MaxMessages + 1
  BY <1>1, <1>2, <1>3, Limits
<1> QED
  BY <1>1, <1>3, <1>4, <1>5, <1>6 DEF HInv, Types, Refusals, HealsByItself

\* What ends a turn leaves, for the count of refusals, to the turns after it.
LEMMA EndTurnKeeps ==
  ASSUME HInv, NEW messages \in Seq(Messages), EndTurn(messages), refused' \in Nat,
         refused' <= MaxMessages + 1, Trailing(messages, refused' - 1)
  PROVE  HInv'
BY DEF EndTurn, HInv, Types, Refusals, HealsByItself

LEMMA RefusalKeeps ==
  ASSUME HInv, pc = "model", ~Accepts(Request), EndTurn(memory), refused' = refused + 1
  PROVE  HInv'
<1>1. memory \in Seq(Messages) /\ Len(memory) \in Nat /\ refused \in Nat /\ step \in Nat
  BY DEF HInv, Types
<1>2. refused' \in Nat /\ refused' - 1 = refused
  BY <1>1
<1>3. CASE step # 0
  <2>1. refused = 0
    BY <1>3 DEF HInv, Refusals
  <2>2. Trailing(memory, refused' - 1) /\ refused' <= MaxMessages + 1
    BY <1>1, <1>2, <2>1, NoTrail, Limits
  <2> QED
    BY <1>1, <1>2, <2>2, EndTurnKeeps
<1>4. CASE step = 0
  <2>1. memory # <<>> /\ Trailing(memory, refused)
    BY <1>4 DEF HInv, Refusals
  <2>2. PICK i \in 1..Len(memory) : memory[i].role # "user"
    BY <1>1, <2>1, UsersAccepted
  <2>3. i <= Len(memory) - refused
    BY <1>1, <2>1, <2>2 DEF Trailing
  <2>4. refused # 0 => Len(memory) <= MaxMessages + 1
    BY DEF HInv, Refusals
  <2>5. refused' <= MaxMessages + 1
    BY <1>1, <2>2, <2>3, <2>4, Limits
  <2> QED
    BY <1>1, <1>2, <2>1, <2>5, EndTurnKeeps
<1> QED
  BY <1>3, <1>4

LEMMA AnswerKeeps ==
  ASSUME HInv, pc = "model", refused' = 0,
         Reply \/ \E n \in 1..MaxParallel : CallTools(n)
  PROVE  HInv'
<1>1. memory \in Seq(Messages) /\ step \in Nat
  BY DEF HInv, Types
<1>2. CASE Reply
  <2> DEFINE messages == Append(memory, Assistant(0))
  <2>1. Assistant(0) \in Messages
    BY MessagesOf
  <2>2. messages \in Seq(Messages) /\ EndTurn(messages)
    BY <1>1, <1>2, <2>1, Appended DEF Reply
  <2> HIDE DEF messages
  <2>3. refused' - 1 \in Int /\ refused' - 1 <= 0 /\ refused' \in Nat /\ refused' <= MaxMessages + 1
    BY Limits
  <2>4. Trailing(messages, refused' - 1)
    BY <2>2, <2>3, NoTrail
  <2> QED
    BY <2>2, <2>3, <2>4, EndTurnKeeps
<1>3. ASSUME NEW n \in 1..MaxParallel, CallTools(n)
      PROVE  HInv'
  <2>1. n \in Nat
    OBVIOUS
  <2>2. /\ memory' \in Seq(Messages) /\ memory' # <<>> /\ pc' = "tools"
        /\ calls' = n /\ ran' = 0 /\ step' = step
    BY <1>1, <1>3, <2>1, MessagesOf, Appended DEF CallTools
  <2>3. Types' /\ HealsByItself'
    BY <1>1, <2>1, <2>2, Limits DEF Types, HealsByItself
  <2> QED
    BY <2>2, <2>3 DEF HInv, Refusals
<1> QED
  BY <1>2, <1>3

LEMMA FailureKeeps ==
  ASSUME HInv, pc = "model", EndTurn(memory), UNCHANGED refused
  PROVE  HInv'
<1>1. memory \in Seq(Messages) /\ refused \in Nat /\ refused <= MaxMessages + 1 /\ step \in Nat
  BY DEF HInv, Types, HealsByItself
<1>2. Trailing(memory, refused - 1)
  <2>1. CASE step = 0
    BY <1>1, <2>1, FewerTrailing DEF HInv, Refusals
  <2>2. CASE step # 0
    BY <1>1, <2>2, NoTrail DEF HInv, Refusals
  <2> QED
    BY <2>1, <2>2
<1> QED
  BY <1>1, <1>2, EndTurnKeeps

LEMMA RunToolKeeps ==
  ASSUME HInv, RunTool
  PROVE  HInv'
<1> DEFINE after == Append(memory, ToolResult(ran + 1))
<1>1. /\ pc = "tools" /\ UNCHANGED refused
      /\ \/ ran' = ran + 1 /\ memory' = after /\ UNCHANGED <<pc, step, calls>>
         \/ ran' = calls /\ memory' = after /\ pc' = "model" /\ step' = step + 1 /\ UNCHANGED calls
         \/ EndTurn(after)
  BY DEF RunTool
<1>2. memory \in Seq(Messages) /\ ran \in Nat /\ calls \in Nat /\ step \in Nat /\ refused = 0
  BY <1>1 DEF HInv, Types, Refusals
<1>3. after \in Seq(Messages) /\ after # <<>>
  <2>1. ran + 1 \in Nat
    BY <1>2
  <2> QED
    BY <1>2, <2>1, MessagesOf, Appended
<1> HIDE DEF after
<1>4. CASE EndTurn(after)
  <2>1. Trailing(after, refused' - 1)
    BY <1>1, <1>2, <1>3, NoTrail
  <2> QED
    BY <1>1, <1>2, <1>3, <1>4, <2>1, EndTurnKeeps, Limits
<1>5. CASE ran' = ran + 1 /\ memory' = after /\ UNCHANGED <<pc, step, calls>>
  BY <1>1, <1>2, <1>3, <1>5 DEF HInv, Types, Refusals, HealsByItself
<1>6. CASE ran' = calls /\ memory' = after /\ pc' = "model" /\ step' = step + 1 /\ UNCHANGED calls
  <2>1. step' \in Nat /\ step' # 0
    BY <1>2, <1>6
  <2> QED
    BY <1>1, <1>2, <1>3, <1>6, <2>1 DEF HInv, Types, Refusals, HealsByItself
<1> QED
  BY <1>1, <1>4, <1>5, <1>6

LEMMA DoneKeeps ==
  ASSUME HInv, Done
  PROVE  HInv'
<1>1. /\ pc = "speech" /\ pc' = "idle" /\ memory' = Folded(memory)
      /\ UNCHANGED <<step, calls, ran, refused>>
  BY DEF Done
<1>2. memory \in Seq(Messages) /\ refused \in Nat /\ Trailing(memory, refused - 1)
  BY <1>1 DEF HInv, Types, Refusals
<1>3. /\ memory' \in Seq(Messages) /\ Len(memory') <= MaxMessages
      /\ Trailing(memory', refused - 1)
  BY <1>1, <1>2, FoldedEnd
<1> QED
  BY <1>1, <1>3 DEF HInv, Types, Refusals, HealsByItself

LEMMA BargeInKeeps ==
  ASSUME HInv, BargeIn
  PROVE  HInv'
<1>1. /\ pc' = "idle" /\ step' = 0 /\ calls' = 0 /\ ran' = 0 /\ refused' = 0
      /\ UNCHANGED memory
  BY DEF BargeIn
<1>2. memory \in Seq(Messages)
  BY DEF HInv, Types
<1>3. Trailing(memory', refused' - 1)
  BY <1>1, <1>2, NoTrail
<1>4. Types' /\ HealsByItself'
  BY <1>1, <1>2, Limits DEF Types, HealsByItself
<1> QED
  BY <1>1, <1>3, <1>4 DEF HInv, Refusals

LEMMA HNext == HInv /\ [Next]_vars => HInv'
<1> SUFFICES ASSUME HInv, [Next]_vars PROVE HInv'
  OBVIOUS
<1>1. CASE Complete
  BY <1>1, AnswerKeeps, RefusalKeeps, FailureKeeps
  DEF Complete, MockAnswers, ProviderAnswers, ProviderRefuses, ProviderFails
<1>2. CASE SetLLM \/ UNCHANGED vars
  BY <1>2 DEF SetLLM, vars, HInv, Types, Refusals, HealsByItself, Trailing
<1> QED
  BY <1>1, <1>2, AskKeeps, RunToolKeeps, DoneKeeps, BargeInKeeps DEF Next

LEMMA HAlways == Spec => []HInv
<1> QED
  BY HInit, HNext, PTL DEF Spec

\* However interruptions, folding and changes of the provider have separated calls from
\* their results: of the turns after it no more than max_messages are refused, for any
\* limit, before one is answered.
THEOREM ConversationHeals == Spec => []HealsByItself
<1>1. HInv => HealsByItself
  BY DEF HInv
<1> QED
  BY <1>1, HAlways, PTL

(***************************************************************************)
(* Pictures.                                                               *)
(***************************************************************************)

LEMMA LastIsUser ==
  ASSUME NEW s, Len(s) \in Nat \ {0}, DOMAIN s = 1..Len(s), s[Len(s)].role = "user"
  PROVE  LastUser(s) = Len(s)
<1> DEFINE P(i) == s[i].role = "user" /\ \A j \in i+1 .. Len(s) : s[j].role # "user"
<1>1. Len(s) \in DOMAIN s /\ P(Len(s))
  OBVIOUS
<1>2. ASSUME NEW i \in DOMAIN s, P(i)
      PROVE  i = Len(s)
  BY <1>2
<1>3. LastUser(s) = CHOOSE i \in DOMAIN s : P(i)
  BY DEF LastUser
<1> HIDE DEF P
<1> QED
  BY <1>1, <1>2, <1>3

\* A request with pictures has them with the question the turn began with, also for a
\* provider whose interface gives the results of tools the role of the user.
THEOREM PicturesGoWithTheQuestion == Spec => []PicturesWithQuestion
<1>1. HInv => PicturesWithQuestion
  <2> SUFFICES ASSUME HInv, pc = "model", NEW i \in DOMAIN memory, Request[i].images
               PROVE  i = LastUser(memory)
    BY DEF PicturesWithQuestion
  <2> DEFINE c == Converted(memory)
             n == Len(memory)
  <2>1. memory \in Seq(Messages) /\ n \in Nat /\ DOMAIN memory = 1..n
    BY DEF HInv, Types
  <2>2. c \in [1..n -> Lines] /\ \A k \in 1..n : c[k].images = FALSE
    BY <2>1, ConvertedLines
  <2>3. Len(c) = n /\ DOMAIN c = 1..n
    BY <2>1, <2>2
  <2>4. Request = c \/ (step = 0 /\ Request = [c EXCEPT ![LastUser(c)].images = TRUE])
    BY DEF Request, Attach, WithImages
  <2>5. CASE Request = c
    BY <2>1, <2>2, <2>5
  <2>6. CASE step = 0 /\ Request = [c EXCEPT ![LastUser(c)].images = TRUE]
    <3>1. n \in Nat \ {0} /\ memory[n].role = "user"
      <4>1. memory # <<>> /\ Trailing(memory, 1)
        BY <2>6 DEF HInv, Refusals
      <4>2. n \in Nat \ {0}
        BY <2>1, <4>1
      <4> QED
        BY <2>1, <4>1, <4>2 DEF Trailing
    <3>2. c[n].role = "user"
      <4>1. n \in 1..Len(memory)
        BY <3>1
      <4> QED
        BY <2>1, <3>1, <4>1, ConvertedLines
    <3>3. LastUser(memory) = n
      BY <2>1, <3>1, LastIsUser
    <3> HIDE DEF c, n
    <3>4. LastUser(c) = n
      BY <2>3, <3>1, <3>2, LastIsUser
    <3>5. ASSUME i # n PROVE FALSE
      <4>1. Request[i] = c[i]
        BY <2>1, <2>2, <2>6, <3>4, <3>5
      <4> QED
        BY <2>1, <2>2, <4>1
    <3> QED
      BY <3>3, <3>5
  <2> QED
    BY <2>4, <2>5, <2>6
<1> QED
  BY <1>1, HAlways, PTL
=================================================================================
