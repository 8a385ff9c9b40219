------------------------------ MODULE Conversation ------------------------------
(***************************************************************************)
(* The single agent's loop, which runs when orchestration is switched off: *)
(* the conversation it remembers, the requests each provider is sent, and  *)
(* what turns that fail, are interrupted or run into the limit of steps    *)
(* leave in the memory for the turns after them.                           *)
(*                                                                         *)
(* Of a message the role is kept, how many tools it calls, and which of    *)
(* these calls it answers; texts, arguments and the summary of what was    *)
(* folded are left out.                                                    *)
(***************************************************************************)
EXTENDS Integers, Sequences, FiniteSets

CONSTANTS
  Providers,     \* kinds of provider the settings may choose
  MaxMessages,   \* ConversationMemory.max_messages: 24
  MaxToolSteps,  \* config.max_tool_steps: 6
  MaxParallel,   \* bound: tools called in one answer
  MaxBargeIns    \* bound: interruptions

ASSUME ConversationAssumption ==
  /\ Providers \subseteq {"mock", "openai", "compatible", "anthropic"}
  /\ {MaxMessages, MaxToolSteps, MaxParallel} \subseteq Nat \ {0}
  /\ MaxBargeIns \in Nat

VARIABLES
  provider,  \* agent.llm
  memory,    \* state.memory._messages
  pc,        \* "idle", "model" (the provider is asked), "tools" or "speech"
  step,      \* step of the loop
  calls,     \* tools called by the last answer
  ran,       \* how many of them have run
  images,    \* the turn has pictures of the camera for the provider
  refused,   \* history: requests refused since one was answered or interrupted
  bargeIns   \* interruptions so far

vars == <<provider, memory, pc, step, calls, ran, images, refused, bargeIns>>

(***************************************************************************)
(* Memory.                                                                 *)
(***************************************************************************)

Message(role, called, answers) == [role |-> role, calls |-> called, answers |-> answers]
UserMessage   == Message("user", 0, 0)
Assistant(n)  == Message("assistant", n, 0)   \* n = 0: a text
ToolResult(k) == Message("tool", 0, k)        \* of call k of the answer before

\* maybe_summarize: over the limit, the newest half stays.
Folded(messages) ==
  IF Len(messages) <= MaxMessages THEN messages
  ELSE SubSeq(messages, Len(messages) - MaxMessages \div 2 + 1, Len(messages))

LastUser(messages) ==
  CHOOSE i \in DOMAIN messages :
    messages[i].role = "user" /\ \A j \in i+1 .. Len(messages) : messages[j].role # "user"

(***************************************************************************)
(* Requests.  A message on the wire: its role there, the calls it makes,   *)
(* those it answers, and whether pictures go with it.                      *)
(***************************************************************************)

Wire(role, m) ==
  [role |-> role, uses |-> 1..m.calls, images |-> FALSE,
   answers |-> IF m.role = "tool" THEN {m.answers} ELSE {}]

ToOpenAI(m) == Wire(m.role, m)

\* Anthropic has no role for tools: their results come from the user.
ToAnthropic(m) == Wire(IF m.role = "tool" THEN "user" ELSE m.role, m)

Converted(messages) ==
  [i \in DOMAIN messages |->
     IF provider = "anthropic" THEN ToAnthropic(messages[i]) ELSE ToOpenAI(messages[i])]

\* Pictures go with the last message whose role is "user".
Attach(request) == [request EXCEPT ![LastUser(request)].images = TRUE]

\* Faulty variant: the pictures go with every request of the turn.
FaultyWithImages == images
WithImages == images /\ step = 0

Request ==
  IF WithImages /\ provider \in {"openai", "anthropic"} THEN Attach(Converted(memory))
  ELSE Converted(memory)

\* What the providers' interfaces require: the calls of a message are answered by the
\* messages right after it, all of them, and nothing else is answered.
AnsweredAfter(request, i) ==
  LET Run == {j \in i+1 .. Len(request) : \A k \in i+1 .. j : request[k].answers # {}}
  IN  UNION {request[j].answers : j \in Run}
Accepts(request) ==
  /\ request[1].answers = {}
  /\ \A i \in DOMAIN request :
       request[i].answers = {} => AnsweredAfter(request, i) = request[i].uses

(***************************************************************************)
(* The loop.                                                               *)
(***************************************************************************)

Init ==
  /\ provider \in Providers
  /\ memory = <<>>
  /\ pc = "idle"
  /\ step = 0 /\ calls = 0 /\ ran = 0
  /\ images = FALSE
  /\ refused = 0
  /\ bargeIns = 0

\* A text.  Pictures are taken only for a provider that looks at them itself.
Ask ==
  /\ pc = "idle"
  /\ pc' = "model"
  /\ memory' = Append(memory, UserMessage)
  /\ step' = 0
  /\ images' \in IF provider \in {"openai", "anthropic"} THEN BOOLEAN ELSE {FALSE}
  /\ UNCHANGED <<provider, calls, ran, refused, bargeIns>>

\* Faulty variant: a turn that failed does not come to the hook of the memory.
FaultyEndTurn(messages) ==
  /\ pc' = IF messages = memory THEN "idle" ELSE "speech"
  /\ memory' = messages
  /\ step' = 0 /\ calls' = 0 /\ ran' = 0 /\ images' = FALSE

\* The loop is left: the answer is spoken, piece by piece.
EndTurn(messages) ==
  /\ pc' = "speech"
  /\ memory' = messages
  /\ step' = 0 /\ calls' = 0 /\ ran' = 0 /\ images' = FALSE

\* thinking{done}, and the hook of the memory.
Done ==
  /\ pc = "speech"
  /\ pc' = "idle"
  /\ memory' = Folded(memory)
  /\ UNCHANGED <<provider, step, calls, ran, images, refused, bargeIns>>

\* The model calls n tools; entries without a name do not count.
CallTools(n) ==
  /\ memory' = Append(memory, Assistant(n))
  /\ pc' = "tools"
  /\ calls' = n /\ ran' = 0
  /\ UNCHANGED <<step, images>>

Reply == EndTurn(Append(memory, Assistant(0)))

\* MockLLM: tools while none has answered the last question, then their summary.
MockAnswers ==
  /\ provider = "mock"
  /\ IF \E i \in LastUser(memory)+1 .. Len(memory) : memory[i].role = "tool"
     THEN Reply
     ELSE Reply \/ \E n \in 1..MaxParallel : CallTools(n)
  /\ refused' = 0

ProviderAnswers ==
  /\ provider # "mock" /\ Accepts(Request)
  /\ Reply \/ \E n \in 1..MaxParallel : CallTools(n)
  /\ refused' = 0

\* "Sorry, I hit a problem thinking that through.": spoken, and not remembered.
ProviderRefuses ==
  /\ provider # "mock" /\ ~Accepts(Request)
  /\ EndTurn(memory)
  /\ refused' = refused + 1

ProviderFails ==
  /\ provider # "mock" /\ Accepts(Request)
  /\ EndTurn(memory)
  /\ UNCHANGED refused

Complete ==
  /\ pc = "model"
  /\ MockAnswers \/ ProviderAnswers \/ ProviderRefuses \/ ProviderFails
  /\ UNCHANGED <<provider, bargeIns>>

\* The next tool of the answer.  After the last one the model is asked again, unless
\* the limit is reached: "I've done what I can for now.", which is not remembered.
RunTool ==
  LET after == Append(memory, ToolResult(ran + 1)) IN
  /\ pc = "tools"
  /\ IF ran + 1 < calls
     THEN ran' = ran + 1 /\ memory' = after /\ UNCHANGED <<pc, step, calls, images>>
     ELSE IF step + 1 < MaxToolSteps
     THEN ran' = calls /\ memory' = after /\ pc' = "model" /\ step' = step + 1 /\ UNCHANGED <<calls, images>>
     ELSE EndTurn(after)
  /\ UNCHANGED <<provider, refused, bargeIns>>

\* client.barge_in: the task is cancelled where it waits: for the provider, a tool or the speech.
BargeIn ==
  /\ pc # "idle"
  /\ bargeIns < MaxBargeIns
  /\ bargeIns' = bargeIns + 1
  /\ pc' = "idle" /\ step' = 0 /\ calls' = 0 /\ ran' = 0 /\ images' = FALSE
  /\ refused' = 0
  /\ UNCHANGED <<provider, memory>>

\* The settings are changed, perhaps over another connection, while a turn runs.
SetLLM ==
  /\ provider' \in Providers \ {provider}
  /\ UNCHANGED <<memory, pc, step, calls, ran, images, refused, bargeIns>>

Next == Ask \/ Complete \/ RunTool \/ Done \/ BargeIn \/ SetLLM

Spec == Init /\ [][Next]_vars

(***************************************************************************)
(* Properties.                                                             *)
(***************************************************************************)

\* A conversation that providers refuse, because an interruption or the folding of old
\* messages has separated a call from its results, heals by itself: the turns that fail
\* push the pair out of the memory, at the latest when max_messages of them, after the
\* first, have failed in a row.
HealsByItself == refused <= MaxMessages + 1

\* The pictures of a turn go with its question, whatever the provider makes of the tools'
\* results that follow it.
PicturesWithQuestion ==
  pc = "model" => \A i \in DOMAIN memory : Request[i].images => i = LastUser(memory)
=================================================================================
