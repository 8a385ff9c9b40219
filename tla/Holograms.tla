------------------------------- MODULE Holograms -------------------------------
(***************************************************************************)
(* The holograms of a session: the backend's SessionState (objects, refs,  *)
(* timers), which tools and interactions change, the holo.* messages that  *)
(* carry the changes, and the HologramManager of the headset that applies  *)
(* them.  The websocket keeps the order of messages; a lost connection     *)
(* loses what is in flight and the whole session, while the headset keeps  *)
(* what it shows.                                                          *)
(*                                                                         *)
(* A tool call or interaction applies its directives without suspending    *)
(* (emit only queues), so each is one step.  The props of a hologram are   *)
(* one value, its look: the state of a timer or media player, the content  *)
(* of the others.  Its place in the room is left out, and that the headset *)
(* merges a nested prop where the session replaces it.                     *)
(***************************************************************************)
EXTENDS Integers, Sequences

CONSTANTS
  MaxObjects,    \* bound: holograms ever spawned
  MaxSessions,   \* bound: connections of the headset
  MaxDown,       \* bound: messages on their way to the headset
  MaxUp,         \* bound: touches on their way to the backend
  Widgets,       \* the widget types in use
  Contents,      \* what panels may show
  Layouts        \* whether the user saves and restores layouts

ASSUME HologramsAssumption ==
  /\ MaxObjects \in Nat
  /\ MaxSessions \in Nat \ {0}
  /\ MaxDown \in Nat
  /\ MaxUp \in Nat
  /\ Widgets \subseteq {"panel", "media", "timer"}
  /\ {"running", "paused", "playing", "none"} \cap Contents = {}
  /\ Layouts \in BOOLEAN

Ids    == 1..MaxObjects
Shared == Widgets \ {"timer"}   \* tools share one ref per widget type
NoId   == 0

\* What a widget of a type shows: on spawning, and ever.
Starts(w) == CASE w = "timer" -> {"running"}
               [] w = "media" -> {"playing", "paused"}
               [] OTHER       -> Contents
Looks(w)  == IF w = "timer" THEN {"running", "paused"} ELSE Starts(w)
AllLooks  == UNION {Looks(w) : w \in Widgets}

\* The elements of a widget the user may touch: the widget as a whole, and those of
\* the catalog's events.
Elements(w) ==
  CASE w = "timer" -> {"body", "pause_button", "resume_button", "reset_button", "close_button"}
    [] w = "media" -> {"body", "scrubber"}
    [] OTHER       -> {"body", "section", "close"}

VARIABLES
  widget,     \* [Ids -> the widget_type an id was spawned with, "none" if unused,
              \*  "refused" if it names a timer whose spawn the catalog refused]
  objects,    \* SessionState.objects: [Ids -> look, "none" if not there]
  refs,       \* SessionState.refs, shared refs: [Shared -> id or NoId]
  timerRefs,  \* ... and "timer:" refs, each named after the object it leads to
  timers,     \* store["timers"]: [Ids -> state, "none" if not there]
  lastTimer,  \* store["last_timer_ref"]
  down,       \* holo.* messages on their way to the headset
  up,         \* client.interaction messages on their way to the backend
  link,       \* the connection is up
  session,    \* how many sessions there have been
  shown,      \* HologramManager._objects: [Ids -> look the widget holds in
              \*  HoloWidget.Props, "none" if not there]
  saved,      \* HologramPersistence: the saved layout
  restored,   \* history: restored from the layout since their last message
  left        \* history: shown when an earlier session ended, or restored

serverVars  == <<objects, refs, timerRefs, timers, lastTimer>>
headsetVars == <<shown, saved>>
linkVars    == <<link, session>>
history     == <<restored, left>>
vars == <<widget, serverVars, down, up, linkVars, headsetVars, history>>

Nothing == [o \in Ids |-> "none"]

Msg(op, o, look) == [op |-> op, id |-> o, look |-> look]
Tapped(o, el)    == [id |-> o, element |-> el]

Init ==
  /\ widget = Nothing
  /\ objects = Nothing
  /\ refs = [r \in Shared |-> NoId]
  /\ timerRefs = {}
  /\ timers = Nothing
  /\ lastTimer = NoId
  /\ down = <<>>
  /\ up = <<>>
  /\ link = TRUE
  /\ session = 1
  /\ shown = Nothing
  /\ saved = Nothing
  /\ restored = {}
  /\ left = {}

(***************************************************************************)
(* Directives.                                                             *)
(***************************************************************************)

Emit(m) == Len(down) < MaxDown /\ down' = Append(down, m)

\* A new_id() that was never used.
FaultyFresh(o) == objects[o] = "none" /\ \A p \in Ids : p < o => objects[p] # "none"
Fresh(o) == widget[o] = "none" /\ \A p \in Ids : p < o => widget[p] # "none"

\* AgentSession._spawn of a new object; SessionState.track.  Where the catalog refuses
\* the props nothing of this happens; only start_timer has changed something by then.
Track(o, w, look) ==
  /\ Fresh(o)
  /\ widget' = [widget EXCEPT ![o] = w]
  /\ objects' = [objects EXCEPT ![o] = look]
  /\ Emit(Msg("spawn", o, look))

\* AgentSession._update_object: the patch is sent even if the object is unknown.
Patch(o, look) ==
  /\ objects' = IF objects[o] = "none" THEN objects ELSE [objects EXCEPT ![o] = look]
  /\ Emit(Msg("update", o, look))

\* AgentSession._destroy_object; SessionState.untrack removes every ref to it.
FaultyForget(o) == UNCHANGED <<refs, timerRefs>>
Forget(o) ==
  /\ refs' = [r \in Shared |-> IF refs[r] = o THEN NoId ELSE refs[r]]
  /\ timerRefs' = timerRefs \ {o}

Destroy(o) ==
  /\ objects' = [objects EXCEPT ![o] = "none"]
  /\ Forget(o)
  /\ Emit(Msg("destroy", o, "none"))

(***************************************************************************)
(* Tools.                                                                  *)
(***************************************************************************)

\* A tool that shows a widget under its ref (show_panel, show_<widget>, ...): an
\* idempotent re-spawn updates the object that is there.
IsLive(r) == refs[r] # NoId /\ objects[refs[r]] # "none"

Show(r) ==
  /\ link
  /\ \E look \in Starts(r) :
       \/ /\ IsLive(r)
          /\ Patch(refs[r], look)
          /\ UNCHANGED <<widget, refs>>
       \/ /\ ~IsLive(r)
          /\ \E o \in Ids :
               Track(o, r, look) /\ refs' = [refs EXCEPT ![r] = o]
  /\ UNCHANGED <<timerRefs, timers, lastTimer, up, linkVars, headsetVars, history>>

\* open_widget: any type of the catalog, without a ref.
OpenWidget(w) ==
  /\ link
  /\ \E o \in Ids, look \in Starts(w) : Track(o, w, look)
  /\ UNCHANGED <<refs, timerRefs, timers, lastTimer, up, linkVars, headsetVars,
                 history>>

\* The catalog refuses the spawn (a label that is no string) once the record is written:
\* the new ref o leads nowhere, and only an error message is sent.
Refuse(o) ==
  /\ Fresh(o)
  /\ widget' = [widget EXCEPT ![o] = "refused"]
  /\ UNCHANGED <<objects, timerRefs, down>>

\* start_timer: the record and the hologram get the same new ref.
StartTimer ==
  /\ link
  /\ "timer" \in Widgets
  /\ \E o \in Ids :
       /\ timers' = [timers EXCEPT ![o] = "running"]
       /\ lastTimer' = o
       /\ \/ Track(o, "timer", "running") /\ timerRefs' = timerRefs \cup {o}
          \/ Refuse(o)
  /\ UNCHANGED <<refs, up, linkVars, headsetVars, history>>

\* DestroyDirective by ref: nothing happens if the ref leads nowhere.
DestroyRef(t) ==
  IF t \in timerRefs THEN Destroy(t) ELSE UNCHANGED <<objects, refs, timerRefs, down>>

Active(t) == t \in Ids /\ timers[t] # "none"

DropRecord(t) == timers' = [timers EXCEPT ![t] = "none"]

\* stop_timer, of the last timer or of one the model names; if it is not active the
\* tool only answers that there is no active timer.
StopTimer ==
  /\ link
  /\ \E t \in {lastTimer} \cup {p \in Ids : widget[p] \in {"timer", "refused"}} :
       /\ Active(t)
       /\ DropRecord(t)
       /\ lastTimer' = IF lastTimer = t THEN NoId ELSE lastTimer
       /\ DestroyRef(t)
  /\ UNCHANGED <<widget, up, linkVars, headsetVars, history>>

(***************************************************************************)
(* Interactions: AgentSession.handle_interaction of the oldest one.        *)
(***************************************************************************)

\* _timer_intent looks for these parts of the element's name; anything else, the
\* reset button included, toggles.
Intent(el) == CASE el = "close_button"  -> "cancel"
                [] el = "pause_button"  -> "pause"
                [] el = "resume_button" -> "resume"
                [] OTHER                -> "toggle"

\* _interact_panel looks for "close", "dismiss" or "x" in the element's name.
Closes(el) == el = "close"

FaultyCancelTimer(o) == Destroy(o) /\ UNCHANGED timers
CancelTimer(o) ==
  /\ Destroy(o)
  /\ timers' = IF o \in timerRefs THEN [timers EXCEPT ![o] = "none"] ELSE timers

\* Pause or resume: the record, if there is one, and the hologram.
SetTimer(o, state) ==
  /\ Patch(o, state)
  /\ timers' = IF o \in timerRefs THEN [timers EXCEPT ![o] = state] ELSE timers
  /\ UNCHANGED <<refs, timerRefs>>

TimerState(o) ==
  IF o \in timerRefs /\ timers[o] # "none" THEN timers[o] ELSE objects[o]

InteractTimer(o, el) ==
  \/ Intent(el) = "cancel" /\ CancelTimer(o)
  \/ /\ Intent(el) = "pause" \/ (Intent(el) = "toggle" /\ TimerState(o) = "running")
     /\ SetTimer(o, "paused")
  \/ /\ Intent(el) = "resume" \/ (Intent(el) = "toggle" /\ TimerState(o) # "running")
     /\ SetTimer(o, "running")

InteractMedia(o) ==
  /\ Patch(o, IF objects[o] = "playing" THEN "paused" ELSE "playing")
  /\ UNCHANGED <<refs, timerRefs, timers>>

InteractPanel(o, el) == Closes(el) /\ Destroy(o) /\ UNCHANGED timers

\* An interaction no widget handles, or with an object the session does not know,
\* goes to the model as text: whatever tools it calls are steps of their own.
Unhandled(o, el) ==
  /\ objects[o] = "none" \/ (widget[o] = "panel" /\ ~Closes(el))
  /\ UNCHANGED <<objects, refs, timerRefs, timers, down>>

Interact ==
  /\ link
  /\ up # <<>>
  /\ up' = Tail(up)
  /\ LET o == Head(up).id
         el == Head(up).element
     IN \/ Unhandled(o, el)
        \/ /\ objects[o] # "none"
           /\ CASE widget[o] = "timer" -> InteractTimer(o, el)
                [] widget[o] = "media" -> InteractMedia(o)
                [] OTHER               -> InteractPanel(o, el)
  /\ UNCHANGED <<widget, lastTimer, linkVars, headsetVars, history>>

(***************************************************************************)
(* The headset.                                                            *)
(***************************************************************************)

\* HologramManager.HandleSpawn / HandleUpdate / HandleDestroy: a spawn of an id
\* that is shown patches it, the others ignore an id that is not.
Applied(view, m) ==
  IF m.op # "spawn" /\ view[m.id] = "none" THEN view
  ELSE [view EXCEPT ![m.id] = m.look]

Deliver ==
  /\ link
  /\ down # <<>>
  /\ down' = Tail(down)
  /\ shown' = Applied(shown, Head(down))
  /\ restored' = restored \ {Head(down).id}
  /\ UNCHANGED <<widget, serverVars, up, linkVars, saved, left>>

\* HoloInteractable: touching a hologram that is shown.
Touch(o) ==
  /\ link
  /\ shown[o] # "none"
  /\ Len(up) < MaxUp
  /\ \E el \in Elements(widget[o]) : up' = Append(up, Tapped(o, el))
  /\ UNCHANGED <<widget, serverVars, down, linkVars, headsetVars, history>>

SaveLayout ==
  /\ Layouts
  /\ saved' = shown
  /\ UNCHANGED <<widget, serverVars, down, up, linkVars, shown, history>>

\* RestoreLayout spawns what was saved, locally.
RestoreLayout ==
  LET again == {o \in Ids : saved[o] # "none"}
  IN /\ again # {}
     /\ shown' = [o \in Ids |-> IF o \in again THEN saved[o] ELSE shown[o]]
     /\ restored' = restored \cup again
     /\ left' = left \cup again
     /\ UNCHANGED <<widget, serverVars, down, up, linkVars, saved>>

(***************************************************************************)
(* The connection.                                                         *)
(***************************************************************************)

\* Each connection has its queues; what is in flight is lost with them.
FaultyLoseWires == up' = <<>> /\ UNCHANGED down
LoseWires == up' = <<>> /\ down' = <<>>

\* The backend drops the session; nothing tells the HologramManager.
Disconnect ==
  /\ link
  /\ link' = FALSE
  /\ objects' = Nothing
  /\ refs' = [r \in Shared |-> NoId]
  /\ timerRefs' = {}
  /\ timers' = Nothing
  /\ lastTimer' = NoId
  /\ LoseWires
  /\ restored' = {}
  /\ left' = left \cup {o \in Ids : shown[o] # "none"}
  /\ UNCHANGED <<widget, session, headsetVars>>

Reconnect ==
  /\ ~link
  /\ session < MaxSessions
  /\ link' = TRUE
  /\ session' = session + 1
  /\ UNCHANGED <<widget, serverVars, down, up, headsetVars, history>>

(***************************************************************************)
(* The specification.                                                      *)
(***************************************************************************)

Next ==
  \/ \E r \in Shared : Show(r)
  \/ \E w \in Widgets : OpenWidget(w)
  \/ StartTimer
  \/ StopTimer
  \/ Interact
  \/ Deliver
  \/ \E o \in Ids : Touch(o)
  \/ SaveLayout
  \/ RestoreLayout
  \/ Disconnect
  \/ Reconnect

Spec == Init /\ [][Next]_vars

(***************************************************************************)
(* Properties.                                                             *)
(***************************************************************************)

\* Every variable has a value of its kind.
TypeOK ==
  /\ widget \in [Ids -> Widgets \cup {"none", "refused"}]
  /\ objects \in [Ids -> AllLooks \cup {"none"}]
  /\ refs \in [Shared -> Ids \cup {NoId}]
  /\ timerRefs \subseteq Ids
  /\ timers \in [Ids -> {"running", "paused", "none"}]
  /\ lastTimer \in Ids \cup {NoId}
  /\ down \in Seq([op : {"spawn", "update", "destroy"}, id : Ids,
                   look : AllLooks \cup {"none"}])
  /\ up \in Seq([id : Ids, element : UNION {Elements(w) : w \in Widgets}])
  /\ link \in BOOLEAN
  /\ session \in 1..MaxSessions
  /\ shown \in [Ids -> AllLooks \cup {"none"}]
  /\ saved \in [Ids -> AllLooks \cup {"none"}]
  /\ restored \subseteq Ids
  /\ left \subseteq Ids

\* What a headset with this view shows after none, one, ... all of these messages.
Arrivals(view, messages) ==
  LET after[n \in 0..Len(messages)] ==
        IF n = 0 THEN view ELSE Applied(after[n - 1], messages[n])
  IN  after

\* What the headset will show once all that is on its way has arrived.
Settled == Arrivals(shown, down)[Len(down)]

\* The widgets of the headset hold the props the session has for them, as soon as the
\* messages on the way have arrived: no message is lost on a hologram that is not there,
\* comes too early or too late.  Only a layout restored by hand may differ until the
\* next message, and what an earlier session left may be there in addition.  What a
\* widget draws of its props is its own affair: see TimersAreDrawnAsTheyAre.
MirrorsSession ==
  \A o \in Ids :
    \/ Settled[o] = objects[o]
    \/ objects[o] # "none" /\ o \in restored
    \/ objects[o] = "none" /\ o \in left

\* A ref leads to an object of the session and no two refs to the same, so that a
\* tool always finds the hologram it made, and makes another when it is gone.
RefsResolve ==
  /\ \A r \in Shared : refs[r] # NoId => objects[refs[r]] # "none" /\ widget[refs[r]] = r
  /\ \A t \in timerRefs : objects[t] # "none" /\ widget[t] = "timer"

\* The record of a timer and its hologram change and go together, whichever of
\* stop_timer and the interactions with the hologram, in whatever order, came: a record
\* and its hologram have one state, a hologram that goes takes its record along, and a
\* record without a hologram is only what a refused start left behind.
TimersMatchHolograms ==
  \A o \in Ids :
    /\ o \in timerRefs => timers[o] = objects[o]
    /\ timers[o] # "none" => o \in timerRefs \/ widget[o] = "refused"

\* TimerWidget takes its play state from a prop "running", which no message of the
\* backend carries: whatever "state" it holds, it stands still and offers to resume.
Drawn(o) == IF widget[o] = "timer" /\ shown[o] # "none" THEN "paused" ELSE shown[o]

\* Refuted by what the code does: a timer is drawn in the state the session has for it,
\* once all messages have arrived, as the comment of TimerWidget says of the resync.
TimersAreDrawnAsTheyAre ==
  link /\ down = <<>> =>
    \A o \in Ids : widget[o] = "timer" /\ objects[o] # "none" /\ o \notin restored
                   => Drawn(o) = objects[o]

\* What is on its way, as MirrorAbs sees it: no matter which message says it.
Coming == [n \in 1..Len(down) |-> [id |-> down[n].id, look |-> down[n].look]]

Abs == INSTANCE MirrorAbs WITH
  Gone <- "none", scene <- objects, coming <- Coming,
  used <- {o \in Ids : widget[o] \notin {"none", "refused"}}

\* Spawns, updates and destroys, each of which the headset may ignore, come to the same as
\* plain assignments repeated in order, and no session changes what an earlier one left.
ImplementsMirrorAbs == Abs!Spec
=============================================================================
