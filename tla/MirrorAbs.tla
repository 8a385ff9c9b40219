------------------------------- MODULE MirrorAbs -------------------------------
(***************************************************************************)
(* What the backend and the headset promise together about holograms: a    *)
(* session makes, changes and removes them, and the headset repeats every  *)
(* one of these changes, whatever it is, in their order.  No hologram is   *)
(* made twice, by any session, so no session changes what an earlier one   *)
(* left behind.  With the connection the session goes, and what was to be  *)
(* repeated; what is shown stays.                                          *)
(***************************************************************************)
EXTENDS Integers, Sequences

CONSTANTS
  Ids,     \* the holograms that may be made
  Gone     \* what one that is not there looks like

VARIABLES
  link,    \* is there a connection, and with it a session?
  scene,   \* [Ids -> what the session has]
  used,    \* the holograms that were ever made
  coming,  \* the changes that the headset has to repeat, oldest first
  shown    \* [Ids -> what the headset shows]

vars == <<link, scene, used, coming, shown>>

Empty == [o \in Ids |-> Gone]

Init ==
  /\ link = TRUE
  /\ scene = Empty
  /\ used = {}
  /\ coming = <<>>
  /\ shown = Empty

\* From now on, and in the headset as soon as this arrives, o looks like this.
Becomes(o, look) ==
  /\ scene' = [scene EXCEPT ![o] = look]
  /\ coming' = Append(coming, [id |-> o, look |-> look])
  /\ UNCHANGED <<link, shown>>

Make(o) ==
  /\ link
  /\ o \notin used
  /\ used' = used \cup {o}
  /\ scene'[o] # Gone
  /\ Becomes(o, scene'[o])

\* A change or, to Gone, the removal of a hologram the session has.
Change(o) ==
  /\ link
  /\ scene[o] # Gone
  /\ Becomes(o, scene'[o])
  /\ UNCHANGED used

Repeat ==
  /\ link
  /\ coming # <<>>
  /\ shown' = [shown EXCEPT ![Head(coming).id] = Head(coming).look]
  /\ coming' = Tail(coming)
  /\ UNCHANGED <<link, scene, used>>

\* The user brings holograms back; none that is shown goes by it.
Restore ==
  /\ shown' \in [Ids -> {shown'[o] : o \in Ids}]
  /\ \A o \in Ids : shown'[o] # shown[o] => o \in used /\ shown'[o] # Gone
  /\ UNCHANGED <<link, scene, used, coming>>

End ==
  /\ link
  /\ link' = FALSE
  /\ scene' = Empty
  /\ coming' = <<>>
  /\ UNCHANGED <<used, shown>>

Begin == ~link /\ link' = TRUE /\ UNCHANGED <<scene, used, coming, shown>>

Next ==
  \/ \E o \in Ids : Make(o) \/ Change(o)
  \/ Repeat \/ Restore \/ End \/ Begin

Spec == Init /\ [][Next]_vars
=============================================================================
