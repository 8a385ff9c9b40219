------------------------------- MODULE OutboxAbs -------------------------------
(***************************************************************************)
(* What the voice client promises about what it hears, whatever becomes of *)
(* its connections: everything stands in one line, which is served from    *)
(* its head while there is a connection.  A connection that breaks costs   *)
(* at most one envelope, the first of the line, and only until the break   *)
(* is noticed.                                                             *)
(***************************************************************************)
EXTENDS Integers, Sequences

VARIABLES
  link,    \* "up", "failing": broken, which may still cost an envelope, or "down"
  heard,   \* how many envelopes there have been; they are numbered
  line,    \* those that wait, oldest first
  sent,    \* those that went out, in the order they did
  lost     \* those that were lost

vars == <<link, heard, line, sent, lost>>

Init ==
  /\ link = "down"
  /\ heard = 0
  /\ line = <<>>
  /\ sent = <<>>
  /\ lost = {}

\* What is heard, if anything, stands behind the others.
Joins(others) ==
  \/ line' = others /\ UNCHANGED heard
  \/ heard' = heard + 1 /\ line' = Append(others, heard + 1)

Connect == link = "down" /\ link' = "up" /\ UNCHANGED <<heard, line, sent, lost>>

Break == link = "up" /\ link' = "failing" /\ UNCHANGED <<heard, line, sent, lost>>

Hear == Joins(line) /\ UNCHANGED <<link, sent, lost>>

Send ==
  /\ link = "up"
  /\ line # <<>>
  /\ sent' = Append(sent, Head(line))
  /\ line' = Tail(line)
  /\ UNCHANGED <<link, heard, lost>>

\* The break is noticed, perhaps by the loss of the envelope that was on its way.
Notice ==
  /\ link = "failing"
  /\ link' = "down"
  /\ \/ Joins(line) /\ UNCHANGED lost
     \/ line # <<>> /\ Joins(Tail(line)) /\ lost' = lost \cup {Head(line)}
  /\ UNCHANGED sent

Next == Connect \/ Break \/ Hear \/ Send \/ Notice

Spec == Init /\ [][Next]_vars
=============================================================================
