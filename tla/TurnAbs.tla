-------------------------------- MODULE TurnAbs --------------------------------
(***************************************************************************)
(* What a connection of the agent backend promises about the requests it   *)
(* receives: they are served one at a time in the order of their arrival,  *)
(* an interruption silences the request being served and no other, and a   *)
(* request that was not silenced is answered.                              *)
(***************************************************************************)
EXTENDS Naturals

CONSTANT Requests      \* the requests, numbered in the order of their arrival

VARIABLES
  phase,      \* [Requests -> Phases]
  silenced,   \* the requests that were interrupted while they were served
  gone        \* the client has disconnected

vars == <<phase, silenced, gone>>

Phases == {"absent", "queued", "served", "answered", "dropped"}

Init ==
  /\ phase = [i \in Requests |-> "absent"]
  /\ silenced = {}
  /\ gone = FALSE

Becomes(i, p) == phase' = [phase EXCEPT ![i] = p]

Arrive(i) ==
  /\ ~gone
  /\ phase[i] = "absent"
  /\ \A j \in Requests : j > i => phase[j] = "absent"
  /\ Becomes(i, "queued")
  /\ UNCHANGED <<silenced, gone>>

\* It is this request's turn: none is being served and none queued before it.
Due(i) ==
  /\ ~gone
  /\ phase[i] = "queued"
  /\ \A j \in Requests : phase[j] # "served" /\ (j < i => phase[j] # "queued")

Serve(i) == Due(i) /\ Becomes(i, "served") /\ UNCHANGED <<silenced, gone>>

\* A request that is answered without a pause is never seen being served.
Answer(i) ==
  /\ Due(i) \/ (phase[i] = "served" /\ i \notin silenced /\ ~gone)
  /\ Becomes(i, "answered")
  /\ UNCHANGED <<silenced, gone>>

Interrupt(i) ==
  /\ ~gone
  /\ phase[i] = "served"
  /\ silenced' = silenced \cup {i}
  /\ UNCHANGED <<phase, gone>>

Drop(i) ==
  /\ \/ phase[i] = "served" /\ i \in silenced
     \/ phase[i] \in {"queued", "served"} /\ gone
  /\ Becomes(i, "dropped")
  /\ UNCHANGED <<silenced, gone>>

Disconnect == ~gone /\ gone' = TRUE /\ UNCHANGED <<phase, silenced>>

Next ==
  \/ \E i \in Requests : Arrive(i) \/ Serve(i) \/ Answer(i) \/ Interrupt(i) \/ Drop(i)
  \/ Disconnect

Spec == Init /\ [][Next]_vars
=============================================================================
