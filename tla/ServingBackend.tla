---- MODULE ServingBackend ----
(* "jarvis-backend serve": one process that listens until it is cancelled or dies, and the
   requests that reach it, or the files it starts from, meanwhile. *)
EXTENDS Integers

CONSTANT
  MaxChanges   \* bound: settings changes, set-ups and authoring requests

ASSUME ChangesAssumption == MaxChanges \in Nat

VARIABLES
  up,       \* run_server is listening
  changes   \* requests made so far, over all the starts

processVars == <<up, changes>>

NotServing == up = FALSE /\ changes = 0

Serve == ~up /\ up' = TRUE /\ UNCHANGED changes   \* run_server has bound its socket
Exit  == up /\ up' = FALSE /\ UNCHANGED changes   \* its future is cancelled, or the process dies

\* A request that needs no process, such as the wizard's, and one of a connection.
Change == changes < MaxChanges /\ changes' = changes + 1
Asked  == up /\ Change /\ UNCHANGED up
====
