--------------------------- MODULE SettingsStore ---------------------------
(***************************************************************************)
(* What a client that sends its requests one at a time may take the        *)
(* configuration API for: a store of settings that judges each request by  *)
(* what it holds, changes in one step or not at all, and then answers with *)
(* what it holds.                                                          *)
(***************************************************************************)
CONSTANTS
  Requests,
  Bodies,
  Admissible(_, _),  \* whether the store accepts a request
  Updated(_, _),     \* the store a request leaves
  View(_, _),        \* the answer to it
  Refusal,           \* the answer to a request that is not accepted
  InitialStore, NoBody, Unanswered

VARIABLES
  store,
  phase,   \* how far each request is: waiting, accepted or done
  body,    \* what it asked for, once it is accepted or done
  answer

vars == <<store, phase, body, answer>>

Init ==
  /\ store = InitialStore
  /\ phase = [r \in Requests |-> "waiting"]
  /\ body = [r \in Requests |-> NoBody]
  /\ answer = [r \in Requests |-> Unanswered]

\* The turn of a request comes when no other is being handled.
Judge(r, b, place) ==
  /\ phase[r] = "waiting" /\ \A q \in Requests : phase[q] # "accepted"
  /\ phase' = [phase EXCEPT ![r] = place]
  /\ body' = [body EXCEPT ![r] = b]

Accept(r, b) ==
  /\ Judge(r, b, "accepted")
  /\ Admissible(b, store)
  /\ store' = Updated(b, store)
  /\ UNCHANGED answer

Refuse(r, b) ==
  /\ Judge(r, b, "done")
  /\ ~Admissible(b, store)
  /\ answer' = [answer EXCEPT ![r] = Refusal]
  /\ UNCHANGED store

Reply(r) ==
  /\ phase[r] = "accepted"
  /\ phase' = [phase EXCEPT ![r] = "done"]
  /\ answer' = [answer EXCEPT ![r] = View(body[r], store)]
  /\ UNCHANGED <<store, body>>

Next ==
  \E r \in Requests : Reply(r) \/ \E b \in Bodies : Accept(r, b) \/ Refuse(r, b)

Spec == Init /\ [][Next]_vars
=============================================================================
