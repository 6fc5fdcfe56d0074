---------------------------- MODULE NotifyQueue ----------------------------
(***************************************************************************)
(* What the input queue promises to its users: a first-in first-out queue  *)
(* of events with a readiness flag that a looper can watch.  Sending and   *)
(* receiving each happen at one instant, together with the change of the   *)
(* flag, and the flag says exactly whether there is something to receive.  *)
(* The looper is level-triggered: whoever sees the flag finds an event,    *)
(* and an event in the queue always shows.                                 *)
(***************************************************************************)
EXTENDS Naturals, Sequences

CONSTANTS Events, Consumers, NoEvent

VARIABLES queue, ready, held

nvars == <<queue, ready, held>>

Init ==
  /\ queue = <<>>
  /\ ready = FALSE
  /\ held = [c \in Consumers |-> NoEvent]

\* An event that is neither queued nor with a consumer joins the queue.
Send(e) ==
  /\ \A i \in DOMAIN queue : queue[i] # e
  /\ \A c \in Consumers : held[c] # e
  /\ queue' = Append(queue, e)
  /\ ready' = TRUE
  /\ UNCHANGED held

\* The oldest event goes to one consumer, and to that one alone.
Receive(c) ==
  /\ queue # <<>>
  /\ held[c] = NoEvent
  /\ held' = [held EXCEPT ![c] = queue[1]]
  /\ queue' = Tail(queue)
  /\ ready' = (Len(queue) > 1)

Release(c) ==
  /\ held[c] # NoEvent
  /\ held' = [held EXCEPT ![c] = NoEvent]
  /\ UNCHANGED <<queue, ready>>

Next ==
  \/ \E e \in Events : Send(e)
  \/ \E c \in Consumers : Receive(c) \/ Release(c)

Spec == Init /\ [][Next]_nvars
=============================================================================
