----------------------------- MODULE RenderFifo -----------------------------
(***************************************************************************)
(* What gRC promises to those who paint: drawing operations are executed   *)
(* one at a time, each exactly once and in the order of their submission,  *)
(* and a notification is announced once everything submitted by then has   *)
(* been executed.                                                          *)
(***************************************************************************)
EXTENDS Integers, Sequences

CONSTANTS Capacity, Kinds

VARIABLES
  pending,   \* submitted operations, the oldest first
  painted,   \* how many operations have been executed
  owed,      \* a notify operation was executed and not yet announced
  messages   \* announcements the main loop has not received

fifo == <<pending, painted, owed, messages>>

Init == pending = <<>> /\ painted = 0 /\ owed = FALSE /\ messages = 0

\* Operations are numbered in the order of their submission.
Submit ==
  /\ Len(pending) < Capacity
  /\ \E kind \in Kinds :
       pending' = Append(pending, [kind |-> kind, id |-> painted + Len(pending) + 1])
  /\ UNCHANGED <<painted, owed, messages>>

Execute ==
  /\ pending # <<>>
  /\ painted' = Head(pending).id
  /\ owed' = (owed \/ Head(pending).kind = "notify")
  /\ pending' = Tail(pending)
  /\ UNCHANGED messages

Announce ==
  /\ owed /\ pending = <<>>
  /\ owed' = FALSE
  /\ messages' = messages + 1
  /\ UNCHANGED <<pending, painted>>

Receive == messages > 0 /\ messages' = 0 /\ UNCHANGED <<pending, painted, owed>>

Next == Submit \/ Execute \/ Announce \/ Receive

Spec == Init /\ [][Next]_fifo
=============================================================================
