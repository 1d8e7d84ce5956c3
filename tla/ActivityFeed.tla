----------------------------- MODULE ActivityFeed -----------------------------
(***************************************************************************)
(* What stream() promises to one consumer: the activities of the session,  *)
(* in the order of the server, each once, and all of them; a consumer that *)
(* starts again starts from the first.                                     *)
(***************************************************************************)
EXTENDS Integers, Sequences

CONSTANT MaxActivity

VARIABLES
  published,   \* how many activities the session has
  delivered    \* what the consumer has been given

vars == <<published, delivered>>

Init == published = 0 /\ delivered = <<>>

Publish ==
  /\ published < MaxActivity
  /\ published' = published + 1
  /\ UNCHANGED delivered

Deliver ==
  /\ Len(delivered) < published
  /\ delivered' = Append(delivered, Len(delivered) + 1)
  /\ UNCHANGED published

Restart ==
  /\ delivered' = <<>>
  /\ UNCHANGED published

Next == Publish \/ Deliver \/ Restart

Spec == Init /\ [][Next]_vars /\ WF_vars(Deliver)
=============================================================================
