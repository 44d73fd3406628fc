------------------------------- MODULE Outbox -------------------------------
(***************************************************************************)
(* What the delivery coordinator (runtime/tasks.py) promises about the     *)
(* results of the tasks, without runs, gates, queues and interrupts: each  *)
(* result is sent, kept for later or skipped; what was sent is taken by    *)
(* the actor in the order it was sent, once; and what was made, lost or    *)
(* skipped stays so.                                                       *)
(***************************************************************************)
EXTENDS Integers, SequencesExt

CONSTANTS Letters   \* tasks whose result is to be delivered

VARIABLES
  letter,  \* absent, open, owed, kept, sent, made, lost or skipped
  post     \* letters sent and not yet taken

outbox == <<letter, post>>

OutboxInit == letter = [l \in Letters |-> "absent"] /\ post = <<>>

Opens(l) ==
  /\ letter[l] = "absent" /\ letter' = [letter EXCEPT ![l] = "open"]
  /\ UNCHANGED post

Closes(l) ==
  /\ letter[l] = "open" /\ letter' = [letter EXCEPT ![l] = "owed"]
  /\ UNCHANGED post

Keeps(l) ==
  /\ letter[l] = "owed" /\ letter' = [letter EXCEPT ![l] = "kept"]
  /\ UNCHANGED post

\* Letters put behind those already sent, each once.
Fresh == {i \in DOMAIN post' : i > Len(post)}
IsFresh(l) == \E i \in Fresh : post'[i] = l

IsSent(l) == letter[l] \in {"owed", "kept"} /\ letter'[l] = "sent"
IsSkipped(l) == letter[l] \in {"open", "owed", "kept"} /\ letter'[l] = "skipped"

\* Some letters are sent and some are skipped, in one step.
Settles ==
  /\ DOMAIN letter' = Letters
  /\ Len(post) <= Len(post') /\ \A i \in DOMAIN post : post'[i] = post[i]
  /\ \A i, j \in Fresh : post'[i] = post'[j] => i = j
  /\ \A l \in Letters :
       IF IsFresh(l)
       THEN IsSent(l)
       ELSE letter'[l] = letter[l] \/ IsSkipped(l)

\* The letter sent first is taken: its follow-up is run, or it is put aside for good.
Taken(how) ==
  /\ post # <<>>
  /\ letter[Head(post)] = "sent"
  /\ letter' = [letter EXCEPT ![Head(post)] = how]
  /\ post' = Tail(post)

OutboxNext ==
  \/ \E l \in Letters : Opens(l) \/ Closes(l) \/ Keeps(l)
  \/ Settles
  \/ Taken("made") \/ Taken("lost")

OutboxSpec == OutboxInit /\ [][OutboxNext]_outbox
==============================================================================
