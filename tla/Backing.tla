------------------------------ MODULE Backing ------------------------------
(***************************************************************************)
(* What the backups promise about the events they are given, without       *)
(* batchers, goroutines and files: each is collected once, and leaves      *)
(* memory once, as a line of a file, as a line that could not be written,  *)
(* or with the process.                                                    *)
(***************************************************************************)

CONSTANTS Backup,   \* the backups
          Event     \* what they may be given

VARIABLES collected,  \* per backup: the events in memory
          written,    \* per backup: events with a line in a file
          unwritten,  \* per backup: events whose line could not be written
          dropped     \* per backup: what was in memory when the process ended

vars == <<collected, written, unwritten, dropped>>

Nothing == [b \in Backup |-> {}]

Init == collected = Nothing /\ written = Nothing /\ unwritten = Nothing /\ dropped = Nothing

\* Wherever an event may be of those a backup was given.
Given(b) == collected[b] \cup written[b] \cup unwritten[b] \cup dropped[b]

Collect(b, e) ==
  /\ e \notin Given(b)
  /\ collected' = [collected EXCEPT ![b] = @ \cup {e}]
  /\ UNCHANGED <<written, unwritten, dropped>>

\* Of the lines B that leave memory, W reach a file.
Write(b, B, W) ==
  /\ B # {} /\ B \subseteq collected[b] /\ W \subseteq B
  /\ collected' = [collected EXCEPT ![b] = @ \ B]
  /\ written' = [written EXCEPT ![b] = @ \cup W]
  /\ unwritten' = [unwritten EXCEPT ![b] = @ \cup (B \ W)]
  /\ UNCHANGED dropped

\* The end of the process.
Drop ==
  /\ dropped' = [b \in Backup |-> dropped[b] \cup collected[b]]
  /\ collected' = Nothing
  /\ UNCHANGED <<written, unwritten>>

Next == \/ \E b \in Backup : \/ \E e \in Event : Collect(b, e)
                             \/ \E B, W \in SUBSET Event : Write(b, B, W)
        \/ Drop

Spec == Init /\ [][Next]_vars
=============================================================================
