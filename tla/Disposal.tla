------------------------------ MODULE Disposal ------------------------------
(***************************************************************************)
(* What the collector promises about the beacons it accepts, without       *)
(* saying how: a submitted event ends in one place, once and for ever, or  *)
(* is lost when the process ends, and the hostnames table never names a    *)
(* hostname that no processed event had.                                   *)
(***************************************************************************)

CONSTANTS Event,        \* the beacons clients send
          Hostname,     \* the hostnames they are about
          HostnameOf    \* the hostname of each event

VARIABLES outcome,      \* where each event is
          listed        \* the hostnames in the hostnames table

vars == <<outcome, listed>>

\* An event's hostname is due in the hostnames table once it was processed as
\* found, even when the row of the event itself could not be saved.
Processed == {"stored", "unsaved"}
Final == Processed \cup {"expired", "unknown", "lookupFailed", "lost"}

Init == /\ outcome = [e \in Event |-> "new"]
        /\ listed = {}

Submit(e) == /\ outcome[e] = "new"
             /\ outcome' = [outcome EXCEPT ![e] = "waiting"]
             /\ UNCHANGED listed

Dispose(e, o) == /\ outcome[e] = "waiting"
                 /\ outcome' = [outcome EXCEPT ![e] = o]
                 /\ UNCHANGED listed

\* The end of the process: whatever waits is lost.
Lose == /\ outcome' = [e \in Event |->
                         IF outcome[e] = "waiting" THEN "lost" ELSE outcome[e]]
        /\ UNCHANGED listed

\* Several at a time: the database stores what it was given when it likes.
List(H) == /\ \A h \in H : \E e \in Event : outcome[e] \in Processed /\ HostnameOf[e] = h
           /\ listed' = listed \cup H
           /\ UNCHANGED outcome

Next == \/ \E e \in Event : Submit(e) \/ \E o \in Final \ {"lost"} : Dispose(e, o)
        \/ Lose
        \/ \E H \in SUBSET Hostname : List(H)

Spec == Init /\ [][Next]_vars
=============================================================================
