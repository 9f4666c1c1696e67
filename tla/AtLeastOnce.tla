----------------------------- MODULE AtLeastOnce ----------------------------
(***************************************************************************)
(* What event delivery promises, whatever carries the events: a committed  *)
(* event is owed to every consumer.  A debt is settled only by the         *)
(* consumer's handler returning ok; it may be parked (dead-lettered) and   *)
(* taken up again, and a settled delivery may be repeated.  Nothing else   *)
(* removes a debt.                                                         *)
(***************************************************************************)
CONSTANTS Events, Consumers

Deliveries == Events \X Consumers

VARIABLES
  owed,     \* deliveries the system is still working on
  parked,   \* deliveries given up until an operator requeues them
  done      \* deliveries whose handler has succeeded at least once

vars == <<owed, parked, done>>

Init == owed = {} /\ parked = {} /\ done = {}

(* A writer commits an event: it is owed to everyone. *)
Commit(e) ==
  /\ \A r \in Deliveries : r[1] = e => r \notin owed \cup parked \cup done
  /\ owed' = owed \cup {r \in Deliveries : r[1] = e}
  /\ UNCHANGED <<parked, done>>

(* A handler returns ok.  Its delivery may stay owed (or parked) when the
   outcome is not recorded in time. *)
Handle(r) ==
  /\ r \in owed \cup parked \cup done
  /\ done' = done \cup {r}
  /\ UNCHANGED <<owed, parked>>

(* A delivery leaves the queue, which only a handled one may do. *)
Settle(S) ==
  /\ S # {}
  /\ S \subseteq owed \cap done
  /\ owed' = owed \ S
  /\ UNCHANGED <<parked, done>>

Park(S) ==
  /\ S # {}
  /\ S \subseteq owed
  /\ owed' = owed \ S
  /\ parked' = parked \cup S
  /\ UNCHANGED done

(* An operator requeues parked deliveries. *)
Resume(S) ==
  /\ S # {}
  /\ S \subseteq parked
  /\ owed' = owed \cup S
  /\ parked' = parked \ S
  /\ UNCHANGED done

(* An event that was handled and forgotten arrives again. *)
Repeat(S) ==
  /\ S # {}
  /\ S \subseteq done \ (owed \cup parked)
  /\ owed' = owed \cup S
  /\ UNCHANGED <<parked, done>>

Next ==
  \/ \E e \in Events : Commit(e)
  \/ \E r \in Deliveries : Handle(r)
  \/ \E S \in SUBSET Deliveries : Settle(S) \/ Park(S) \/ Resume(S) \/ Repeat(S)

Spec == Init /\ [][Next]_vars

=============================================================================
