------------------------ MODULE StoresAndTrailProofs ------------------------
(***************************************************************************)
(* Proofs about InMemoryStores, for any number of calls and faults, and    *)
(* about AuditTrail, for any number of requests, policies, processes and   *)
(* organizations, any page size and any clocks.                            *)
(***************************************************************************)
EXTENDS InMemoryStores, AuditTrail, FiniteSetTheorems, TLAPS

-----------------------------------------------------------------------------
(* The in-memory stores.                                                   *)

(* The inductive invariant. *)
StoresIInv == StoresInv /\ UniqueUnlessUndone /\ ResetSignsOut

-----------------------------------------------------------------------------
(* Steps that leave the rows alone.                                        *)

(* Nothing that the invariant says of the rows changes when the rows, what was
   undone and what was pruned stay, no call starts to decide and no call's
   change is applied. *)
LEMMA RowsAlone ==
  ASSUME StoresIInv, StoresTypeOK', UNCHANGED <<rows, undo, loaded, op, pruned>>,
         \A c \in Calls : pc'[c] = "failed" <=> pc[c] = "failed",
         \A c \in Calls : pc'[c] \in {"publishing", "accepted", "acknowledged"} =>
           pc[c] \in {"publishing", "accepted", "acknowledged"},
         \A c \in Calls : pc'[c] \in {"idle", "decided"} => pc'[c] = pc[c]
  PROVE  StoresIInv'
  <1>1. PutBack' = PutBack /\ Present' = Present /\ \A c \in Calls : Wrote(c)' = Wrote(c)
    BY DEF PutBack, Present, Wrote
  <1>2. LostOnlyWhereUndone' /\ VersionNamesRow'
    BY <1>1 DEF StoresIInv, StoresInv, LostOnlyWhereUndone, VersionNamesRow
  <1>3. IdsAreNew'
    BY <1>1 DEF StoresIInv, StoresInv, IdsAreNew, Row
  <1>4. StatusesInOrder'
    BY <1>1 DEF StoresIInv, StoresInv, StatusesInOrder, InOrder, Row
  <1>5. UniqueUnlessUndone'
    BY <1>1 DEF StoresIInv, UniqueUnlessUndone, Sole, Row
  <1>6. ResetSignsOut'
    BY <1>1 DEF StoresIInv, ResetSignsOut, In, Row
  <1> QED
    BY <1>2, <1>3, <1>4, <1>5, <1>6 DEF StoresIInv, StoresInv

(* Faults are armed and disarmed. *)
LEMMA FaultsKeep ==
  ASSUME StoresIInv, NEW p \in Points, Arm(p) \/ Disarm(p)
  PROVE  StoresIInv'
  <1>1. UNCHANGED <<rows, pc, op, loaded, undo, left, sent, pruned>>
    BY DEF Arm, Disarm, calls
  <1>2. armed' \in [Points -> Nat] /\ armings' \in 0 .. MaxFaults
    BY StoresAssumption DEF Arm, Disarm, StoresIInv, StoresInv, StoresTypeOK
  <1>3. StoresTypeOK'
    BY <1>1, <1>2 DEF StoresIInv, StoresInv, StoresTypeOK, Maps
  <1> QED
    BY <1>1, <1>3, RowsAlone

(* An event is accepted. *)
LEMMA AcceptKeeps ==
  ASSUME StoresIInv, NEW c \in Calls, pc[c] = "publishing", Miss("event.publish.before"),
         sent' = sent \cup {<<c, left[c]>>}, pc' = [pc EXCEPT ![c] = "accepted"],
         UNCHANGED <<rows, op, loaded, undo, left, pruned, armings>>
  PROVE  StoresIInv'
  <1>1. StoresTypeOK'
    BY DEF Miss, StoresIInv, StoresInv, StoresTypeOK, Maps, Stages
  <1> QED
    BY <1>1, RowsAlone DEF StoresIInv, StoresInv, StoresTypeOK

(* An event is confirmed. *)
LEMMA ConfirmKeeps ==
  ASSUME StoresIInv, NEW c \in Calls, pc[c] = "accepted", Miss("event.publish.after"),
         left' = [left EXCEPT ![c] = @ - 1],
         pc' = [pc EXCEPT ![c] = IF left[c] = 1 THEN "acknowledged" ELSE "publishing"],
         UNCHANGED <<rows, op, loaded, undo, sent, pruned, armings>>
  PROVE  StoresIInv'
  <1>1. left[c] \in Nat /\ left[c] > 0
    BY DEF StoresIInv, StoresInv, StoresTypeOK
  <1>2. left' \in [Calls -> Nat] /\ left'[c] = left[c] - 1
        /\ \A d \in Calls \ {c} : left'[d] = left[d]
    BY <1>1 DEF StoresIInv, StoresInv, StoresTypeOK
  <1>3. pc' \in [Calls -> Stages] /\ pc'[c] = (IF left[c] = 1 THEN "acknowledged" ELSE "publishing")
        /\ \A d \in Calls \ {c} : pc'[d] = pc[d]
    BY DEF StoresIInv, StoresInv, StoresTypeOK, Stages
  <1>4. \A d \in Calls : pc'[d] \in {"publishing", "accepted"} => left'[d] > 0
    <2>1. ASSUME NEW d \in Calls, d # c, pc'[d] \in {"publishing", "accepted"} PROVE left'[d] > 0
      BY <1>2, <1>3, <2>1 DEF StoresIInv, StoresInv, StoresTypeOK
    <2>2. pc'[c] \in {"publishing", "accepted"} => left'[c] > 0
      BY <1>1, <1>2, <1>3
    <2> QED
      BY <2>1, <2>2
  <1>5. StoresTypeOK'
    BY <1>2, <1>3, <1>4 DEF Miss, StoresIInv, StoresInv, StoresTypeOK, Maps
  <1> QED
    BY <1>3, <1>5, RowsAlone

(* A writer refuses. *)
LEMMA RefuseKeeps ==
  ASSUME StoresIInv, NEW c \in Calls, pc[c] = "decided", pc' = [pc EXCEPT ![c] = "refused"],
         UNCHANGED <<rows, undo, left, op, loaded, sent, pruned, faults>>
  PROVE  StoresIInv'
  <1>1. StoresTypeOK'
    BY DEF faults, StoresIInv, StoresInv, StoresTypeOK, Maps, Stages
  <1> QED
    BY <1>1, RowsAlone DEF StoresIInv, StoresInv, StoresTypeOK

-----------------------------------------------------------------------------
(* Reads, the pruner and the undoing of a change.                          *)

(* A command reads rows that are there, of the tables and in the statuses it
   asks for. *)
LEMMA ReadKeeps ==
  ASSUME StoresIInv, NEW c \in Calls, NEW command \in Commands, NEW keys, Read(c, command, keys),
         keys \subseteq Present,
         \A k \in keys : /\ <<command, k[1], rows[k].status>> \in Reads
                         /\ k[1] = "credentials" => k = Row("credentials"),
         command \in {"login", "reset"} => Row("credentials") \in keys,
         command = "reset" => Row("challenges") \in keys
  PROVE  StoresIInv'
  <1>1. /\ pc' = [pc EXCEPT ![c] = "decided"] /\ pc[c] = "idle"
        /\ op' = [op EXCEPT ![c] = command]
        /\ loaded' = [loaded EXCEPT ![c] = [k \in keys |-> rows[k]]]
        /\ UNCHANGED <<rows, undo, left, sent, pruned, armed, armings>>
    BY DEF Read, faults
  <1>2. /\ Maps(rows, Rows) /\ pc \in [Calls -> Stages] /\ op \in [Calls -> Commands]
        /\ DOMAIN loaded = Calls
        /\ \A d \in Calls : Maps(loaded[d], Rows)
    BY DEF StoresIInv, StoresInv, StoresTypeOK
  <1>3. /\ pc'[c] = "decided" /\ op'[c] = command
        /\ DOMAIN loaded'[c] = keys /\ \A k \in keys : loaded'[c][k] = rows[k]
        /\ \A d \in Calls \ {c} : pc'[d] = pc[d] /\ op'[d] = op[d] /\ loaded'[d] = loaded[d]
    BY <1>1, <1>2
  <1>4. PutBack' = PutBack /\ Present' = Present /\ \A d \in Calls : Wrote(d)' = Wrote(d)
    BY <1>1, <1>3 DEF PutBack, Present, Wrote
  <1>5. StoresTypeOK'
    <2>1. \A d \in Calls : Maps(loaded'[d], Rows)
      BY <1>2, <1>3 DEF Maps, Present
    <2>2. pc' \in [Calls -> Stages] /\ op' \in [Calls -> Commands] /\ DOMAIN loaded' = Calls
      BY <1>1, <1>2 DEF Stages
    <2>3. \A d \in Calls : pc'[d] \in {"publishing", "accepted"} => left[d] > 0
      BY <1>3 DEF StoresIInv, StoresInv, StoresTypeOK
    <2> QED
      BY <1>1, <2>1, <2>2, <2>3 DEF StoresIInv, StoresInv, StoresTypeOK, Maps
  <1>6. LostOnlyWhereUndone'
    BY <1>1, <1>3, <1>4 DEF StoresIInv, StoresInv, LostOnlyWhereUndone
  <1>7. VersionNamesRow'
    <2> SUFFICES ASSUME NEW d \in Calls, pc'[d] = "decided",
                        NEW k \in DOMAIN loaded'[d] \ (PutBack \cup pruned)
                 PROVE  /\ k \in Present /\ loaded'[d][k].version <= rows[k].version
                        /\ loaded'[d][k].version = rows[k].version => loaded'[d][k] = rows[k]
      <3>1. UNCHANGED <<rows, pruned>>
        BY <1>1
      <3> QED
        BY <1>4, <3>1 DEF VersionNamesRow
    <2>1. CASE d = c
      <3>1. rows[k] \in Rows /\ k \in keys
        BY <1>2, <1>3, <2>1 DEF Maps, Present
      <3>2. rows[k].version \in Nat
        BY <3>1 DEF Rows
      <3> QED
        BY <1>3, <2>1, <3>1, <3>2
    <2>2. CASE d # c
      BY <1>3, <2>2 DEF StoresIInv, StoresInv, VersionNamesRow
    <2> QED
      BY <2>1, <2>2
  <1>8. IdsAreNew'
    <2>1. \A d \in Calls : pc'[d] \in {"idle", "decided"} => pc[d] \in {"idle", "decided"}
      BY <1>1, <1>3
    <2>2. \A d \in Calls, t \in Tables : pc'[d] \in {"idle", "decided"} =>
            /\ Wrote(d) = {} /\ <<t, d>> \notin Present \cup pruned
            /\ \A e \in Calls : <<t, d>> \notin DOMAIN loaded'[e] \cup Wrote(e)
      BY <1>3, <2>1 DEF StoresIInv, StoresInv, IdsAreNew
    <2>3. \A d \in Calls : pc'[d] \in {"idle", "decided"} => Wrote(d) = {}
      BY <2>1 DEF StoresIInv, StoresInv, IdsAreNew
    <2>4. /\ \A d \in Calls : \A k \in Wrote(d) : undo[d][k] = Absent => k[2] = d
          /\ {Row("credentials"), Row("challenges")} \subseteq Present
          /\ pruned \cap Present \subseteq PutBack
      BY DEF StoresIInv, StoresInv, IdsAreNew
    <2> QED
      BY <1>1, <1>4, <2>2, <2>3, <2>4 DEF IdsAreNew, Row
  <1>9. StatusesInOrder'
    <2>1. \A k \in Present : InOrder(k, rows[k])
      BY DEF StoresIInv, StoresInv, StatusesInOrder
    <2>2. \A d \in Calls : \A k \in Wrote(d) : undo[d][k] # Absent => InOrder(k, undo[d][k])
      BY DEF StoresIInv, StoresInv, StatusesInOrder
    <2>3. ASSUME NEW d \in Calls, NEW k \in DOMAIN loaded'[d]
          PROVE  /\ InOrder(k, loaded'[d][k])
                 /\ <<op'[d], k[1], loaded'[d][k].status>> \in Reads
                 /\ k[1] = "credentials" => k = Row("credentials")
      <3>1. CASE d = c
        BY <1>3, <2>1, <3>1
      <3>2. CASE d # c
        BY <1>3, <3>2 DEF StoresIInv, StoresInv, StatusesInOrder
      <3> QED
        BY <3>1, <3>2
    <2>4. \A d \in Calls :
            /\ op'[d] \in {"login", "reset"} => Row("credentials") \in DOMAIN loaded'[d]
            /\ op'[d] = "reset" => Row("challenges") \in DOMAIN loaded'[d]
      BY <1>3 DEF StoresIInv, StoresInv, StatusesInOrder
    <2> QED
      <3>1. \A d \in Calls : \A k \in DOMAIN loaded'[d] :
              /\ InOrder(k, loaded'[d][k])
              /\ <<op'[d], k[1], loaded'[d][k].status>> \in Reads
              /\ k[1] = "credentials" => k = Row("credentials")
        BY <2>3
      <3> QED
        BY <1>1, <1>4, <2>1, <2>2, <2>4, <3>1 DEF StatusesInOrder, Row
  <1>10. UniqueUnlessUndone'
    BY <1>1, <1>4 DEF StoresIInv, UniqueUnlessUndone, Sole, Row
  <1>11. ResetSignsOut'
    BY <1>1, <1>4 DEF StoresIInv, ResetSignsOut, In, Row
  <1> QED
    BY <1>5, <1>6, <1>7, <1>8, <1>9, <1>10, <1>11 DEF StoresIInv, StoresInv

(* The pruner deletes a session. *)
LEMMA PruneKeeps ==
  ASSUME StoresIInv, Prune
  PROVE  StoresIInv'
  <1> PICK s \in Table("sessions") : /\ rows' = [j \in Present \ {s} |-> rows[j]]
                                     /\ pruned' = pruned \cup {s}
    BY DEF Prune
  <1>1. UNCHANGED <<pc, op, loaded, undo, left, sent, armed, armings>>
    BY DEF Prune, calls, faults
  <1>2. s \in Present /\ s[1] = "sessions"
    BY DEF Table
  <1>3. Present' = Present \ {s} /\ \A k \in Present \ {s} : rows'[k] = rows[k]
    BY DEF Present
  <1>4. PutBack' = PutBack /\ \A c \in Calls : Wrote(c)' = Wrote(c)
    BY <1>1 DEF PutBack, Wrote
  <1>5. Row("credentials") # s /\ Row("challenges") # s
    BY <1>2 DEF Row
  <1>6. StoresTypeOK'
    BY <1>1, <1>2, <1>3 DEF StoresIInv, StoresInv, StoresTypeOK, Maps, Present
  <1>7. LostOnlyWhereUndone' /\ VersionNamesRow'
    BY <1>1, <1>3, <1>4 DEF StoresIInv, StoresInv, LostOnlyWhereUndone, VersionNamesRow
  <1>8. IdsAreNew'
    <2>1. \A c \in Calls : pc[c] \in {"idle", "decided"} =>
            /\ Wrote(c) = {}
            /\ \A t \in Tables :
                 /\ <<t, c>> \notin Present' \cup pruned'
                 /\ \A d \in Calls : <<t, c>> \notin DOMAIN loaded[d] \cup Wrote(d)
      BY <1>2, <1>3 DEF StoresIInv, StoresInv, IdsAreNew
    <2>2. /\ \A c \in Calls : \A k \in Wrote(c) : undo[c][k] = Absent => k[2] = c
          /\ {Row("credentials"), Row("challenges")} \subseteq Present'
          /\ pruned' \cap Present' \subseteq PutBack
      BY <1>3, <1>5 DEF StoresIInv, StoresInv, IdsAreNew
    <2> QED
      BY <1>1, <1>4, <2>1, <2>2 DEF IdsAreNew, Row
  <1>9. StatusesInOrder'
    BY <1>1, <1>3, <1>4 DEF StoresIInv, StoresInv, StatusesInOrder, InOrder, Row
  <1>10. UniqueUnlessUndone'
    BY <1>3, <1>4 DEF StoresIInv, UniqueUnlessUndone, Sole, Row
  <1>11. ResetSignsOut'
    <2>1. rows'[Row("credentials")] = rows[Row("credentials")]
      BY <1>3, <1>5 DEF StoresIInv, StoresInv, IdsAreNew
    <2> QED
      BY <1>3, <1>4, <2>1 DEF StoresIInv, ResetSignsOut, In, Row
  <1> QED
    BY <1>6, <1>7, <1>8, <1>9, <1>10, <1>11 DEF StoresIInv, StoresInv

(* A publish fails: what the call found is put back, and counts as such from
   then on. *)
LEMMA PublishFailsKeeps ==
  ASSUME StoresIInv, NEW c \in Calls, pc[c] \in {"publishing", "accepted"},
         NEW p \in Points, Hit(p), PublishFails(c), UNCHANGED sent
  PROVE  StoresIInv'
  <1> DEFINE found == {k \in DOMAIN undo[c] : undo[c][k] # Absent}
  <1>1. /\ rows' = Restored(c) /\ pc' = [pc EXCEPT ![c] = "failed"]
        /\ UNCHANGED <<op, loaded, undo, left, pruned, armings, sent>>
    BY DEF PublishFails
  <1>2. /\ Maps(rows, Rows) /\ pc \in [Calls -> Stages] /\ Maps(undo[c], Rows \cup {Absent})
    BY DEF StoresIInv, StoresInv, StoresTypeOK
  <1>3. /\ pc'[c] = "failed" /\ \A d \in Calls \ {c} : pc'[d] = pc[d]
        /\ pc' \in [Calls -> Stages]
    BY <1>1, <1>2 DEF Stages
  <1>4. /\ Present' = (Present \ Wrote(c)) \cup found
        /\ \A k \in found : rows'[k] = undo[c][k]
        /\ \A k \in Present \ Wrote(c) : rows'[k] = rows[k]
    BY <1>1 DEF Restored, Wrote, Present
  <1>5. found \subseteq Wrote(c)
    BY DEF Wrote
  <1>6. PutBack' = PutBack \cup Wrote(c) /\ \A d \in Calls : Wrote(d)' = Wrote(d)
    BY <1>1, <1>3 DEF PutBack, Wrote
  <1>7. StoresTypeOK'
    <2>1. Maps(rows', Rows)
      <3>1. \A k \in Present : k \in RowKeys /\ rows[k] \in Rows
        BY <1>2 DEF Maps, Present
      <3>2. \A k \in found : k \in RowKeys /\ undo[c][k] \in Rows
        BY <1>2 DEF Maps
      <3> HIDE DEF found
      <3>3. \A k \in Present' : k \in RowKeys /\ rows'[k] \in Rows
        BY <1>4, <3>1, <3>2
      <3> QED
        BY <3>3 DEF Maps, Present
    <2>2. armed' \in [Points -> Nat]
      BY DEF Hit, StoresIInv, StoresInv, StoresTypeOK
    <2> QED
      BY <1>1, <1>3, <2>1, <2>2 DEF StoresIInv, StoresInv, StoresTypeOK, Maps
  <1> HIDE DEF found
  <1>8. LostOnlyWhereUndone'
    <2> SUFFICES ASSUME NEW d \in Calls,
                        pc'[d] \in {"publishing", "accepted", "acknowledged"},
                        NEW k \in Wrote(d) \ (PutBack' \cup pruned)
                 PROVE  k \in Present' /\ d \in rows'[k].trail
      BY <1>1, <1>6 DEF LostOnlyWhereUndone
    <2>1. k \in Present /\ d \in rows[k].trail
      BY <1>3, <1>6 DEF StoresIInv, StoresInv, LostOnlyWhereUndone
    <2> QED
      BY <1>4, <1>6, <2>1
  <1>9. VersionNamesRow'
    <2> SUFFICES ASSUME NEW d \in Calls, pc'[d] = "decided",
                        NEW k \in DOMAIN loaded[d] \ (PutBack' \cup pruned)
                 PROVE  /\ k \in Present' /\ loaded[d][k].version <= rows'[k].version
                        /\ loaded[d][k].version = rows'[k].version => loaded[d][k] = rows'[k]
      BY <1>1, <1>6 DEF VersionNamesRow
    <2>1. /\ k \in Present /\ loaded[d][k].version <= rows[k].version
          /\ loaded[d][k].version = rows[k].version => loaded[d][k] = rows[k]
      BY <1>3, <1>6 DEF StoresIInv, StoresInv, VersionNamesRow
    <2>2. k \in Present' /\ rows'[k] = rows[k]
      BY <1>4, <1>6, <2>1
    <2> QED
      BY <2>1, <2>2
  <1>10. IdsAreNew'
    <2>1. \A d \in Calls : pc'[d] \in {"idle", "decided"} => pc[d] \in {"idle", "decided"}
      BY <1>3
    <2>2. Present' \subseteq Present \cup Wrote(c)
      BY <1>4, <1>5
    <2>3. \A d \in Calls : pc'[d] \in {"idle", "decided"} =>
            /\ Wrote(d) = {}
            /\ \A t \in Tables :
                 /\ <<t, d>> \notin Present' \cup pruned
                 /\ \A e \in Calls : <<t, d>> \notin DOMAIN loaded[e] \cup Wrote(e)
      BY <2>1, <2>2 DEF StoresIInv, StoresInv, IdsAreNew
    <2>4. \A d \in Calls : \A k \in Wrote(d) : undo[d][k] = Absent => k[2] = d
      BY DEF StoresIInv, StoresInv, IdsAreNew
    <2>5. {Row("credentials"), Row("challenges")} \subseteq Present'
      <3> SUFFICES ASSUME NEW t \in {"credentials", "challenges"}
                   PROVE  Row(t) \in Present'
        OBVIOUS
      <3>1. Row(t) \in Present
        BY DEF StoresIInv, StoresInv, IdsAreNew
      <3>2. Row(t)[2] # c
        BY StoresAssumption DEF Row
      <3>3. Row(t) \in Wrote(c) => Row(t) \in found
        BY <2>4, <3>2 DEF found, Wrote
      <3> QED
        BY <1>4, <3>1, <3>3
    <2>6. pruned \cap Present' \subseteq PutBack'
      BY <1>4, <1>5, <1>6 DEF StoresIInv, StoresInv, IdsAreNew
    <2> QED
      BY <1>1, <1>6, <2>3, <2>4, <2>5, <2>6 DEF IdsAreNew, Row
  <1>11. StatusesInOrder'
    <2>1. \A k \in Present' : InOrder(k, rows'[k])
      <3>1. \A k \in Present : InOrder(k, rows[k])
        BY DEF StoresIInv, StoresInv, StatusesInOrder
      <3>2. \A k \in found : InOrder(k, undo[c][k])
        BY DEF StoresIInv, StoresInv, StatusesInOrder, found, Wrote
      <3> QED
        BY <1>4, <3>1, <3>2
    <2> QED
      BY <1>1, <1>6, <2>1 DEF StoresIInv, StoresInv, StatusesInOrder, InOrder, Row
  <1>12. \A k \in Present' \ PutBack' : k \in Present \ PutBack /\ rows'[k] = rows[k]
    BY <1>4, <1>5, <1>6
  <1>13. UniqueUnlessUndone'
    BY <1>12 DEF StoresIInv, UniqueUnlessUndone, Sole, Row
  <1>14. ResetSignsOut'
    <2> SUFFICES ASSUME NEW s \in Present', s[1] = "sessions", rows'[s].status = "active",
                        s \notin PutBack', Row("credentials") \notin PutBack'
                 PROVE  rows'[Row("credentials")].trail \subseteq rows'[s].trail
      BY DEF ResetSignsOut, In, Row
    <2>1. Row("credentials") \in Present'
      BY <1>10 DEF IdsAreNew, Row
    <2>2. /\ s \in Present \ PutBack /\ rows'[s] = rows[s]
          /\ Row("credentials") \in Present \ PutBack
          /\ rows'[Row("credentials")] = rows[Row("credentials")]
      BY <1>12, <2>1
    <2>3. s \in In("sessions", "active")
      BY <2>2 DEF In
    <2> QED
      BY <2>2, <2>3 DEF StoresIInv, ResetSignsOut
  <1> QED
    BY <1>7, <1>8, <1>9, <1>10, <1>11, <1>13, <1>14 DEF StoresIInv, StoresInv

-----------------------------------------------------------------------------
(* What every writer applies.                                              *)

(* Rows of the call's own, and rows it has loaded and found again in the same
   version, each in its next version with the call on its trail. *)
SoundWrites(c, writes) ==
  /\ DOMAIN writes \subseteq RowKeys
  /\ \A k \in DOMAIN writes :
       /\ writes[k] \in Rows /\ c \in writes[k].trail /\ InOrder(k, writes[k])
       /\ \/ /\ k \in DOMAIN loaded[c] /\ k \in Present
             /\ rows[k].version = loaded[c][k].version
             /\ writes[k].version = loaded[c][k].version + 1
             /\ loaded[c][k].trail \subseteq writes[k].trail
          \/ k[2] = c

(* A row of which there is at most one is the only one, or was it before. *)
SoleWrites(writes) ==
  \A k \in DOMAIN writes : Sole(k, writes[k]) =>
    \/ k \in PutBack
    \/ k \in Present /\ Sole(k, rows[k])
    \/ /\ \A j \in Present : j[1] = k[1] => ~Sole(j, rows[j])
       /\ \A j \in DOMAIN writes : j[1] = k[1] /\ Sole(j, writes[j]) => j = k

(* A session is opened with the present password, and a new password comes
   with the end of every session. *)
SignedWrites(writes) ==
  /\ \A k \in DOMAIN writes : k[1] = "sessions" /\ writes[k].status = "active" =>
       /\ Row("credentials") \notin DOMAIN writes
       /\ \/ Row("credentials") \in PutBack
          \/ rows[Row("credentials")].trail \subseteq writes[k].trail
  /\ Row("credentials") \in DOMAIN writes => In("sessions", "active") \subseteq DOMAIN writes

GoodWrites(c, writes) ==
  SoundWrites(c, writes) /\ SoleWrites(writes) /\ SignedWrites(writes)

(* A row that the call is about to create is known to nobody. *)
LEMMA OwnRowsNew ==
  ASSUME StoresInv, NEW c \in Calls, pc[c] = "decided", NEW k \in RowKeys, k[2] = c
  PROVE  k \notin Present \cup pruned /\ \A d \in Calls : k \notin DOMAIN loaded[d] \cup Wrote(d)
  <1>1. k[1] \in Tables /\ k = <<k[1], c>>
    BY DEF RowKeys
  <1> HIDE DEF Tables
  <1> QED
    BY <1>1 DEF StoresInv, IdsAreNew

(* What a call finds in the version it has loaded, never put back, is what it
   has loaded. *)
LEMMA FoundAsLoaded ==
  ASSUME StoresInv, NEW c \in Calls, pc[c] = "decided", NEW k \in DOMAIN loaded[c],
         k \in Present, k \notin PutBack, rows[k].version = loaded[c][k].version
  PROVE  rows[k] = loaded[c][k]
  <1>1. k \notin pruned
    BY DEF StoresInv, IdsAreNew
  <1> QED
    BY <1>1 DEF StoresInv, VersionNamesRow

(* A change is applied. *)
LEMMA ApplyKeeps ==
  ASSUME StoresIInv, NEW c \in Calls, pc[c] = "decided",
         NEW writes, GoodWrites(c, writes), NEW events \in Nat \ {0},
         rows' = Put(writes),
         undo' = [undo EXCEPT ![c] =
                    [k \in DOMAIN writes |-> IF k \in Present THEN rows[k] ELSE Absent]],
         left' = [left EXCEPT ![c] = events],
         pc' = [pc EXCEPT ![c] = "publishing"],
         UNCHANGED <<op, loaded, sent, pruned, armed, armings>>
  PROVE  StoresIInv'
  <1>0. /\ StoresInv /\ Maps(rows, Rows) /\ pc \in [Calls -> Stages]
        /\ DOMAIN undo = Calls /\ left \in [Calls -> Nat]
        /\ \A d \in Calls : Maps(loaded[d], Rows) /\ Maps(undo[d], Rows \cup {Absent})
    BY DEF StoresIInv, StoresInv, StoresTypeOK
  <1>1. /\ Present' = DOMAIN writes \cup Present
        /\ \A k \in DOMAIN writes : rows'[k] = writes[k]
        /\ \A k \in Present \ DOMAIN writes : rows'[k] = rows[k]
    BY DEF Put, Present
  <1>2. /\ DOMAIN undo'[c] = DOMAIN writes
        /\ \A k \in DOMAIN writes : undo'[c][k] = IF k \in Present THEN rows[k] ELSE Absent
        /\ \A d \in Calls \ {c} : undo'[d] = undo[d]
        /\ DOMAIN undo' = Calls
    BY <1>0
  <1>3. /\ pc'[c] = "publishing" /\ \A d \in Calls \ {c} : pc'[d] = pc[d]
        /\ pc' \in [Calls -> Stages]
        /\ left'[c] = events /\ \A d \in Calls \ {c} : left'[d] = left[d]
        /\ left' \in [Calls -> Nat]
    BY <1>0 DEF Stages
  <1>4. /\ Wrote(c)' = DOMAIN writes
        /\ \A d \in Calls \ {c} : Wrote(d)' = Wrote(d)
    BY <1>2 DEF Wrote
  <1>5. PutBack' = PutBack
    BY <1>2, <1>3 DEF PutBack, Wrote
  <1>6. /\ DOMAIN writes \subseteq RowKeys
        /\ \A k \in DOMAIN writes :
             /\ writes[k] \in Rows /\ c \in writes[k].trail /\ InOrder(k, writes[k])
             /\ \/ /\ k \in DOMAIN loaded[c] /\ k \in Present
                   /\ rows[k].version = loaded[c][k].version
                   /\ writes[k].version = loaded[c][k].version + 1
                   /\ loaded[c][k].trail \subseteq writes[k].trail
                \/ k[2] = c
    BY DEF GoodWrites, SoundWrites
  <1>7. \A k \in DOMAIN writes :
          k \in Present \/ (k[2] = c /\ k \notin Present \cup pruned)
    BY <1>0, <1>6, OwnRowsNew
  <1>8. StoresTypeOK'
    <2>1. Maps(rows', Rows)
      <3>1. \A k \in Present : k \in RowKeys /\ rows[k] \in Rows
        BY <1>0 DEF Maps, Present
      <3>2. \A k \in Present' : k \in RowKeys /\ rows'[k] \in Rows
        BY <1>1, <1>6, <3>1
      <3> QED
        BY <3>2 DEF Maps, Present
    <2>2. \A d \in Calls : Maps(undo'[d], Rows \cup {Absent})
      <3>1. \A k \in Present : rows[k] \in Rows
        BY <1>0 DEF Maps, Present
      <3>2. Maps(undo'[c], Rows \cup {Absent})
        BY <1>2, <1>6, <3>1 DEF Maps
      <3>3. \A d \in Calls \ {c} : Maps(undo'[d], Rows \cup {Absent})
        BY <1>0, <1>2
      <3> QED
        BY <3>2, <3>3
    <2>3. \A d \in Calls : pc'[d] \in {"publishing", "accepted"} => left'[d] > 0
      <3>1. left'[c] > 0
        BY <1>3
      <3>2. \A d \in Calls \ {c} : pc'[d] \in {"publishing", "accepted"} => left'[d] > 0
        BY <1>3 DEF StoresInv, StoresIInv, StoresTypeOK
      <3> QED
        BY <3>1, <3>2
    <2> QED
      BY <1>2, <1>3, <2>1, <2>2, <2>3 DEF StoresInv, StoresIInv, StoresTypeOK, Maps
  <1>9. LostOnlyWhereUndone'
    <2> SUFFICES ASSUME NEW d \in Calls,
                        pc'[d] \in {"publishing", "accepted", "acknowledged"},
                        NEW k \in Wrote(d)' \ (PutBack \cup pruned)
                 PROVE  k \in Present' /\ d \in rows'[k].trail
      BY <1>5 DEF LostOnlyWhereUndone
    <2>1. CASE d = c
      BY <1>1, <1>4, <1>6, <2>1
    <2>2. CASE d # c
      <3>1. k \in Wrote(d) /\ k \in Present /\ d \in rows[k].trail
        BY <1>3, <1>4, <2>2 DEF StoresInv, StoresIInv, LostOnlyWhereUndone
      <3>2. CASE k \in DOMAIN writes
        <4>1. /\ k \in DOMAIN loaded[c] /\ rows[k].version = loaded[c][k].version
              /\ loaded[c][k].trail \subseteq writes[k].trail
          BY <1>0, <1>6, <3>1, <3>2, OwnRowsNew
        <4>2. rows[k] = loaded[c][k]
          BY <1>0, <3>1, <4>1, FoundAsLoaded
        <4> QED
          BY <1>1, <3>1, <3>2, <4>1, <4>2
      <3>3. CASE k \notin DOMAIN writes
        BY <1>1, <3>1, <3>3
      <3> QED
        BY <3>2, <3>3
    <2> QED
      BY <2>1, <2>2
  <1>10. VersionNamesRow'
    <2> SUFFICES ASSUME NEW d \in Calls, pc'[d] = "decided",
                        NEW k \in DOMAIN loaded[d] \ (PutBack \cup pruned)
                 PROVE  /\ k \in Present' /\ loaded[d][k].version <= rows'[k].version
                        /\ loaded[d][k].version = rows'[k].version => loaded[d][k] = rows'[k]
      BY <1>5 DEF VersionNamesRow
    <2>1. d # c /\ pc[d] = "decided"
      BY <1>3
    <2>2. /\ k \in Present /\ loaded[d][k].version <= rows[k].version
          /\ loaded[d][k].version = rows[k].version => loaded[d][k] = rows[k]
      BY <2>1 DEF StoresInv, StoresIInv, VersionNamesRow
    <2>3. CASE k \in DOMAIN writes
      <3>1. rows[k].version = loaded[c][k].version /\ writes[k].version = rows[k].version + 1
        BY <1>0, <1>6, <2>2, <2>3, OwnRowsNew
      <3>2. loaded[d][k] \in Rows /\ rows[k] \in Rows
        BY <1>0, <2>2 DEF Maps, Present
      <3>3. loaded[d][k].version \in Nat /\ rows[k].version \in Nat
        BY <3>2 DEF Rows
      <3>4. /\ loaded[d][k].version <= rows[k].version + 1
            /\ loaded[d][k].version # rows[k].version + 1
        BY ONLY <2>2, <3>3
      <3>5. rows'[k] = writes[k] /\ k \in Present'
        BY <1>1, <2>3
      <3> QED
        BY ONLY <3>1, <3>4, <3>5
    <2>4. CASE k \notin DOMAIN writes
      BY <1>1, <2>2, <2>4
    <2> QED
      BY <2>3, <2>4
  <1>11. IdsAreNew'
    <2>1. ASSUME NEW d \in Calls, pc'[d] \in {"idle", "decided"}
          PROVE  /\ Wrote(d)' = {}
                 /\ \A t \in Tables :
                      /\ <<t, d>> \notin Present' \cup pruned
                      /\ \A e \in Calls : <<t, d>> \notin DOMAIN loaded[e] \cup Wrote(e)'
      <3>1. d # c /\ pc[d] \in {"idle", "decided"}
        BY <1>3, <2>1
      <3>2. Wrote(d) = {} /\ Wrote(d)' = Wrote(d)
        BY <1>4, <3>1 DEF StoresInv, StoresIInv, IdsAreNew
      <3>3. ASSUME NEW t \in Tables
            PROVE  /\ <<t, d>> \notin Present' \cup pruned
                   /\ \A e \in Calls : <<t, d>> \notin DOMAIN loaded[e] \cup Wrote(e)'
        <4>1. /\ <<t, d>> \notin Present \cup pruned
              /\ \A e \in Calls : <<t, d>> \notin DOMAIN loaded[e] \cup Wrote(e)
          BY <3>1 DEF StoresInv, StoresIInv, IdsAreNew
        <4>2. <<t, d>> \notin DOMAIN writes
          BY <1>7, <3>1, <4>1
        <4> QED
          BY <1>1, <1>4, <4>1, <4>2
      <3> QED
        BY <3>2, <3>3
    <2>2. \A d \in Calls : \A k \in Wrote(d)' : undo'[d][k] = Absent => k[2] = d
      <3>1. \A k \in Present : rows[k] # Absent
        BY <1>0, StoresAssumption DEF Maps, Present
      <3>2. \A k \in DOMAIN writes : undo'[c][k] = Absent => k[2] = c
        BY <1>2, <1>7, <3>1
      <3>3. \A d \in Calls \ {c} : \A k \in Wrote(d) : undo[d][k] = Absent => k[2] = d
        BY DEF StoresInv, StoresIInv, IdsAreNew
      <3> QED
        BY <1>2, <1>4, <3>2, <3>3
    <2>3. /\ {Row("credentials"), Row("challenges")} \subseteq Present'
          /\ pruned \cap Present' \subseteq PutBack
      BY <1>1, <1>7 DEF StoresInv, StoresIInv, IdsAreNew
    <2> QED
      BY <1>5, <2>1, <2>2, <2>3 DEF IdsAreNew, Row
  <1>12. StatusesInOrder'
    <2>1. \A k \in Present : InOrder(k, rows[k])
      BY DEF StoresInv, StoresIInv, StatusesInOrder
    <2>2. \A k \in Present' : InOrder(k, rows'[k])
      BY <1>1, <1>6, <2>1
    <2>3. \A d \in Calls : \A k \in Wrote(d)' : undo'[d][k] # Absent => InOrder(k, undo'[d][k])
      <3>1. \A d \in Calls \ {c} : \A k \in Wrote(d) :
              undo[d][k] # Absent => InOrder(k, undo[d][k])
        BY DEF StoresInv, StoresIInv, StatusesInOrder
      <3>2. \A k \in DOMAIN writes : undo'[c][k] # Absent => InOrder(k, undo'[c][k])
        BY <1>2, <2>1
      <3> QED
        BY <1>2, <1>4, <3>1, <3>2
    <2>4. /\ \A d \in Calls : \A k \in DOMAIN loaded[d] :
               /\ InOrder(k, loaded[d][k])
               /\ <<op[d], k[1], loaded[d][k].status>> \in Reads
               /\ k[1] = "credentials" => k = Row("credentials")
          /\ \A d \in Calls : op[d] \in {"login", "reset"} => Row("credentials") \in DOMAIN loaded[d]
          /\ \A d \in Calls : op[d] = "reset" => Row("challenges") \in DOMAIN loaded[d]
      BY DEF StoresInv, StoresIInv, StatusesInOrder
    <2> QED
      BY <2>2, <2>3, <2>4 DEF StatusesInOrder, Row
  <1>13. UniqueUnlessUndone'
    <2> SUFFICES ASSUME NEW j \in Present' \ PutBack, NEW k \in Present' \ PutBack,
                        j[1] = k[1], Sole(j, rows'[j]), Sole(k, rows'[k])
                 PROVE  j = k
      BY <1>5 DEF UniqueUnlessUndone, Sole, Row
    <2>1. \A i \in DOMAIN writes : Sole(i, writes[i]) =>
            \/ i \in PutBack
            \/ i \in Present /\ Sole(i, rows[i])
            \/ /\ \A h \in Present : h[1] = i[1] => ~Sole(h, rows[h])
               /\ \A h \in DOMAIN writes : h[1] = i[1] /\ Sole(h, writes[h]) => h = i
      BY DEF GoodWrites, SoleWrites
    <2>2. \A h, i \in Present \ PutBack :
            h[1] = i[1] /\ Sole(h, rows[h]) /\ Sole(i, rows[i]) => h = i
      BY DEF StoresIInv, UniqueUnlessUndone
    <2> QED
      BY <1>1, <2>1, <2>2
  <1>14. ResetSignsOut'
    <2> SUFFICES ASSUME NEW s \in Present', s[1] = "sessions", rows'[s].status = "active",
                        s \notin PutBack, Row("credentials") \notin PutBack
                 PROVE  rows'[Row("credentials")].trail \subseteq rows'[s].trail
      BY <1>5 DEF ResetSignsOut, In, Row
    <2>1. /\ \A k \in DOMAIN writes : k[1] = "sessions" /\ writes[k].status = "active" =>
               /\ Row("credentials") \notin DOMAIN writes
               /\ \/ Row("credentials") \in PutBack
                  \/ rows[Row("credentials")].trail \subseteq writes[k].trail
          /\ Row("credentials") \in DOMAIN writes => In("sessions", "active") \subseteq DOMAIN writes
      BY DEF GoodWrites, SignedWrites
    <2>2. Row("credentials") \in Present
      BY DEF StoresInv, StoresIInv, IdsAreNew
    <2>3. CASE s \in DOMAIN writes
      BY <1>1, <2>1, <2>2, <2>3
    <2>4. CASE s \notin DOMAIN writes
      <3>1. s \in In("sessions", "active")
        BY <1>1, <2>4 DEF In
      <3>2. rows[Row("credentials")].trail \subseteq rows[s].trail
        BY <3>1 DEF StoresIInv, ResetSignsOut
      <3>3. Row("credentials") \notin DOMAIN writes
        BY <2>1, <2>4, <3>1
      <3> QED
        BY <1>1, <2>2, <2>4, <3>2, <3>3
    <2> QED
      BY <2>3, <2>4
  <1> QED
    BY <1>8, <1>9, <1>10, <1>11, <1>12, <1>13, <1>14 DEF StoresIInv, StoresInv

(* Only the undoing of a failed publish takes a row out of its last status. *)
KeepsLast ==
  \A k \in Present :
    (rows[k].status \in LastStatuses /\ k \in DOMAIN rows' /\ rows'[k] # rows[k]) =>
      \E c \in Calls : pc[c] # "failed" /\ pc'[c] = "failed" /\ k \in Wrote(c)

(* No writer loads a row in its last status, and who has loaded an earlier
   one finds another version. *)
LEMMA ApplyKeepsLast ==
  ASSUME StoresInv, NEW c \in Calls, pc[c] = "decided",
         NEW writes, SoundWrites(c, writes), rows' = Put(writes)
  PROVE  KeepsLast
  <1> SUFFICES ASSUME NEW k \in Present, rows[k].status \in LastStatuses, rows'[k] # rows[k]
               PROVE  FALSE
    BY DEF KeepsLast
  <1>1. k \in DOMAIN writes
    BY DEF Put
  <1>2. k \in RowKeys /\ k[2] # c
    BY <1>1, OwnRowsNew DEF SoundWrites
  <1>3. k \in DOMAIN loaded[c] /\ rows[k].version = loaded[c][k].version
    BY <1>1, <1>2 DEF SoundWrites
  <1>4. /\ InOrder(k, rows[k]) /\ InOrder(k, loaded[c][k])
        /\ <<op[c], k[1], loaded[c][k].status>> \in Reads
    BY <1>3 DEF StoresInv, StatusesInOrder
  <1>5. rows[k].version = 2 /\ k[1] # "credentials"
    BY <1>4 DEF InOrder, LastStatuses
  <1>6. loaded[c][k].version # 2
    BY <1>4, <1>5 DEF InOrder, Reads
  <1> QED
    BY ONLY <1>3, <1>5, <1>6, Zenon

(* Both of the step that applies a change. *)
LEMMA ApplyStep ==
  ASSUME StoresIInv, NEW c \in Calls, pc[c] = "decided",
         NEW writes, GoodWrites(c, writes), NEW events \in Nat \ {0},
         rows' = Put(writes),
         undo' = [undo EXCEPT ![c] =
                    [k \in DOMAIN writes |-> IF k \in Present THEN rows[k] ELSE Absent]],
         left' = [left EXCEPT ![c] = events],
         pc' = [pc EXCEPT ![c] = "publishing"],
         UNCHANGED <<op, loaded, sent, pruned, armed, armings>>
  PROVE  StoresIInv' /\ KeepsLast
  <1>1. StoresInv /\ SoundWrites(c, writes)
    BY DEF StoresIInv, GoodWrites
  <1>2. KeepsLast
    BY <1>1, ApplyKeepsLast
  <1>3. StoresIInv'
    BY ApplyKeeps
  <1> QED
    BY <1>2, <1>3

(* A writer refuses, or applies such a change. *)
LEMMA CommitKeeps ==
  ASSUME StoresIInv, NEW c \in Calls, pc[c] = "decided", NEW accepted \in BOOLEAN, NEW writes,
         NEW events, Commit(c, accepted, writes, events),
         accepted => GoodWrites(c, writes) /\ events \in Nat \ {0}
  PROVE  StoresIInv' /\ KeepsLast
  <1>1. CASE accepted
    BY <1>1, ApplyStep DEF Commit, faults
  <1>2. CASE ~accepted
    BY <1>2, RefuseKeeps DEF Commit, KeepsLast
  <1> QED
    BY <1>1, <1>2

(* The next version of a loaded row that is current. *)
LEMMA SavedSound ==
  ASSUME StoresInv, NEW c \in Calls, Current(c), NEW k \in DOMAIN loaded[c], NEW s \in Statuses,
         IF k[1] \in {"credentials", "identities"} THEN s = "active" ELSE s \in LastStatuses
  PROVE  /\ k \in RowKeys /\ k \in Present /\ rows[k].version = loaded[c][k].version
         /\ Saved(loaded[c][k], s, c) \in Rows
         /\ Saved(loaded[c][k], s, c).version = loaded[c][k].version + 1
         /\ Saved(loaded[c][k], s, c).status = s
         /\ c \in Saved(loaded[c][k], s, c).trail
         /\ loaded[c][k].trail \subseteq Saved(loaded[c][k], s, c).trail
         /\ InOrder(k, Saved(loaded[c][k], s, c))
  <1> DEFINE row == loaded[c][k]
             w == Saved(row, s, c)
  <1>1. k \in RowKeys /\ row \in Rows
    BY DEF StoresInv, StoresTypeOK, Maps
  <1>2. k \in Present /\ rows[k].version = row.version
    BY DEF Current
  <1>3. InOrder(k, row) /\ <<op[c], k[1], row.status>> \in Reads
    BY DEF StoresInv, StatusesInOrder
  <1> HIDE DEF row
  <1>4. row.version \in Nat /\ row.status \in Statuses /\ row.trail \subseteq Calls
    BY <1>1 DEF Rows
  <1>5. w = [version |-> row.version + 1, status |-> s, trail |-> row.trail \cup {c}]
    BY DEF Saved
  <1> HIDE DEF w
  <1>6. w.version = row.version + 1 /\ w.status = s /\ w.trail = row.trail \cup {c}
    BY ONLY <1>5
  <1>7. w \in Rows
    <2>1. row.version + 1 \in Nat /\ row.trail \cup {c} \in SUBSET Calls
      BY <1>4
    <2> QED
      BY <1>5, <2>1 DEF Rows
  <1>8. row.version = 1 \/ k[1] = "credentials"
    BY <1>3 DEF InOrder, Reads
  <1>9. InOrder(k, w)
    BY <1>6, <1>8 DEF InOrder, LastStatuses
  <1> QED
    BY <1>1, <1>2, <1>6, <1>7, <1>9 DEF row, w

(* The call replaces rows it has loaded and that are current. *)
LEMMA GoodReplace ==
  ASSUME StoresInv, NEW c \in Calls, pc[c] = "decided", Current(c), NEW writes,
         DOMAIN writes \subseteq DOMAIN loaded[c],
         \A k \in DOMAIN writes : \E s \in Statuses :
           /\ IF k[1] \in {"credentials", "identities"} THEN s = "active" ELSE s \in LastStatuses
           /\ writes[k] = Saved(loaded[c][k], s, c),
         Row("credentials") \in DOMAIN writes => In("sessions", "active") \subseteq DOMAIN writes
  PROVE  GoodWrites(c, writes)
  <1>1. ASSUME NEW k \in DOMAIN writes
        PROVE  /\ k \in RowKeys /\ k \in DOMAIN loaded[c] /\ k \in Present
               /\ rows[k].version = loaded[c][k].version
               /\ writes[k] \in Rows /\ writes[k].version = loaded[c][k].version + 1
               /\ c \in writes[k].trail /\ loaded[c][k].trail \subseteq writes[k].trail
               /\ InOrder(k, writes[k])
               /\ IF k[1] \in {"credentials", "identities"}
                    THEN writes[k].status = "active" ELSE writes[k].status \in LastStatuses
    <2> PICK s \in Statuses :
           /\ IF k[1] \in {"credentials", "identities"} THEN s = "active" ELSE s \in LastStatuses
           /\ writes[k] = Saved(loaded[c][k], s, c)
      OBVIOUS
    <2> QED
      BY SavedSound
  <1>2. SoundWrites(c, writes)
    BY <1>1 DEF SoundWrites
  <1>3. SoleWrites(writes)
    <2> SUFFICES ASSUME NEW k \in DOMAIN writes, Sole(k, writes[k]), k \notin PutBack
                 PROVE  Sole(k, rows[k])
      BY <1>1 DEF SoleWrites
    <2>1. rows[k] = loaded[c][k]
      BY <1>1, FoundAsLoaded
    <2>2. /\ <<op[c], k[1], loaded[c][k].status>> \in Reads
          /\ k[1] = "credentials" => k = Row("credentials")
      BY <1>1 DEF StoresInv, StatusesInOrder
    <2>3. k[1] = "memberships"
      BY <1>1, <2>2 DEF Sole, Reads, LastStatuses
    <2> QED
      BY <2>1, <2>2, <2>3 DEF Sole, Reads
  <1>4. SignedWrites(writes)
    BY <1>1 DEF SignedWrites, LastStatuses
  <1> QED
    BY <1>2, <1>3, <1>4 DEF GoodWrites

(* A row the call creates. *)
LEMMA NewSound ==
  ASSUME NEW c \in Calls, NEW t \in Tables, NEW s \in Statuses \ LastStatuses,
         t = "credentials" => s = "active"
  PROVE  /\ <<t, c>> \in RowKeys /\ New(s, c) \in Rows /\ New(s, c).status = s
         /\ c \in New(s, c).trail /\ InOrder(<<t, c>>, New(s, c))
  <1> DEFINE w == New(s, c)
  <1>1. w = [version |-> 1, status |-> s, trail |-> {c}]
    BY DEF New
  <1> HIDE DEF w
  <1>2. w.version = 1 /\ w.status = s /\ w.trail = {c}
    BY ONLY <1>1
  <1>3. w \in Rows
    BY <1>1 DEF Rows
  <1>4. InOrder(<<t, c>>, w)
    BY <1>2 DEF InOrder
  <1> QED
    BY <1>2, <1>3, <1>4 DEF w, RowKeys, Ids

(* A change may create one row more. *)
LEMMA GoodAlso ==
  ASSUME NEW c \in Calls, NEW writes, GoodWrites(c, writes), NEW t \in Tables, NEW row \in Rows,
         c \in row.trail, InOrder(<<t, c>>, row),
         \A j \in DOMAIN writes : j[1] # t \/ (j[2] # c /\ ~Sole(<<t, c>>, row)),
         Sole(<<t, c>>, row) => \A j \in Present : j[1] = t => ~Sole(j, rows[j]),
         t = "sessions" => /\ Row("credentials") \notin DOMAIN writes
                           /\ \/ Row("credentials") \in PutBack
                              \/ rows[Row("credentials")].trail \subseteq row.trail
  PROVE  GoodWrites(c, Also(writes, c, t, row))
  <1> DEFINE k == <<t, c>>
             all == Also(writes, c, t, row)
  <1>1. /\ DOMAIN all = DOMAIN writes \cup {k}
        /\ all[k] = row /\ \A j \in DOMAIN writes : j # k => all[j] = writes[j]
    BY DEF Also
  <1>2. k \notin DOMAIN writes /\ k[1] = t /\ k[2] = c /\ k \in RowKeys
    BY DEF RowKeys, Ids
  <1>3. k # Row("credentials")
    BY StoresAssumption DEF Row
  <1> HIDE DEF all, k
  <1>4. SoundWrites(c, all)
    <2>1. SoundWrites(c, writes) /\ InOrder(k, row)
      BY DEF GoodWrites, k
    <2> QED
      BY <1>1, <1>2, <2>1 DEF SoundWrites
  <1>5. SoleWrites(all)
    <2>1. SoleWrites(writes)
      BY DEF GoodWrites
    <2>2. \A j \in DOMAIN writes : j[1] # t \/ ~Sole(k, row)
      BY DEF k
    <2>3. Sole(k, row) => \A j \in Present : j[1] = t => ~Sole(j, rows[j])
      BY DEF k
    <2>4. \A j \in DOMAIN writes : all[j] = writes[j]
      BY <1>1, <1>2
    <2> SUFFICES ASSUME NEW i \in DOMAIN all, Sole(i, all[i])
                 PROVE  \/ i \in PutBack
                        \/ i \in Present /\ Sole(i, rows[i])
                        \/ /\ \A j \in Present : j[1] = i[1] => ~Sole(j, rows[j])
                           /\ \A j \in DOMAIN all : j[1] = i[1] /\ Sole(j, all[j]) => j = i
      BY DEF SoleWrites
    <2>5. CASE i = k
      BY <1>1, <1>2, <2>2, <2>3, <2>5
    <2>6. CASE i \in DOMAIN writes
      BY <1>1, <1>2, <2>1, <2>2, <2>4, <2>6 DEF SoleWrites
    <2> QED
      BY <1>1, <2>5, <2>6
  <1>6. SignedWrites(all)
    <2>1. SignedWrites(writes)
      BY DEF GoodWrites
    <2> QED
      BY <1>1, <1>2, <1>3, <2>1 DEF SignedWrites
  <1> QED
    BY <1>4, <1>5, <1>6 DEF GoodWrites, all

(* A change may be the creation of one row. *)
LEMMA GoodAdd ==
  ASSUME NEW c \in Calls, NEW t \in Tables \ {"sessions"}, NEW s \in Statuses \ LastStatuses,
         t = "credentials" => s = "active",
         Sole(<<t, c>>, New(s, c)) => \A j \in Present : j[1] = t => ~Sole(j, rows[j])
  PROVE  GoodWrites(c, Add(c, t, New(s, c)))
  <1> DEFINE k == <<t, c>>
             writes == Add(c, t, New(s, c))
  <1>1. DOMAIN writes = {k} /\ writes[k] = New(s, c)
    BY DEF Add
  <1>2. k[1] = t /\ k[2] = c
    OBVIOUS
  <1>3. /\ k \in RowKeys /\ New(s, c) \in Rows
        /\ c \in New(s, c).trail /\ InOrder(k, New(s, c))
    BY NewSound
  <1>4. k # Row("credentials")
    BY StoresAssumption DEF Row
  <1>5. Sole(k, New(s, c)) => \A j \in Present : j[1] = t => ~Sole(j, rows[j])
    OBVIOUS
  <1> HIDE DEF writes, k
  <1>6. SoundWrites(c, writes)
    BY <1>1, <1>2, <1>3 DEF SoundWrites
  <1>7. SoleWrites(writes)
    BY <1>1, <1>2, <1>5 DEF SoleWrites
  <1>8. SignedWrites(writes)
    BY <1>1, <1>2, <1>4 DEF SignedWrites
  <1> QED
    BY <1>6, <1>7, <1>8 DEF GoodWrites, writes

-----------------------------------------------------------------------------
(* The writers.                                                            *)

(* The loaded rows in one last status: archive, close, revoke, withdraw,
   logout. *)
LEMMA GoodClosing ==
  ASSUME StoresInv, NEW c \in Calls, pc[c] = "decided", Current(c), NEW s \in LastStatuses,
         op[c] \in {"archive", "close", "revoke", "withdraw", "accept", "logout"}
  PROVE  /\ GoodWrites(c, Replace(c, s))
         /\ \A k \in DOMAIN loaded[c] : k[1] \in {"documents", "jobs", "memberships",
                                                 "invitations", "sessions"}
         /\ op[c] = "accept" => \A k \in DOMAIN loaded[c] : k[1] = "invitations"
  <1> DEFINE writes == Replace(c, s)
  <1>1. /\ DOMAIN writes = DOMAIN loaded[c]
        /\ \A k \in DOMAIN loaded[c] : writes[k] = Saved(loaded[c][k], s, c)
    BY DEF Replace
  <1>2. s \in Statuses
    BY DEF Statuses, LastStatuses
  <1>3. \A k \in DOMAIN loaded[c] : <<op[c], k[1], loaded[c][k].status>> \in Reads
    BY DEF StoresInv, StatusesInOrder
  <1>4. \A k \in DOMAIN loaded[c] :
          /\ k[1] \in {"documents", "jobs", "memberships", "invitations", "sessions"}
          /\ op[c] = "accept" => k[1] = "invitations"
    BY <1>3 DEF Reads
  <1>5. Row("credentials") \notin DOMAIN loaded[c]
    BY <1>4 DEF Row
  <1> HIDE DEF writes
  <1>6. GoodWrites(c, writes)
    BY <1>1, <1>2, <1>4, <1>5, GoodReplace
  <1> QED
    BY <1>4, <1>6 DEF writes

LEMMA DocumentWriterKeeps ==
  ASSUME StoresIInv, NEW c \in Calls, DocumentWriter(c)
  PROVE  StoresIInv' /\ KeepsLast
  <1>0. pc[c] = "decided" /\ StoresInv
    BY DEF DocumentWriter, Decided, StoresIInv
  <1>1. CASE Commit(c, TRUE, Add(c, "documents", New("active", c)), 1)
    <2>1. GoodWrites(c, Add(c, "documents", New("active", c)))
      BY GoodAdd DEF Tables, Statuses, LastStatuses, Sole
    <2> QED
      BY <1>0, <1>1, <2>1, ApplyStep DEF Commit, faults
  <1>2. CASE op[c] = "archive" /\ Commit(c, Current(c), Replace(c, "archived"), 1)
    <2>1. Current(c) => GoodWrites(c, Replace(c, "archived"))
      BY <1>0, <1>2, GoodClosing DEF LastStatuses
    <2>2. Current(c) \in BOOLEAN
      BY DEF Current
    <2> QED
      BY <1>0, <1>2, <2>1, <2>2, CommitKeeps
  <1> QED
    BY <1>1, <1>2 DEF DocumentWriter, Decided

LEMMA JobWriterKeeps ==
  ASSUME StoresIInv, NEW c \in Calls, JobWriter(c)
  PROVE  StoresIInv' /\ KeepsLast
  <1>0. pc[c] = "decided" /\ StoresInv
    BY DEF JobWriter, Decided, StoresIInv
  <1>1. CASE Commit(c, NoOpenJob, Add(c, "jobs", New("open", c)), 1)
    <2>1. NoOpenJob => GoodWrites(c, Add(c, "jobs", New("open", c)))
      <3> SUFFICES ASSUME NoOpenJob PROVE GoodWrites(c, Add(c, "jobs", New("open", c)))
        OBVIOUS
      <3>1. \A j \in Present : j[1] = "jobs" => ~Sole(j, rows[j])
        BY DEF NoOpenJob, In, Sole
      <3> QED
        BY <3>1, GoodAdd DEF Tables, Statuses, LastStatuses
    <2>2. NoOpenJob \in BOOLEAN
      BY DEF NoOpenJob
    <2> QED
      BY <1>0, <1>1, <2>1, <2>2, CommitKeeps
  <1>2. CASE Commit(c, TRUE, Add(c, "jobs", New("no subject", c)), 1)
    <2> DEFINE writes == Add(c, "jobs", New("no subject", c))
    <2>1. GoodWrites(c, writes)
      BY GoodAdd DEF Tables, Statuses, LastStatuses, Sole, New
    <2>2. Commit(c, TRUE, writes, 1)
      BY <1>2
    <2> HIDE DEF writes
    <2> QED
      BY <1>0, <2>1, <2>2, ApplyStep DEF Commit, faults
  <1>3. CASE op[c] = "close" /\ Commit(c, Current(c), Replace(c, "closed"), 1)
    <2>1. Current(c) => GoodWrites(c, Replace(c, "closed"))
      BY <1>0, <1>3, GoodClosing DEF LastStatuses
    <2>2. Current(c) \in BOOLEAN
      BY DEF Current
    <2> QED
      BY <1>0, <1>3, <2>1, <2>2, CommitKeeps
  <1> QED
    BY <1>1, <1>2, <1>3 DEF JobWriter, Decided

LEMMA OrganizationWriterKeeps ==
  ASSUME StoresIInv, NEW c \in Calls, OrganizationWriter(c)
  PROVE  StoresIInv' /\ KeepsLast
  <1> DEFINE free == Table("organizations") = {}
             first == Add(c, "organizations", New("active", c))
             writes == Also(first, c, "memberships", New("owner", c))
  <1>1. pc[c] = "decided" /\ Commit(c, free, writes, 2)
    BY DEF OrganizationWriter, Decided
  <1>2. ASSUME free PROVE GoodWrites(c, writes)
    <2>1. \A j \in Present : j[1] # "organizations"
      BY <1>2 DEF Table
    <2>2. GoodWrites(c, first)
      BY <2>1, GoodAdd DEF Tables, Statuses, LastStatuses
    <2>3. DOMAIN first = {<<"organizations", c>>}
      BY DEF Add
    <2>4. /\ New("owner", c) \in Rows /\ New("owner", c).status = "owner"
          /\ c \in New("owner", c).trail /\ InOrder(<<"memberships", c>>, New("owner", c))
      BY NewSound DEF Tables, Statuses, LastStatuses
    <2>5. ~Sole(<<"memberships", c>>, New("owner", c))
      BY <2>4 DEF Sole
    <2>6. \A j \in DOMAIN first : j[1] # "memberships"
      BY <2>3
    <2> HIDE DEF first
    <2> QED
      BY <2>2, <2>4, <2>5, <2>6, GoodAlso DEF Tables
  <1>3. free \in BOOLEAN
    OBVIOUS
  <1> HIDE DEF free, writes
  <1> QED
    BY <1>1, <1>2, <1>3, CommitKeeps

LEMMA MembershipWriterKeeps ==
  ASSUME StoresIInv, NEW c \in Calls, MembershipWriter(c)
  PROVE  StoresIInv' /\ KeepsLast
  <1>0. pc[c] = "decided" /\ StoresInv
    BY DEF MembershipWriter, Decided, StoresIInv
  <1>1. CASE Commit(c, NoMembership, Add(c, "memberships", New("active", c)), 1)
    <2>1. NoMembership => GoodWrites(c, Add(c, "memberships", New("active", c)))
      <3> SUFFICES ASSUME NoMembership
                   PROVE  GoodWrites(c, Add(c, "memberships", New("active", c)))
        OBVIOUS
      <3>1. \A j \in Present : j[1] = "memberships" => ~Sole(j, rows[j])
        BY DEF NoMembership, In, Sole
      <3> QED
        BY <3>1, GoodAdd DEF Tables, Statuses, LastStatuses
    <2>2. NoMembership \in BOOLEAN
      BY DEF NoMembership
    <2> QED
      BY <1>0, <1>1, <2>1, <2>2, CommitKeeps
  <1>2. CASE op[c] = "revoke" /\ Commit(c, Current(c), Replace(c, "revoked"), 1)
    <2>1. Current(c) => GoodWrites(c, Replace(c, "revoked"))
      BY <1>0, <1>2, GoodClosing DEF LastStatuses
    <2>2. Current(c) \in BOOLEAN
      BY DEF Current
    <2> QED
      BY <1>0, <1>2, <2>1, <2>2, CommitKeeps
  <1> QED
    BY <1>1, <1>2 DEF MembershipWriter, Decided

LEMMA InvitationWriterKeeps ==
  ASSUME StoresIInv, NEW c \in Calls, InvitationWriter(c)
  PROVE  StoresIInv' /\ KeepsLast
  <1>0. pc[c] = "decided" /\ StoresInv
    BY DEF InvitationWriter, Decided, StoresIInv
  <1>1. CASE Commit(c, NonePending, Add(c, "invitations", New("pending", c)), 1)
    <2>1. NonePending => GoodWrites(c, Add(c, "invitations", New("pending", c)))
      <3> SUFFICES ASSUME NonePending
                   PROVE  GoodWrites(c, Add(c, "invitations", New("pending", c)))
        OBVIOUS
      <3>1. \A j \in Present : j[1] = "invitations" => ~Sole(j, rows[j])
        BY DEF NonePending, In, Sole
      <3> QED
        BY <3>1, GoodAdd DEF Tables, Statuses, LastStatuses
    <2>2. NonePending \in BOOLEAN
      BY DEF NonePending
    <2> QED
      BY <1>0, <1>1, <2>1, <2>2, CommitKeeps
  <1>2. CASE op[c] = "withdraw" /\ Commit(c, Current(c), Replace(c, "revoked"), 1)
    <2>1. Current(c) => GoodWrites(c, Replace(c, "revoked"))
      BY <1>0, <1>2, GoodClosing DEF LastStatuses
    <2>2. Current(c) \in BOOLEAN
      BY DEF Current
    <2> QED
      BY <1>0, <1>2, <2>1, <2>2, CommitKeeps
  <1> QED
    BY <1>1, <1>2 DEF InvitationWriter, Decided

LEMMA InvitationAcceptanceWriterKeeps ==
  ASSUME StoresIInv, NEW c \in Calls, InvitationAcceptanceWriter(c)
  PROVE  StoresIInv' /\ KeepsLast
  <1> DEFINE fine == Current(c) /\ DOMAIN loaded[c] \subseteq In("invitations", "pending")
                       /\ NoMembership
             first == Replace(c, "accepted")
             writes == Also(first, c, "memberships", New("active", c))
  <1>1. pc[c] = "decided" /\ op[c] = "accept" /\ Commit(c, fine, writes, 2)
    BY DEF InvitationAcceptanceWriter, Decided
  <1>2. ASSUME fine PROVE GoodWrites(c, writes)
    <2>1. \A j \in Present : j[1] = "memberships" => ~Sole(j, rows[j])
      BY <1>2 DEF NoMembership, In, Sole
    <2>2. GoodWrites(c, first) /\ \A k \in DOMAIN loaded[c] : k[1] = "invitations"
      BY <1>1, <1>2, GoodClosing DEF LastStatuses, StoresIInv
    <2>3. DOMAIN first = DOMAIN loaded[c]
      BY DEF Replace
    <2>4. /\ New("active", c) \in Rows
          /\ c \in New("active", c).trail /\ InOrder(<<"memberships", c>>, New("active", c))
      BY NewSound DEF Tables, Statuses, LastStatuses
    <2>5. \A j \in DOMAIN first : j[1] # "memberships"
      BY <2>2, <2>3
    <2> HIDE DEF first
    <2> QED
      BY <2>1, <2>2, <2>4, <2>5, GoodAlso DEF Tables
  <1>3. fine \in BOOLEAN
    BY DEF Current, NoMembership
  <1> HIDE DEF fine, writes
  <1> QED
    BY <1>1, <1>2, <1>3, CommitKeeps

LEMMA RegistrationWriterKeeps ==
  ASSUME StoresIInv, NEW c \in Calls, RegistrationWriter(c)
  PROVE  StoresIInv' /\ KeepsLast
  <1> DEFINE free == Table("credentials") = {Row("credentials")}
             first == Add(c, "identities", New("unverified", c))
             writes == Also(first, c, "credentials", New("active", c))
  <1>1. pc[c] = "decided" /\ Commit(c, free, writes, 1)
    BY DEF RegistrationWriter, Decided
  <1>2. ASSUME free PROVE GoodWrites(c, writes)
    <2>1. \A j \in Present : j[1] = "credentials" => ~Sole(j, rows[j])
      BY <1>2 DEF Table, Sole
    <2>2. GoodWrites(c, first)
      BY GoodAdd DEF Tables, Statuses, LastStatuses, Sole
    <2>3. DOMAIN first = {<<"identities", c>>}
      BY DEF Add
    <2>4. /\ New("active", c) \in Rows
          /\ c \in New("active", c).trail /\ InOrder(<<"credentials", c>>, New("active", c))
      BY NewSound DEF Tables, Statuses, LastStatuses
    <2>5. \A j \in DOMAIN first : j[1] # "credentials"
      BY <2>3
    <2> HIDE DEF first
    <2> QED
      BY <2>1, <2>2, <2>4, <2>5, GoodAlso DEF Tables
  <1>3. free \in BOOLEAN
    OBVIOUS
  <1> HIDE DEF free, writes
  <1> QED
    BY <1>1, <1>2, <1>3, CommitKeeps

LEMMA VerificationChallengeWriterKeeps ==
  ASSUME StoresIInv, NEW c \in Calls, VerificationChallengeWriter(c)
  PROVE  StoresIInv' /\ KeepsLast
  <1>1. GoodWrites(c, Add(c, "challenges", New("verification", c)))
    BY GoodAdd DEF Tables, Statuses, LastStatuses, Sole
  <1> QED
    BY <1>1, ApplyStep DEF VerificationChallengeWriter, Decided, Commit, faults

LEMMA VerificationWriterKeeps ==
  ASSUME StoresIInv, NEW c \in Calls, VerificationWriter(c)
  PROVE  StoresIInv' /\ KeepsLast
  <1> DEFINE writes == [k \in DOMAIN loaded[c] |->
                          Saved(loaded[c][k], IF k[1] = "identities" THEN "active" ELSE "consumed", c)]
  <1>1. pc[c] = "decided" /\ op[c] = "verify" /\ Commit(c, Current(c), writes, 1)
    BY DEF VerificationWriter, Decided
  <1>2. ASSUME Current(c) PROVE GoodWrites(c, writes)
    <2>1. StoresInv /\ \A k \in DOMAIN loaded[c] : <<op[c], k[1], loaded[c][k].status>> \in Reads
      BY DEF StoresIInv, StoresInv, StatusesInOrder
    <2>2. \A k \in DOMAIN loaded[c] : k[1] \in {"challenges", "identities"}
      BY <1>1, <2>1 DEF Reads
    <2>3. Row("credentials") \notin DOMAIN loaded[c]
      BY <2>2 DEF Row
    <2>4. ASSUME NEW k \in DOMAIN writes
          PROVE  \E s \in Statuses :
                   /\ IF k[1] \in {"credentials", "identities"} THEN s = "active"
                                                               ELSE s \in LastStatuses
                   /\ writes[k] = Saved(loaded[c][k], s, c)
      BY <2>2 DEF Statuses, LastStatuses
    <2>5. DOMAIN writes = DOMAIN loaded[c]
      OBVIOUS
    <2> HIDE DEF writes
    <2> QED
      BY <1>1, <1>2, <2>1, <2>3, <2>4, <2>5, GoodReplace
  <1>3. Current(c) \in BOOLEAN
    BY DEF Current
  <1> HIDE DEF writes
  <1> QED
    BY <1>1, <1>2, <1>3, CommitKeeps

LEMMA SessionRevocationWriterKeeps ==
  ASSUME StoresIInv, NEW c \in Calls, SessionRevocationWriter(c)
  PROVE  StoresIInv' /\ KeepsLast
  <1>1. Current(c) => GoodWrites(c, Replace(c, "revoked"))
    BY GoodClosing DEF LastStatuses, SessionRevocationWriter, Decided, StoresIInv
  <1>2. Current(c) \in BOOLEAN
    BY DEF Current
  <1> QED
    BY <1>1, <1>2, CommitKeeps DEF SessionRevocationWriter, Decided

(* A call has loaded finitely many rows. *)
LEMMA LoadedFinite ==
  ASSUME StoresInv, NEW c \in Calls
  PROVE  IsFiniteSet(DOMAIN loaded[c])
  <1>1. \A S, x : IsFiniteSet(S) => IsFiniteSet(S \cup {x})
    BY FS_AddElement
  <1>2. IsFiniteSet({})
    BY FS_EmptySet
  <1>3. IsFiniteSet({"documents", "jobs", "organizations"})
    <2>1. IsFiniteSet((({} \cup {"documents"}) \cup {"jobs"}) \cup {"organizations"})
      BY <1>1, <1>2
    <2>2. (({} \cup {"documents"}) \cup {"jobs"}) \cup {"organizations"}
            = {"documents", "jobs", "organizations"}
      OBVIOUS
    <2> QED
      BY <2>1, <2>2
  <1>4. IsFiniteSet({"documents", "jobs", "organizations", "memberships", "invitations",
                     "identities"})
    <2> DEFINE S == {"documents", "jobs", "organizations"}
    <2>1. IsFiniteSet(((S \cup {"memberships"}) \cup {"invitations"}) \cup {"identities"})
      BY <1>1, <1>3
    <2>2. ((S \cup {"memberships"}) \cup {"invitations"}) \cup {"identities"}
            = {"documents", "jobs", "organizations", "memberships", "invitations", "identities"}
      OBVIOUS
    <2> QED
      BY <2>1, <2>2
  <1>5. IsFiniteSet(Tables)
    <2> DEFINE S == {"documents", "jobs", "organizations", "memberships", "invitations",
                     "identities"}
    <2>1. IsFiniteSet(((S \cup {"credentials"}) \cup {"challenges"}) \cup {"sessions"})
      BY <1>1, <1>4
    <2>2. ((S \cup {"credentials"}) \cup {"challenges"}) \cup {"sessions"} = Tables
      BY DEF Tables
    <2> QED
      BY <2>1, <2>2
  <1>6. IsFiniteSet(Ids)
    BY <1>1, StoresAssumption DEF Ids
  <1>7. IsFiniteSet(RowKeys)
    BY <1>5, <1>6, FS_Product DEF RowKeys
  <1>8. DOMAIN loaded[c] \subseteq RowKeys
    BY DEF StoresInv, StoresTypeOK, Maps
  <1> QED
    BY <1>7, <1>8, FS_Subset

LEMMA SessionWriterKeeps ==
  ASSUME StoresIInv, NEW c \in Calls, SessionWriter(c)
  PROVE  StoresIInv' /\ KeepsLast
  <1> DEFINE key == Row("credentials")
             credential == loaded[c][key]
             evicted == DOMAIN loaded[c] \ {key}
             first == [k \in evicted |-> Saved(loaded[c][k], "revoked", c)]
             row == [version |-> 1, status |-> "active", trail |-> credential.trail \cup {c}]
             writes == Also(first, c, "sessions", row)
             events == 1 + Cardinality(evicted)
  <1>0. pc[c] = "decided" /\ op[c] = "login" /\ StoresInv
    BY DEF SessionWriter, Decided, StoresIInv
  <1>1. Commit(c, Current(c), writes, events)
    BY DEF SessionWriter
  <1>2. events \in Nat \ {0}
    <2>1. IsFiniteSet(evicted)
      BY <1>0, LoadedFinite, FS_Subset
    <2>2. Cardinality(evicted) \in Nat
      BY <2>1, FS_CardinalityType
    <2> HIDE DEF evicted
    <2> QED
      BY <2>2
  <1>3. /\ key \in DOMAIN loaded[c] /\ credential \in Rows
        /\ \A k \in DOMAIN loaded[c] : k \in RowKeys
        /\ \A k \in evicted : k[1] = "sessions"
    <2>1. key \in DOMAIN loaded[c]
      BY <1>0 DEF StoresInv, StatusesInOrder
    <2>2. \A k \in DOMAIN loaded[c] : k \in RowKeys /\ loaded[c][k] \in Rows
      BY <1>0 DEF StoresInv, StoresTypeOK, Maps
    <2>3. \A k \in DOMAIN loaded[c] : /\ <<op[c], k[1], loaded[c][k].status>> \in Reads
                                      /\ k[1] = "credentials" => k = key
      BY <1>0 DEF StoresInv, StatusesInOrder
    <2>4. \A k \in evicted : k[1] = "sessions"
      BY <1>0, <2>3 DEF Reads
    <2> QED
      BY <2>1, <2>2, <2>4
  <1>4. row \in Rows /\ c \in row.trail /\ InOrder(<<"sessions", c>>, row)
        /\ credential.trail \subseteq row.trail
    <2>1. credential.trail \subseteq Calls
      BY <1>3 DEF Rows
    <2> HIDE DEF credential
    <2>2. credential.trail \cup {c} \in SUBSET Calls
      BY <2>1
    <2>3. row \in Rows
      BY <2>2 DEF Rows, Statuses
    <2>4. row.version = 1 /\ row.status = "active" /\ row.trail = credential.trail \cup {c}
      OBVIOUS
    <2> HIDE DEF row
    <2> QED
      BY <2>3, <2>4 DEF InOrder, LastStatuses
  <1>5. ASSUME Current(c) PROVE GoodWrites(c, writes)
    <2>1. key \notin evicted /\ DOMAIN first = evicted
      OBVIOUS
    <2>2. GoodWrites(c, first)
      <3>1. \A k \in evicted : first[k] = Saved(loaded[c][k], "revoked", c)
        OBVIOUS
      <3>2. "revoked" \in Statuses /\ "revoked" \in LastStatuses
        BY DEF Statuses, LastStatuses
      <3>3. evicted \subseteq DOMAIN loaded[c]
        OBVIOUS
      <3> HIDE DEF first, evicted
      <3> QED
        BY <1>0, <1>3, <1>5, <2>1, <3>1, <3>2, <3>3, GoodReplace
    <2>3. \A j \in evicted : j[2] # c
      BY <1>0, <1>3, OwnRowsNew
    <2>4. ~Sole(<<"sessions", c>>, row)
      BY DEF Sole
    <2>5. key \in PutBack \/ rows[key].trail \subseteq row.trail
      <3>1. key \in Present /\ rows[key].version = credential.version
        BY <1>3, <1>5 DEF Current
      <3>2. ASSUME key \notin PutBack PROVE rows[key] = credential
        BY <1>0, <1>3, <3>1, <3>2, FoundAsLoaded
      <3> QED
        BY <1>4, <3>2
    <2>6. "sessions" \in Tables
      BY DEF Tables
    <2> HIDE DEF first, evicted, row
    <2> QED
      BY <1>4, <2>1, <2>2, <2>3, <2>4, <2>5, <2>6, GoodAlso
  <1>6. Current(c) \in BOOLEAN
    BY DEF Current
  <1> HIDE DEF writes, events
  <1> QED
    BY <1>0, <1>1, <1>2, <1>5, <1>6, CommitKeeps

LEMMA PasswordResetWriterKeeps ==
  ASSUME StoresIInv, NEW c \in Calls, PasswordResetWriter(c)
  PROVE  StoresIInv' /\ KeepsLast
  <1> DEFINE fine == Current(c) /\ AllListed(c)
             writes == [k \in DOMAIN loaded[c] |-> Saved(loaded[c][k], AfterReset(k[1]), c)]
             events == Cardinality(DOMAIN loaded[c]) - 1
  <1>0. pc[c] = "decided" /\ op[c] = "reset" /\ StoresInv
    BY DEF PasswordResetWriter, Decided, StoresIInv
  <1>1. Commit(c, fine, writes, events)
    BY DEF PasswordResetWriter
  <1>2. events \in Nat \ {0}
    <2> DEFINE a == Row("credentials")
               b == Row("challenges")
               all == DOMAIN loaded[c]
    <2>1. a \in all /\ b \in all
      BY <1>0 DEF StoresInv, StatusesInOrder
    <2>2. a # b
      BY DEF Row
    <2>3. IsFiniteSet(all)
      BY <1>0, LoadedFinite
    <2> HIDE DEF a, b, all
    <2>4. Cardinality({a}) = 1 /\ IsFiniteSet({a})
      BY FS_Singleton
    <2>5. Cardinality({a} \cup {b}) = Cardinality({a}) + 1
      <3>1. b \notin {a}
        BY <2>2
      <3> QED
        BY <2>4, <3>1, FS_AddElement
    <2>6. {a} \cup {b} \subseteq all
      BY <2>1
    <2>7. Cardinality({a} \cup {b}) <= Cardinality(all) /\ Cardinality(all) \in Nat
      BY <2>3, <2>6, FS_Subset, FS_CardinalityType
    <2>8. Cardinality(all) - 1 \in Nat \ {0}
      BY ONLY <2>4, <2>5, <2>7
    <2> QED
      BY <2>8 DEF all
  <1>3. ASSUME fine PROVE GoodWrites(c, writes)
    <2>1. \A k \in DOMAIN loaded[c] : <<op[c], k[1], loaded[c][k].status>> \in Reads
      BY <1>0 DEF StoresInv, StatusesInOrder
    <2>2. \A k \in DOMAIN loaded[c] :
            k[1] \in {"challenges", "credentials", "sessions", "identities"}
      BY <1>0, <2>1 DEF Reads
    <2>3. ASSUME NEW k \in DOMAIN loaded[c]
          PROVE  /\ AfterReset(k[1]) \in Statuses
                 /\ IF k[1] \in {"credentials", "identities"}
                      THEN AfterReset(k[1]) = "active" ELSE AfterReset(k[1]) \in LastStatuses
      BY <2>2 DEF AfterReset, Statuses, LastStatuses
    <2>4. /\ DOMAIN writes = DOMAIN loaded[c]
          /\ \A k \in DOMAIN loaded[c] : writes[k] = Saved(loaded[c][k], AfterReset(k[1]), c)
      OBVIOUS
    <2>5. In("sessions", "active") \subseteq DOMAIN loaded[c] /\ Current(c)
      BY <1>3 DEF AllListed
    <2> HIDE DEF writes
    <2>6. ASSUME NEW k \in DOMAIN writes
          PROVE  \E s \in Statuses :
                   /\ IF k[1] \in {"credentials", "identities"} THEN s = "active"
                                                               ELSE s \in LastStatuses
                   /\ writes[k] = Saved(loaded[c][k], s, c)
      BY <2>3, <2>4
    <2> QED
      BY <1>0, <2>4, <2>5, <2>6, GoodReplace
  <1>4. fine \in BOOLEAN
    BY DEF Current, AllListed
  <1> HIDE DEF fine, writes, events
  <1> QED
    BY <1>0, <1>1, <1>2, <1>3, <1>4, CommitKeeps

(* Whatever a writer does. *)
LEMMA WriteKeeps ==
  ASSUME StoresIInv, NEW c \in Calls, Write(c)
  PROVE  StoresIInv' /\ KeepsLast
  BY DocumentWriterKeeps, JobWriterKeeps, OrganizationWriterKeeps, MembershipWriterKeeps,
     InvitationWriterKeeps, InvitationAcceptanceWriterKeeps, RegistrationWriterKeeps,
     VerificationChallengeWriterKeeps, VerificationWriterKeeps, SessionWriterKeeps,
     SessionRevocationWriterKeeps, PasswordResetWriterKeeps DEF Write

-----------------------------------------------------------------------------
(* The commands.                                                           *)

(* Every command reads what Reads says. *)
LEMMA CommandKeeps ==
  ASSUME StoresIInv, NEW c \in Calls,
         \/ Create(c) \/ SubmitJob(c) \/ Register(c) \/ ArchiveDocument(c)
         \/ CloseJob(c) \/ RevokeMembership(c) \/ AnswerInvitation(c)
         \/ Issue(c) \/ Verify(c) \/ Login(c) \/ Logout(c) \/ Reset(c)
  PROVE  StoresIInv'
  <1>0. /\ {Row("credentials"), Row("challenges")} \subseteq Present
        /\ \A k \in Present : InOrder(k, rows[k])
    BY DEF StoresIInv, StoresInv, IdsAreNew, StatusesInOrder
  <1>1. ASSUME NEW command \in Commands \ {"login", "reset"}, Read(c, command, {})
        PROVE  StoresIInv'
    BY <1>1, ReadKeeps
  <1>2. CASE Create(c) \/ SubmitJob(c) \/ Register(c) \/ Issue(c)
    BY <1>1, <1>2 DEF Create, SubmitJob, Register, Issue, Commands, Creations
  <1>3. ASSUME NEW command \in Commands \ {"login", "reset"}, NEW table \in Tables \ {"credentials"},
               NEW status, <<command, table, status>> \in Reads, NEW k \in In(table, status),
               Read(c, command, {k})
        PROVE  StoresIInv'
    <2>1. k \in Present /\ k[1] = table /\ rows[k].status = status
      BY DEF In
    <2> QED
      BY <1>3, <2>1, ReadKeeps
  <1>4. CASE ArchiveDocument(c)
    <2>1. PICK k \in In("documents", "active") : Read(c, "archive", {k})
      BY <1>4 DEF ArchiveDocument
    <2>2. <<"archive", "documents", "active">> \in Reads
      BY DEF Reads
    <2> QED
      BY <1>3, <2>1, <2>2 DEF Commands, Tables
  <1>5. CASE CloseJob(c)
    <2>1. PICK k \in In("jobs", "open") : Read(c, "close", {k})
      BY <1>5 DEF CloseJob
    <2>2. <<"close", "jobs", "open">> \in Reads
      BY DEF Reads
    <2> QED
      BY <1>3, <2>1, <2>2 DEF Commands, Tables
  <1>6. CASE RevokeMembership(c)
    <2>1. PICK k \in In("memberships", "active") : Read(c, "revoke", {k})
      BY <1>6 DEF RevokeMembership
    <2>2. <<"revoke", "memberships", "active">> \in Reads
      BY DEF Reads
    <2> QED
      BY <1>3, <2>1, <2>2 DEF Commands, Tables
  <1>7. CASE AnswerInvitation(c)
    <2>1. PICK k \in In("invitations", "pending"), command \in {"withdraw", "accept"} :
            Read(c, command, {k})
      BY <1>7 DEF AnswerInvitation
    <2>2. <<command, "invitations", "pending">> \in Reads
      BY <2>1 DEF Reads
    <2> QED
      BY <1>3, <2>1, <2>2 DEF Commands, Tables
  <1>8. CASE Logout(c)
    <2>1. PICK k \in In("sessions", "active") : Read(c, "logout", {k})
      BY <1>8 DEF Logout
    <2>2. <<"logout", "sessions", "active">> \in Reads
      BY DEF Reads
    <2> QED
      BY <1>3, <2>1, <2>2 DEF Commands, Tables
  <1>9. CASE Verify(c)
    <2>1. PICK l \in In("challenges", "verification"), i \in In("identities", "pending") :
            Read(c, "verify", {i, l})
      BY <1>9 DEF Verify
    <2>2. /\ l \in Present /\ l[1] = "challenges" /\ rows[l].status = "verification"
          /\ i \in Present /\ i[1] = "identities" /\ rows[i].status = "pending"
      BY DEF In
    <2>3. /\ <<"verify", "challenges", "verification">> \in Reads
          /\ <<"verify", "identities", "pending">> \in Reads /\ "verify" \in Commands
      BY DEF Reads, Commands
    <2>4. \A k \in {i, l} : /\ k \in Present /\ <<"verify", k[1], rows[k].status>> \in Reads
                            /\ k[1] # "credentials"
      BY <2>2, <2>3
    <2> QED
      BY <2>1, <2>3, <2>4, ReadKeeps
  <1>10. CASE Login(c)
    <2>1. PICK evicted \in SUBSET In("sessions", "active") :
            Read(c, "login", {Row("credentials")} \cup evicted)
      BY <1>10 DEF Login
    <2>2. \A k \in evicted : k \in Present /\ k[1] = "sessions" /\ rows[k].status = "active"
      BY DEF In
    <2>3. Row("credentials")[1] = "credentials"
      BY DEF Row
    <2>4. rows[Row("credentials")].status = "active" /\ Row("credentials") \in Present
      BY <1>0, <2>3 DEF InOrder
    <2>5. /\ <<"login", "credentials", "active">> \in Reads
          /\ <<"login", "sessions", "active">> \in Reads /\ "login" \in Commands
      BY DEF Reads, Commands
    <2>6. \A k \in {Row("credentials")} \cup evicted :
            /\ k \in Present /\ <<"login", k[1], rows[k].status>> \in Reads
            /\ k[1] = "credentials" => k = Row("credentials")
      BY <2>2, <2>3, <2>4, <2>5
    <2> DEFINE keys == {Row("credentials")} \cup evicted
    <2>7. Row("credentials") \in keys
      OBVIOUS
    <2> HIDE DEF keys
    <2> QED
      BY <2>1, <2>5, <2>6, <2>7, ReadKeeps DEF keys
  <1>11. CASE Reset(c)
    <2> DEFINE keys == {Row("challenges"), Row("credentials")} \cup In("sessions", "active")
                         \cup ({Row("identities")} \cap In("identities", "pending"))
    <2>1. Read(c, "reset", keys) /\ rows[Row("challenges")].status = "reset"
      BY <1>11 DEF Reset
    <2>2. /\ Row("credentials")[1] = "credentials" /\ Row("challenges")[1] = "challenges"
      BY DEF Row
    <2>3. rows[Row("credentials")].status = "active"
      BY <1>0, <2>2 DEF InOrder
    <2>4. /\ <<"reset", "challenges", "reset">> \in Reads
          /\ <<"reset", "credentials", "active">> \in Reads
          /\ <<"reset", "sessions", "active">> \in Reads
          /\ <<"reset", "identities", "pending">> \in Reads /\ "reset" \in Commands
      BY DEF Reads, Commands
    <2>5. \A k \in keys :
            /\ k \in Present /\ <<"reset", k[1], rows[k].status>> \in Reads
            /\ k[1] = "credentials" => k = Row("credentials")
      BY <1>0, <2>1, <2>2, <2>3, <2>4 DEF In
    <2>6. Row("credentials") \in keys /\ Row("challenges") \in keys
      OBVIOUS
    <2> HIDE DEF keys
    <2> QED
      BY <2>1, <2>4, <2>5, <2>6, ReadKeeps
  <1> QED
    BY <1>2, <1>4, <1>5, <1>6, <1>7, <1>8, <1>9, <1>10, <1>11

-----------------------------------------------------------------------------
(* The theorems.                                                           *)

(* The rows the system starts with. *)
LEMMA InitKeeps ==
  ASSUME StoresInit
  PROVE  StoresIInv
  <1> PICK verified \in BOOLEAN :
        rows = [k \in {Row(t) : t \in SeedTables(verified)} |->
                  SeedRow(SeedStatus(k[1], verified))]
    BY DEF StoresInit
  <1>1. \A k \in Present : \E t \in SeedTables(verified) : k = Row(t)
    BY DEF Present
  <1>2. \A k \in Present : /\ k = Row(k[1]) /\ k[1] \in SeedTables(verified) /\ k[2] = Seed
    BY <1>1 DEF Row
  <1>3. SeedTables(verified) \subseteq Tables \ {"organizations", "memberships"}
    BY DEF SeedTables, Tables
  <1>4. \A k \in Present : rows[k] = SeedRow(SeedStatus(k[1], verified))
    BY DEF Present
  <1>5. ASSUME NEW k \in Present
        PROVE  /\ rows[k] \in Rows /\ rows[k].version = 1 /\ rows[k].trail = {}
               /\ rows[k].status = SeedStatus(k[1], verified)
               /\ rows[k].status \in {"open", "pending", "reset", "active"}
               /\ k[1] = "credentials" => rows[k].status = "active"
    <2> DEFINE s == SeedStatus(k[1], verified)
    <2>1. s \in {"open", "pending", "reset", "active"} /\ (k[1] = "credentials" => s = "active")
      BY DEF SeedStatus
    <2> HIDE DEF s
    <2>2. rows[k] = [version |-> 1, status |-> s, trail |-> {}]
      BY <1>4 DEF SeedRow, s
    <2>3. rows[k].version = 1 /\ rows[k].status = s /\ rows[k].trail = {}
      BY ONLY <2>2
    <2>4. rows[k] \in Rows
      <3>1. s \in Statuses /\ {} \in SUBSET Calls
        BY <2>1 DEF Statuses
      <3> QED
        BY <2>2, <3>1 DEF Rows
    <2> QED
      BY <2>1, <2>3, <2>4 DEF s
  <1>6. /\ \A c \in Calls : pc[c] = "idle" /\ op[c] = "none" /\ left[c] = 0
        /\ \A c \in Calls : DOMAIN loaded[c] = {} /\ DOMAIN undo[c] = {}
        /\ sent = {} /\ pruned = {}
    BY DEF StoresInit
  <1>7. StoresTypeOK
    <2>1. \A k \in Present : k \in RowKeys /\ rows[k] \in Rows
      BY <1>2, <1>3, <1>5 DEF RowKeys, Ids, Row
    <2>2. \A c \in Calls : Maps(loaded[c], Rows) /\ Maps(undo[c], Rows \cup {Absent})
      BY <1>6 DEF Maps
    <2>3. /\ pc \in [Calls -> Stages] /\ op \in [Calls -> Commands]
          /\ DOMAIN loaded = Calls /\ DOMAIN undo = Calls /\ left \in [Calls -> Nat]
      BY DEF StoresInit, Stages, Commands
    <2>4. armed \in [Points -> Nat] /\ armings \in 0 .. MaxFaults
      BY StoresAssumption DEF StoresInit
    <2> QED
      BY <1>6, <2>1, <2>2, <2>3, <2>4 DEF StoresTypeOK, Maps, Present
  <1>8. PutBack = {}
    BY <1>6 DEF PutBack
  <1>9. LostOnlyWhereUndone /\ VersionNamesRow
    BY <1>6 DEF LostOnlyWhereUndone, VersionNamesRow
  <1>10. IdsAreNew
    <2>1. \A c \in Calls, t \in Tables : <<t, c>> \notin Present
      <3>1. \A c \in Calls, t \in Tables : <<t, c>>[2] = c /\ c # Seed
        BY StoresAssumption
      <3> QED
        BY <1>2, <3>1
    <2>2. {Row("credentials"), Row("challenges")} \subseteq Present
      BY DEF Present, SeedTables
    <2> QED
      BY <1>6, <2>1, <2>2 DEF IdsAreNew, Wrote
  <1>11. StatusesInOrder
    <2>1. \A k \in Present : InOrder(k, rows[k])
      BY <1>5 DEF InOrder, LastStatuses
    <2> QED
      BY <1>6, <2>1 DEF StatusesInOrder, Wrote
  <1>12. UniqueUnlessUndone
    BY <1>2 DEF UniqueUnlessUndone
  <1>13. ResetSignsOut
    <2>1. rows[Row("credentials")].trail = {}
      BY <1>5, <1>10 DEF IdsAreNew
    <2> QED
      BY <2>1 DEF ResetSignsOut
  <1> QED
    BY <1>7, <1>9, <1>10, <1>11, <1>12, <1>13 DEF StoresIInv, StoresInv

(* Every step keeps the inductive invariant. *)
LEMMA NextKeeps ==
  ASSUME StoresIInv, [StoresNext]_storesVars
  PROVE  StoresIInv'
  <1>1. ASSUME NEW c \in Calls, PublishNext(c) PROVE StoresIInv'
    <2>1. "event.publish.before" \in Points
      BY DEF Points
    <2> QED
      BY <1>1, <2>1, PublishFailsKeeps, AcceptKeeps DEF PublishNext
  <1>2. ASSUME NEW c \in Calls, Confirm(c) PROVE StoresIInv'
    <2>1. "event.publish.after" \in Points
      BY DEF Points
    <2> QED
      BY <1>2, <2>1, PublishFailsKeeps, ConfirmKeeps DEF Confirm
  <1>3. CASE UNCHANGED storesVars
    <2>1. UNCHANGED <<rows, pc, op, loaded, undo, left, sent, pruned, armed, armings>>
      BY <1>3 DEF storesVars, calls, faults
    <2>2. StoresTypeOK'
      BY <2>1 DEF StoresIInv, StoresInv, StoresTypeOK, Maps
    <2> QED
      BY <2>1, <2>2, RowsAlone
  <1> QED
    BY <1>1, <1>2, <1>3, CommandKeeps, WriteKeeps, PruneKeeps, FaultsKeep DEF StoresNext

(* The inductive invariant, for any number of calls and faults. *)
LEMMA StoresIInvHolds == StoresSpec => []StoresIInv
  <1>1. StoresInit => StoresIInv
    BY InitKeeps
  <1>2. StoresIInv /\ [StoresNext]_storesVars => StoresIInv'
    BY NextKeeps
  <1> QED
    BY <1>1, <1>2, PTL DEF StoresSpec

(* A change that the in-memory writers have applied is lost only where the
   undoing of a failed publish has overwritten its row. *)
THEOREM StoresInvariant == StoresSpec => []StoresInv
  <1>1. StoresIInv => StoresInv
    BY DEF StoresIInv
  <1> QED
    BY <1>1, StoresIInvHolds, PTL

(* The in-memory checks keep what the unique indexes keep, but for rows that
   were put back. *)
THEOREM StoresKeepUnique == StoresSpec => []UniqueUnlessUndone
  <1>1. StoresIInv => UniqueUnlessUndone
    BY DEF StoresIInv
  <1> QED
    BY <1>1, StoresIInvHolds, PTL

(* No row leaves its last status but by the undoing of a failed publish. *)
THEOREM StoresStatusIsFinal == StoresSpec => FinalUnlessUndone
  <1> DEFINE A == \A k \in Present :
                    (rows[k].status \in LastStatuses /\ k \in DOMAIN rows' /\ rows'[k] # rows[k]) =>
                      \E c \in Calls : pc[c] # "failed" /\ pc'[c] = "failed" /\ k \in Wrote(c)
  <1>1. StoresIInv /\ [StoresNext]_storesVars => [A]_storesVars
    <2> SUFFICES ASSUME StoresIInv, StoresNext PROVE A
      OBVIOUS
    <2>1. ASSUME NEW c \in Calls, Write(c) PROVE A
      BY <2>1, WriteKeeps DEF KeepsLast
    <2>2. ASSUME NEW c \in Calls, pc[c] \in {"publishing", "accepted"}, PublishFails(c) PROVE A
      <3>1. pc[c] # "failed" /\ pc'[c] = "failed"
        BY <2>2 DEF PublishFails, StoresIInv, StoresInv, StoresTypeOK
      <3>2. \A k \in Present \ Wrote(c) : rows'[k] = rows[k]
        BY <2>2 DEF PublishFails, Restored, Wrote
      <3> QED
        BY <3>1, <3>2
    <2>3. CASE Prune
      BY <2>3 DEF Prune
    <2>4. ASSUME UNCHANGED rows PROVE A
      BY <2>4
    <2>5. ASSUME NEW c \in Calls, PublishNext(c) \/ Confirm(c) PROVE A
      BY <2>2, <2>4, <2>5 DEF PublishNext, Confirm
    <2>6. ASSUME NEW c \in Calls,
                 \/ Create(c) \/ SubmitJob(c) \/ Register(c) \/ ArchiveDocument(c)
                 \/ CloseJob(c) \/ RevokeMembership(c) \/ AnswerInvitation(c)
                 \/ Issue(c) \/ Verify(c) \/ Login(c) \/ Logout(c) \/ Reset(c)
          PROVE  UNCHANGED rows
      BY <2>6 DEF Create, SubmitJob, Register, ArchiveDocument, CloseJob, RevokeMembership,
         AnswerInvitation, Issue, Verify, Login, Logout, Reset, Read
    <2>7. ASSUME NEW p \in Points, Arm(p) \/ Disarm(p) PROVE UNCHANGED rows
      BY <2>7 DEF Arm, Disarm
    <2> HIDE DEF A
    <2> QED
      BY <2>1, <2>3, <2>4, <2>5, <2>6, <2>7 DEF StoresNext
  <1> QED
    BY <1>1, StoresIInvHolds, PTL DEF StoresSpec, FinalUnlessUndone

(* Also in memory a password reset ends every session of the old password,
   but for rows that were put back. *)
THEOREM StoresResetSignsOut == StoresSpec => []ResetSignsOut
  <1>1. StoresIInv => ResetSignsOut
    BY DEF StoresIInv
  <1> QED
    BY <1>1, StoresIInvHolds, PTL

-----------------------------------------------------------------------------
(* The windows of the rate limiter.                                        *)

(* A later time is in the same window or a later one. *)
LEMMA WindowsInOrder ==
  ASSUME NEW t \in Nat, NEW u \in Nat, t <= u
  PROVE  WindowStart(t) \in Nat /\ WindowStart(t) <= WindowStart(u)
  <1> DEFINE W == WindowLength
             q == t \div W
             r == u \div W
  <1>1. W \in Nat /\ W > 0
    BY RateLimitAssumption
  <1> HIDE DEF W
  <1>2. q \in Nat /\ r \in Nat /\ W * q <= t /\ u < W * r + W
    BY <1>1
  <1> HIDE DEF q, r
  <1>3. q <= r
    <2> SUFFICES ASSUME r + 1 <= q PROVE FALSE
      BY <1>2
    <2>1. W * (r + 1) <= W * q
      BY <1>1, <1>2
    <2> QED
      BY <1>1, <1>2, <2>1
  <1>4. q * W \in Nat /\ q * W <= r * W
    BY <1>1, <1>2, <1>3
  <1> QED
    BY <1>4 DEF WindowStart, q, r, W

-----------------------------------------------------------------------------
(* The rate limiter.                                                       *)

RateInv == RateTypeOK /\ CountsCover /\ AdmittedWithinLimit

LEMMA BucketExists ==
  ASSUME RateTypeOK, NEW r \in Requests, Consuming(r)
  PROVE  /\ Bucket(r) \in Buckets
         /\ LimitOf[Bucket(r)[1]] \in Nat \ {0}
  <1> DEFINE p == PoliciesOf[r][stage[r] + 1]
  <1>1. stage[r] + 1 \in 1 .. Len(PoliciesOf[r]) /\ PoliciesOf[r] \in Seq(DOMAIN LimitOf)
    BY RateLimitAssumption DEF RateTypeOK, Consuming
  <1>2. p \in ToSet(PoliciesOf[r]) /\ p \in DOMAIN LimitOf
    BY <1>1 DEF ToSet
  <1>3. Bucket(r) = <<p, KeyOf[p][r]>>
    BY DEF Bucket
  <1> HIDE DEF p
  <1>4. <<p, KeyOf[p][r]>> \in Buckets
    BY <1>2 DEF Buckets
  <1> QED
    BY <1>2, <1>3, <1>4, RateLimitAssumption

(* Counting a request in a bucket keeps what the counts cover, and after it
   the count is above the number that has passed. *)
LEMMA CountingKeeps ==
  ASSUME RateInv, mode \in {"memory", "postgres"}, now \in 0 .. MaxTime,
         NEW b \in Buckets, NEW t \in ReadTimes
  PROVE  LET start == WindowStart(t)
             counted == Counted(b, start)
         IN /\ start \in Starts /\ start \in DOMAIN counted
            /\ \A s \in DOMAIN counted :
                 /\ s \in Starts /\ counted[s] \in Nat
                 /\ passed[b][s] <= counted[s]
                 /\ mode = "memory" => s <= WindowStart(now)
            /\ \A s \in Starts \ DOMAIN counted :
                 passed[b][s] = 0 \/ (mode = "memory" /\ s < WindowStart(now))
            /\ passed[b][start] + 1 <= counted[start]
  <1> DEFINE start == WindowStart(t)
             counted == Counted(b, start)
             bucket == buckets[b]
             let == passed[b]
  <1>1. t \in 0 .. MaxTime /\ (mode = "memory" => t = now)
    BY RateLimitAssumption DEF ReadTimes
  <1>2. start \in Starts /\ start \in Nat
    BY <1>1, WindowsInOrder DEF Starts
  <1>3. mode = "memory" => start = WindowStart(now)
    BY <1>1
  <1>4. WindowStart(now) \in Nat /\ \A s \in Starts : s \in Nat
    BY WindowsInOrder, RateLimitAssumption DEF Starts
  <1>5. /\ \A s \in DOMAIN bucket : s \in Starts /\ bucket[s] \in Nat /\ let[s] <= bucket[s]
                                     /\ (mode = "memory" => s <= WindowStart(now))
        /\ \A s \in Starts \ DOMAIN bucket :
             let[s] = 0 \/ (mode = "memory" /\ s < WindowStart(now))
        /\ \A s \in Starts : let[s] \in Nat
    BY DEF RateInv, RateTypeOK, CountsCover
  <1>6. counted = IF mode = "memory"
                  THEN IF start \in DOMAIN bucket
                       THEN [bucket EXCEPT ![start] = @ + 1] ELSE [s \in {start} |-> 1]
                  ELSE [s \in DOMAIN bucket \cup {start} |->
                          IF s \in DOMAIN bucket
                          THEN bucket[s] + (IF s = start THEN 1 ELSE 0) ELSE 1]
    BY DEF Counted, MemoryBucket, PostgresBucket
  <1> HIDE DEF start, counted, bucket, let
  <1>7. CASE mode = "memory" /\ start \in DOMAIN bucket
    BY <1>2, <1>3, <1>4, <1>5, <1>6, <1>7 DEF start, counted, let
  <1>8. CASE mode = "memory" /\ start \notin DOMAIN bucket
    BY <1>2, <1>3, <1>4, <1>5, <1>6, <1>8 DEF start, counted, let
  <1>9. CASE mode = "postgres"
    BY <1>2, <1>3, <1>4, <1>5, <1>6, <1>9 DEF start, counted, let
  <1> QED
    BY <1>7, <1>8, <1>9

(* A bucket that is replaced by one with the same properties. *)
LEMMA BucketReplaced ==
  ASSUME RateInv, NEW b \in Buckets, NEW counted,
         buckets' = [buckets EXCEPT ![b] = counted], UNCHANGED <<stage, passed, mode, now>>,
         turned' \subseteq Requests,
         \A s \in DOMAIN counted :
           /\ s \in Starts /\ counted[s] \in Nat
           /\ passed[b][s] <= counted[s]
           /\ mode = "memory" => s <= WindowStart(now),
         \A s \in Starts \ DOMAIN counted :
           passed[b][s] = 0 \/ (mode = "memory" /\ s < WindowStart(now))
  PROVE  RateInv'
  <1>1. /\ DOMAIN buckets' = Buckets /\ buckets'[b] = counted
        /\ \A c \in Buckets \ {b} : buckets'[c] = buckets[c]
    BY DEF RateInv, RateTypeOK
  <1>2. RateTypeOK'
    BY <1>1 DEF RateInv, RateTypeOK
  <1>3. CountsCover'
    BY <1>1 DEF RateInv, CountsCover, WindowStart
  <1>4. AdmittedWithinLimit'
    BY DEF RateInv, AdmittedWithinLimit
  <1> QED
    BY <1>2, <1>3, <1>4 DEF RateInv

LEMMA ConsumeKeeps ==
  ASSUME RateInv, mode \in {"memory", "postgres"}, now \in 0 .. MaxTime,
         NEW r \in Requests, Consume(r), UNCHANGED <<mode, now>>
  PROVE  RateInv' /\ \A q \in Requests : Admitted(q) => Admitted(q)'
  <1> DEFINE b == Bucket(r)
  <1>1. PICK t \in ReadTimes :
          LET start == WindowStart(t)
              counted == Counted(b, start)
              allowed == counted[start] <= LimitOf[b[1]]
          IN /\ buckets' = [buckets EXCEPT ![b] = counted]
             /\ \/ /\ allowed
                   /\ stage' = [stage EXCEPT ![r] = @ + 1]
                   /\ passed' = [passed EXCEPT ![b][start] = @ + 1]
                   /\ UNCHANGED turned
                \/ /\ ~allowed
                   /\ turned' = turned \cup {r}
                   /\ UNCHANGED <<stage, passed>>
    BY DEF Consume
  <1> DEFINE start == WindowStart(t)
             counted == Counted(b, start)
  <1>2. b \in Buckets /\ LimitOf[b[1]] \in Nat \ {0} /\ Consuming(r)
    BY BucketExists DEF RateInv, Consume
  <1>3. /\ start \in Starts /\ start \in DOMAIN counted
        /\ \A s \in DOMAIN counted :
             /\ s \in Starts /\ counted[s] \in Nat
             /\ passed[b][s] <= counted[s]
             /\ mode = "memory" => s <= WindowStart(now)
        /\ \A s \in Starts \ DOMAIN counted :
             passed[b][s] = 0 \/ (mode = "memory" /\ s < WindowStart(now))
        /\ passed[b][start] + 1 <= counted[start]
    BY <1>2, CountingKeeps
  <1>4. \/ /\ counted[start] <= LimitOf[b[1]]
           /\ stage' = [stage EXCEPT ![r] = @ + 1]
           /\ passed' = [passed EXCEPT ![b][start] = @ + 1]
           /\ UNCHANGED turned
        \/ /\ turned' = turned \cup {r}
           /\ UNCHANGED <<stage, passed>>
    BY <1>1
  <1>5. buckets' = [buckets EXCEPT ![b] = counted]
    BY <1>1
  <1> HIDE DEF b, start, counted
  <1>6. CASE turned' = turned \cup {r} /\ UNCHANGED <<stage, passed>>
    <2>1. turned' \subseteq Requests
      BY <1>6 DEF RateInv, RateTypeOK
    <2> QED
      BY <1>2, <1>3, <1>5, <1>6, <2>1, BucketReplaced DEF Admitted
  <1>7. CASE /\ counted[start] <= LimitOf[b[1]]
             /\ stage' = [stage EXCEPT ![r] = @ + 1]
             /\ passed' = [passed EXCEPT ![b][start] = @ + 1]
             /\ UNCHANGED turned
    <2>1. /\ DOMAIN buckets' = Buckets /\ buckets'[b] = counted
          /\ \A c \in Buckets \ {b} : buckets'[c] = buckets[c]
      BY <1>2, <1>5 DEF RateInv, RateTypeOK
    <2>2. /\ passed' \in [Buckets -> [Starts -> Nat]]
          /\ passed'[b][start] = passed[b][start] + 1
          /\ \A s \in Starts \ {start} : passed'[b][s] = passed[b][s]
          /\ \A c \in Buckets \ {b} : passed'[c] = passed[c]
      BY <1>2, <1>3, <1>7 DEF RateInv, RateTypeOK
    <2>3. /\ stage' \in [Requests -> Nat] /\ stage[r] < Len(PoliciesOf[r])
          /\ stage'[r] = stage[r] + 1
          /\ \A q \in Requests \ {r} : stage'[q] = stage[q]
          /\ \A q \in Requests : stage[q] \in Nat /\ stage[q] <= Len(PoliciesOf[q])
          /\ Len(PoliciesOf[r]) \in Nat
      BY <1>2, <1>7, RateLimitAssumption DEF RateInv, RateTypeOK, Consuming
    <2>4. RateTypeOK'
      <3>1. \A q \in Requests : stage'[q] <= Len(PoliciesOf[q])
        BY <2>3
      <3>2. \A c \in Buckets : \A s \in DOMAIN buckets'[c] : s \in Starts /\ buckets'[c][s] \in Nat
        BY <1>3, <2>1 DEF RateInv, RateTypeOK
      <3> QED
        BY <1>7, <2>1, <2>2, <2>3, <3>1, <3>2 DEF RateInv, RateTypeOK
    <2>5. CountsCover'
      <3> SUFFICES ASSUME NEW c \in Buckets, NEW s \in Starts
                   PROVE  /\ s \in DOMAIN buckets'[c] =>
                               /\ passed'[c][s] <= buckets'[c][s]
                               /\ mode = "memory" => s <= WindowStart(now)
                          /\ s \notin DOMAIN buckets'[c] =>
                               passed'[c][s] = 0 \/ (mode = "memory" /\ s < WindowStart(now))
        BY DEF CountsCover, WindowStart
      <3>1. CASE c # b
        BY <2>1, <2>2, <3>1 DEF RateInv, CountsCover
      <3>2. CASE c = b /\ s # start
        BY <1>3, <2>1, <2>2, <3>2
      <3>3. CASE c = b /\ s = start
        BY <1>3, <2>1, <2>2, <3>3
      <3> QED
        BY <3>1, <3>2, <3>3
    <2>6. AdmittedWithinLimit'
      <3> SUFFICES ASSUME NEW c \in Buckets, NEW s \in Starts
                   PROVE  passed'[c][s] <= LimitOf[c[1]]
        BY DEF AdmittedWithinLimit
      <3>1. CASE c = b /\ s = start
        <4>1. passed[b][start] \in Nat /\ counted[start] \in Nat
          BY <1>2, <1>3 DEF RateInv, RateTypeOK
        <4> QED
          BY <1>2, <1>3, <1>7, <2>2, <3>1, <4>1
      <3>2. CASE c # b \/ s # start
        BY <2>2, <3>2 DEF RateInv, AdmittedWithinLimit
      <3> QED
        BY <3>1, <3>2
    <2>7. \A q \in Requests : Admitted(q) => Admitted(q)'
      BY <2>3 DEF Admitted
    <2> QED
      BY <2>4, <2>5, <2>6, <2>7 DEF RateInv
  <1> QED
    BY <1>4, <1>6, <1>7

LEMMA ConsumeFailsKeeps ==
  ASSUME RateInv, now \in 0 .. MaxTime,
         NEW r \in Requests, ConsumeFails(r), UNCHANGED <<mode, now>>
  PROVE  RateInv' /\ \A q \in Requests : Admitted(q) => Admitted(q)'
  <1> DEFINE b == Bucket(r)
             counted == PostgresBucket(b, WindowStart(now))
  <1>1. /\ mode = "postgres" /\ UNCHANGED <<stage, passed>> /\ turned' \subseteq Requests
        /\ buckets' = buckets \/ buckets' = [buckets EXCEPT ![b] = counted]
    BY DEF ConsumeFails, RateInv, RateTypeOK
  <1>2. \A q \in Requests : Admitted(q) => Admitted(q)'
    BY <1>1 DEF Admitted
  <1>3. CASE buckets' = buckets
    <2>1. RateTypeOK' /\ CountsCover' /\ AdmittedWithinLimit'
      BY <1>1, <1>3 DEF RateInv, RateTypeOK, CountsCover, AdmittedWithinLimit, WindowStart
    <2> QED
      BY <1>2, <2>1 DEF RateInv
  <1>4. CASE buckets' = [buckets EXCEPT ![b] = counted]
    <2>1. b \in Buckets
      BY BucketExists DEF RateInv, ConsumeFails
    <2>2. now \in ReadTimes /\ counted = Counted(b, WindowStart(now))
      BY <1>1, RateLimitAssumption DEF ReadTimes, Counted
    <2>3. /\ \A s \in DOMAIN counted :
               /\ s \in Starts /\ counted[s] \in Nat
               /\ passed[b][s] <= counted[s]
               /\ mode = "memory" => s <= WindowStart(now)
          /\ \A s \in Starts \ DOMAIN counted :
               passed[b][s] = 0 \/ (mode = "memory" /\ s < WindowStart(now))
      BY <1>1, <2>1, <2>2, CountingKeeps
    <2> HIDE DEF b, counted
    <2> QED
      BY <1>1, <1>2, <1>4, <2>1, <2>3, BucketReplaced
  <1> QED
    BY <1>1, <1>3, <1>4

(* The clock goes on: windows in memory end, none begins again. *)
LEMMA TickKeepsRates ==
  ASSUME RateInv, now \in 0 .. MaxTime, now' = now + 1, UNCHANGED <<mode, limits>>
  PROVE  RateInv'
  <1>1. now \in Nat /\ WindowStart(now) \in Nat /\ WindowStart(now)' \in Nat
        /\ WindowStart(now) <= WindowStart(now)'
    <2>1. now \in Nat /\ now + 1 \in Nat /\ now <= now + 1
      BY RateLimitAssumption
    <2>2. WindowStart(now)' = WindowStart(now + 1)
      BY DEF WindowStart
    <2> QED
      BY <2>1, <2>2, WindowsInOrder
  <1>2. \A s \in Starts : s \in Nat
    BY WindowsInOrder, RateLimitAssumption DEF Starts
  <1>3. RateTypeOK' /\ AdmittedWithinLimit'
    BY DEF RateInv, RateTypeOK, AdmittedWithinLimit, limits
  <1>4. CountsCover'
    <2> DEFINE v == WindowStart(now)
               w == WindowStart(now)'
    <2> HIDE DEF v, w
    <2>1. v \in Nat /\ w \in Nat /\ v <= w
      BY <1>1 DEF v, w
    <2> SUFFICES ASSUME NEW b \in Buckets, NEW s \in Starts
                 PROVE  /\ s \in DOMAIN buckets[b] =>
                             /\ passed[b][s] <= buckets[b][s]
                             /\ mode = "memory" => s <= w
                        /\ s \notin DOMAIN buckets[b] =>
                             passed[b][s] = 0 \/ (mode = "memory" /\ s < w)
      BY DEF CountsCover, limits, w
    <2>2. /\ s \in DOMAIN buckets[b] =>
               /\ passed[b][s] <= buckets[b][s]
               /\ mode = "memory" => s <= v
          /\ s \notin DOMAIN buckets[b] =>
               passed[b][s] = 0 \/ (mode = "memory" /\ s < v)
      BY DEF RateInv, CountsCover, v
    <2> QED
      BY <1>2, <2>1, <2>2
  <1> QED
    BY <1>3, <1>4 DEF RateInv

-----------------------------------------------------------------------------
(* Work survives its travels.                                              *)

(* What a key of an object tells is what was set. *)
LEMMA GetJson ==
  ASSUME NEW fields, NEW k \in DOMAIN fields
  PROVE  Get(Json(fields), k) = fields[k]
  BY DEF Get, Json

LEMMA ActorTravels ==
  ASSUME NEW a \in Actors \cup {None}
  PROVE  ActorIn(JsonOf(a)) = a
  <1>1. CASE a = None
    BY <1>1 DEF ActorIn, JsonOf
  <1>2. CASE a \in Actors
    <2>1. a # None /\ Json(a) # None
      BY <1>2, EnvelopeAssumption, ProvenanceAssumption
    <2>2. a = [kind |-> a.kind, identity |-> a.identity] /\ DOMAIN a = {"kind", "identity"}
      BY <1>2 DEF Actors
    <2>3. Get(Json(a), "kind") = a.kind /\ Get(Json(a), "identity") = a.identity
      BY <2>2, GetJson
    <2> QED
      BY <2>1, <2>2, <2>3 DEF ActorIn, JsonOf
  <1> QED
    BY <1>1, <1>2

LEMMA ReferenceTravels ==
  ASSUME NEW f \in References \cup {None}
  PROVE  ReferenceIn(JsonOf(f)) = f
  <1>1. CASE f = None
    BY <1>1 DEF ReferenceIn, JsonOf
  <1>2. CASE f \in References
    <2>1. f # None /\ Json(f) # None
      BY <1>2, EnvelopeAssumption, ProvenanceAssumption
    <2>2. f = [kind |-> f.kind, id |-> f.id] /\ DOMAIN f = {"kind", "id"}
      BY <1>2 DEF References
    <2>3. Get(Json(f), "kind") = f.kind /\ Get(Json(f), "id") = f.id
      BY <2>2, GetJson
    <2> QED
      BY <2>1, <2>2, <2>3 DEF ReferenceIn, JsonOf
  <1> QED
    BY <1>1, <1>2

(* The keys of the three objects within a work's. *)
LEMMA AttributionTravels ==
  ASSUME NEW a \in Attributions
  PROVE  a = [initiator |-> ActorIn(Get(AttributionOut(a), "initiator")),
              onBehalfOf |-> ActorIn(Get(AttributionOut(a), "on_behalf_of")),
              tenant |-> Get(AttributionOut(a), "tenant")]
  <1> DEFINE fields == [initiator |-> JsonOf(a.initiator), on_behalf_of |-> JsonOf(a.onBehalfOf),
                        tenant |-> a.tenant]
  <1>1. a = [initiator |-> a.initiator, onBehalfOf |-> a.onBehalfOf, tenant |-> a.tenant]
        /\ a.initiator \in Actors \cup {None} /\ a.onBehalfOf \in Actors \cup {None}
    BY DEF Attributions
  <1>2. DOMAIN fields = {"initiator", "on_behalf_of", "tenant"}
    OBVIOUS
  <1>3. fields["initiator"] = JsonOf(a.initiator) /\ fields["on_behalf_of"] = JsonOf(a.onBehalfOf)
        /\ fields["tenant"] = a.tenant
    OBVIOUS
  <1>4. AttributionOut(a) = Json(fields)
    BY DEF AttributionOut
  <1> HIDE DEF fields
  <1>5. /\ Get(AttributionOut(a), "initiator") = JsonOf(a.initiator)
        /\ Get(AttributionOut(a), "on_behalf_of") = JsonOf(a.onBehalfOf)
        /\ Get(AttributionOut(a), "tenant") = a.tenant
    BY <1>2, <1>3, <1>4, GetJson
  <1> QED
    BY <1>1, <1>5, ActorTravels

LEMMA ReplayTravels ==
  ASSUME NEW r \in Runs
  PROVE  r = [runId |-> Get(ReplayOut(r), "run_id"),
              source |-> ReferenceIn(Get(ReplayOut(r), "source"))]
  <1> DEFINE fields == [run_id |-> r.runId, source |-> Json(r.source)]
  <1>1. r = [runId |-> r.runId, source |-> r.source] /\ r.source \in References
    BY DEF Runs
  <1>2. DOMAIN fields = {"run_id", "source"}
        /\ fields["run_id"] = r.runId /\ fields["source"] = Json(r.source)
    OBVIOUS
  <1>3. ReplayOut(r) = Json(fields)
    BY DEF ReplayOut
  <1>4. JsonOf(r.source) = Json(r.source)
    BY <1>1, ProvenanceAssumption DEF JsonOf
  <1> HIDE DEF fields
  <1>5. Get(ReplayOut(r), "run_id") = r.runId /\ Get(ReplayOut(r), "source") = JsonOf(r.source)
    BY <1>2, <1>3, <1>4, GetJson
  <1> QED
    BY <1>1, <1>5, ReferenceTravels

(* What is written of a work reads as that work. *)
LEMMA WorkTravels ==
  ASSUME NEW w \in Works
  PROVE  /\ Snapshot(WorkOut(w)) = w
         /\ DOMAIN WorkOut(w) \subseteq WorkKeys /\ "attribution" \in DOMAIN WorkOut(w)
  <1> DEFINE replay == IF w.replay = None THEN None ELSE ReplayOut(w.replay)
             fields == [work_id |-> w.workId, correlation_id |-> w.correlationId,
                        correlation_source |-> w.correlationSource,
                        attribution |-> AttributionOut(w.attribution),
                        causation |-> JsonOf(w.causation), origin |-> w.origin,
                        depth |-> w.depth, replay |-> replay]
  <1>1. /\ w = [workId |-> w.workId, correlationId |-> w.correlationId,
                correlationSource |-> w.correlationSource, causation |-> w.causation,
                origin |-> w.origin, attribution |-> w.attribution, depth |-> w.depth,
                replay |-> w.replay]
        /\ w.attribution \in Attributions /\ w.causation \in References \cup {None}
        /\ w.replay \in Runs \cup {None}
    BY DEF Works
  <1>2. WorkOut(w) = Json(fields)
    BY DEF WorkOut
  <1>3. DOMAIN fields = WorkKeys
    BY DEF WorkKeys
  <1>4. /\ fields["work_id"] = w.workId /\ fields["correlation_id"] = w.correlationId
        /\ fields["correlation_source"] = w.correlationSource
        /\ fields["attribution"] = AttributionOut(w.attribution)
        /\ fields["causation"] = JsonOf(w.causation) /\ fields["origin"] = w.origin
        /\ fields["depth"] = w.depth /\ fields["replay"] = replay
    OBVIOUS
  <1> HIDE DEF fields, replay
  <1>5. AttributionOut(w.attribution) # None
    BY <1>1, EnvelopeAssumption
  <1>6. DOMAIN WorkOut(w) \subseteq WorkKeys /\ "attribution" \in DOMAIN WorkOut(w)
        /\ WorkOut(w)["attribution"] = AttributionOut(w.attribution)
    BY <1>2, <1>3, <1>4, <1>5 DEF Json, WorkKeys
  <1>7. /\ Get(WorkOut(w), "work_id") = w.workId
        /\ Get(WorkOut(w), "correlation_id") = w.correlationId
        /\ Get(WorkOut(w), "correlation_source") = w.correlationSource
        /\ Get(WorkOut(w), "causation") = JsonOf(w.causation)
        /\ Get(WorkOut(w), "origin") = w.origin
        /\ Get(WorkOut(w), "depth") = w.depth
        /\ Get(WorkOut(w), "replay") = replay
    BY <1>2, <1>3, <1>4, GetJson DEF WorkKeys
  <1>8. w.replay = (IF replay = None THEN None
                    ELSE [runId |-> Get(replay, "run_id"),
                          source |-> ReferenceIn(Get(replay, "source"))])
    <2>1. CASE w.replay = None
      BY <2>1 DEF replay
    <2>2. CASE w.replay # None
      <3>1. w.replay \in Runs
        BY <1>1, <2>2
      <3>2. replay = ReplayOut(w.replay) /\ replay # None
        BY <2>2, <3>1, EnvelopeAssumption DEF replay
      <3> QED
        BY <3>1, <3>2, ReplayTravels
    <2> QED
      BY <2>1, <2>2
  <1>9. w.causation = ReferenceIn(JsonOf(w.causation))
    BY <1>1, ReferenceTravels
  <1>10. w.attribution =
           [initiator |-> ActorIn(Get(WorkOut(w)["attribution"], "initiator")),
            onBehalfOf |-> ActorIn(Get(WorkOut(w)["attribution"], "on_behalf_of")),
            tenant |-> Get(WorkOut(w)["attribution"], "tenant")]
    BY <1>1, <1>6, AttributionTravels
  <1>11. Snapshot(WorkOut(w)) = w
    BY <1>1, <1>7, <1>8, <1>9, <1>10 DEF Snapshot
  <1> QED
    BY <1>6, <1>11

(* The HTTP layer's work is a valid root. *)
LEMMA HttpWorkIs ==
  ASSUME NEW r \in Requests
  PROVE  /\ HttpWork[r] =
              [workId |-> r, correlationId |-> r, correlationSource |-> "local",
               causation |-> None, origin |-> "request",
               attribution |-> [initiator |-> [kind |-> "anonymous", identity |-> None],
                                onBehalfOf |-> None, tenant |-> None],
               depth |-> 0, replay |-> None]
         /\ HttpWork[r] \in Works /\ ValidateWork(HttpWork[r], FALSE)
  <1> DEFINE who == [initiator |-> [kind |-> "anonymous", identity |-> None],
                     onBehalfOf |-> None, tenant |-> None]
             root == RootWork(r, "request", who)
             named == [workId |-> r, correlationId |-> r, correlationSource |-> "local",
                       causation |-> None, origin |-> "request", attribution |-> who,
                       depth |-> 0, replay |-> None]
             scope == [work |-> named, scopeId |-> r, attempt |-> 1, previousAttempt |-> None]
  <1>1. r \in IDs /\ r # None
    BY AuditAssumption, ProvenanceAssumption
  <1>2. who \in Attributions
    BY DEF Attributions, Actors
  <1> HIDE DEF who
  <1>3. root = [workId |-> r, correlationId |-> None, correlationSource |-> "local",
                causation |-> None, origin |-> "request", attribution |-> who,
                depth |-> 0, replay |-> None]
    BY DEF RootWork
  <1>4. ValidateWork(root, TRUE)
    BY <1>1, <1>2, <1>3, ProvenanceAssumption
       DEF ValidateWork, Chosen, ReplayValid, NotItself, DepthValid, Origins
  <1>5. ValidateWork(named, FALSE)
    BY <1>1, <1>2, ProvenanceAssumption
       DEF ValidateWork, Chosen, ReplayValid, NotItself, DepthValid, Origins
  <1>6. Named(root, r) = named
    <2>1. root.workId = r /\ root.correlationId = None /\ root.replay = None
      BY <1>3
    <2>2. OrElse(root.workId, r) = r /\ OrElse(root.correlationId, r) = r
      BY <2>1 DEF OrElse
    <2>3. [root EXCEPT !.workId = r, !.correlationId = r, !.replay = None] = named
      <3> DEFINE one == [root EXCEPT !.workId = r]
                 two == [one EXCEPT !.correlationId = r]
      <3>1. one = [workId |-> r, correlationId |-> None, correlationSource |-> "local",
                   causation |-> None, origin |-> "request", attribution |-> who,
                   depth |-> 0, replay |-> None]
        BY <1>3
      <3> HIDE DEF one
      <3>2. two = [workId |-> r, correlationId |-> r, correlationSource |-> "local",
                   causation |-> None, origin |-> "request", attribution |-> who,
                   depth |-> 0, replay |-> None]
        BY <3>1
      <3> HIDE DEF two
      <3>3. [two EXCEPT !.replay = None] = named
        BY <3>2
      <3> QED
        BY <3>3 DEF one, two
    <2> HIDE DEF root, named
    <2> QED
      BY <2>1, <2>2, <2>3 DEF Named
  <1>7. [kind |-> "scope", id |-> r] # None
    BY <1>1, ProvenanceAssumption DEF References
  <1>8. RestoreScope(scope)
    <2>1. /\ scope.scopeId = r /\ scope.work = named /\ scope.attempt = 1
          /\ scope.previousAttempt = None /\ scope.work.causation = None
      OBVIOUS
    <2>2. 1 \in 1 .. MaxCount
      BY ProvenanceAssumption
    <2> HIDE DEF scope, named
    <2>3. scope.work.causation # [kind |-> "scope", id |-> scope.scopeId]
      BY <1>7, <2>1
    <2> QED
      BY <1>1, <1>5, <2>1, <2>2, <2>3 DEF RestoreScope
  <1> HIDE DEF root
  <1>9. Emit(root, 1, None, {}, r) = scope
    BY <1>4, <1>6, <1>8, ProvenanceAssumption DEF Emit
  <1>10. Open(r, "request", who, r) = scope
    BY <1>9 DEF Open, root
  <1>11. HttpWork[r] = named
    BY <1>10 DEF HttpWork, who
  <1>12. named \in Works
    BY <1>1, <1>2 DEF Works, Origins
  <1> QED
    BY <1>5, <1>11, <1>12 DEF who

(* Work that is valid arrives as it was sent. *)
LEMMA ValidWorkArrives ==
  ASSUME NEW w \in Works, ValidateWork(w, FALSE)
  PROVE  WorkIn(WorkOut(w)) = w /\ DecodeWork(EncodeWork(w)) = w
  <1>1. /\ Snapshot(WorkOut(w)) = w
        /\ DOMAIN WorkOut(w) \subseteq WorkKeys /\ "attribution" \in DOMAIN WorkOut(w)
    BY WorkTravels
  <1>2. w.replay # None => w.replay.source # None
    BY ProvenanceAssumption DEF Works, Runs
  <1> QED
    BY <1>1, <1>2 DEF WorkIn, DecodeWork, EncodeWork

(* The object that tells a work is something. *)
LEMMA WorkOutIs ==
  ASSUME NEW w \in Works
  PROVE  WorkOut(w) # None
  <1> DEFINE replay == IF w.replay = None THEN None ELSE ReplayOut(w.replay)
             fields == [work_id |-> w.workId, correlation_id |-> w.correlationId,
                        correlation_source |-> w.correlationSource,
                        attribution |-> AttributionOut(w.attribution),
                        causation |-> JsonOf(w.causation), origin |-> w.origin,
                        depth |-> w.depth, replay |-> replay]
             keys == {k \in WorkKeys : fields[k] # None}
  <1>1. WorkOut(w) = Json(fields) /\ DOMAIN fields = WorkKeys
    BY DEF WorkOut, WorkKeys
  <1>2. /\ fields["work_id"] \in IDs \cup {None} /\ fields["correlation_id"] \in IDs \cup {None}
        /\ fields["correlation_source"] \in {"local", "external"}
        /\ fields["attribution"] \in {AttributionOut(a) : a \in Attributions}
        /\ fields["causation"] \in {Json(f) : f \in References} \cup {None}
        /\ fields["origin"] \in Origins \cup {None} /\ fields["depth"] \in Nat \cup {None}
        /\ fields["replay"] \in {ReplayOut(r) : r \in Runs} \cup {None}
    BY DEF Works, JsonOf
  <1> HIDE DEF fields
  <1>3. \A k \in keys : fields[k] \in WorkValues
    BY <1>2 DEF WorkKeys, WorkValues
  <1>4. WorkOut(w) = [k \in keys |-> fields[k]]
    BY <1>1 DEF Json
  <1>5. WorkOut(w) \in [keys -> WorkValues] /\ keys \in SUBSET WorkKeys
    BY <1>3, <1>4
  <1> HIDE DEF keys
  <1> QED
    BY <1>5, EnvelopeAssumption

(* Every event of a work that is valid is what it was created of. *)
LEMMA EnvelopeIs ==
  ASSUME NEW i \in IDs, NEW w \in Works, ValidateWork(w, FALSE), NEW tenant
  PROVE  EnvelopeCreate(i, w, "payload", None, tenant) =
           [id |-> i, work |-> w, payload |-> "payload", subject |-> None, tenant |-> tenant]
  <1> DEFINE fields == [id |-> i, work |-> WorkOut(w), payload |-> "payload",
                        subject |-> None, tenant |-> tenant]
             raw == Json(fields)
  <1>1. i # None /\ w # None
    BY ProvenanceAssumption
  <1>2. WorkIn(WorkOut(w)) = w /\ WorkOut(w) # None /\ "payload" # None
    BY ValidWorkArrives, WorkOutIs, AuditAssumption
  <1>3. EnvelopeCreate(i, w, "payload", None, tenant) = Decode(raw)
    BY DEF EnvelopeCreate
  <1>4. DOMAIN fields = {"id", "work", "payload", "subject", "tenant"}
        /\ fields["id"] = i /\ fields["work"] = WorkOut(w) /\ fields["payload"] = "payload"
        /\ fields["subject"] = None /\ fields["tenant"] = tenant
    OBVIOUS
  <1> HIDE DEF fields
  <1>5. Get(raw, "subject") = None /\ Get(raw, "tenant") = tenant
    BY <1>4, GetJson
  <1>6. /\ {"id", "work", "payload"} \subseteq DOMAIN raw
        /\ DOMAIN raw \subseteq {"id", "work", "payload", "subject", "tenant"}
        /\ raw["id"] = i /\ raw["work"] = WorkOut(w) /\ raw["payload"] = "payload"
    BY <1>1, <1>2, <1>4 DEF Json
  <1> HIDE DEF raw
  <1> QED
    BY <1>1, <1>2, <1>3, <1>5, <1>6 DEF Decode

LEMMA EventIs ==
  ASSUME NEW r \in Requests
  PROVE  EventOf[r] = [id |-> r, work |-> HttpWork[r], payload |-> "payload",
                       subject |-> None, tenant |-> TenantOf[r]]
  <1>1. r \in IDs /\ HttpWork[r] \in Works /\ ValidateWork(HttpWork[r], FALSE)
    BY HttpWorkIs, AuditAssumption
  <1> QED
    BY <1>1, EnvelopeIs DEF EventOf

(* The row of an entry tells that entry. *)
LEMMA RowTells ==
  ASSUME NEW r \in Requests, NEW k
  PROVE  /\ EntryUnder(k, r) = [id |-> k, eventId |-> r, recordedAt |-> k[1],
                                work |-> HttpWork[r], subject |-> None, tenant |-> TenantOf[r]]
         /\ EntryRow(EntryUnder(k, r)) =
              [id |-> k, eventId |-> r, recordedAt |-> k[1],
               work |-> WorkOut(HttpWork[r]), subject |-> None, tenant |-> TenantOf[r]]
         /\ EntryFrom(EntryRow(EntryUnder(k, r))) = EntryUnder(k, r)
  <1>1. DecodeWork(WorkOut(HttpWork[r])) = HttpWork[r] /\ HttpWork[r] # None
    BY HttpWorkIs, ValidWorkArrives, ProvenanceAssumption DEF EncodeWork
  <1>2. EntryUnder(k, r) = [id |-> k, eventId |-> r, recordedAt |-> k[1],
                            work |-> HttpWork[r], subject |-> None, tenant |-> TenantOf[r]]
    <2> DEFINE event == EventOf[r]
    <2>1. event = [id |-> r, work |-> HttpWork[r], payload |-> "payload",
                   subject |-> None, tenant |-> TenantOf[r]]
      BY EventIs
    <2>2. EntryUnder(k, r) = RecordEntry(k, event, k[1])
      BY DEF EntryUnder
    <2> HIDE DEF event
    <2>3. /\ event.id = r /\ event.work = HttpWork[r]
          /\ event.subject = None /\ event.tenant = TenantOf[r]
      BY <2>1
    <2> QED
      BY <2>2, <2>3 DEF RecordEntry
  <1>3. EntryRow(EntryUnder(k, r)) =
          [id |-> k, eventId |-> r, recordedAt |-> k[1],
           work |-> WorkOut(HttpWork[r]), subject |-> None, tenant |-> TenantOf[r]]
    BY <1>2 DEF EntryRow, EncodeWork
  <1> DEFINE row == EntryRow(EntryUnder(k, r))
  <1>4. row.work = WorkOut(HttpWork[r])
    BY <1>3
  <1>5. EntryFrom(row) = [row EXCEPT !.work = HttpWork[r]]
    BY <1>1, <1>4 DEF EntryFrom
  <1>6. [row EXCEPT !.work = HttpWork[r]] = EntryUnder(k, r)
    BY <1>2, <1>3
  <1> QED
    BY <1>2, <1>3, <1>5, <1>6

-----------------------------------------------------------------------------
(* The order of keys.                                                      *)

LEMMA KeyParts ==
  ASSUME NEW k \in Keys
  PROVE  /\ k = <<k[1], k[2], k[3], k[4]>> /\ Len(k) = 4 /\ k # <<>>
         /\ k[1] \in 0 .. MaxTime /\ k[2] \in 0 .. MaxTime /\ k[3] \in Nat /\ k[4] \in Processes
         /\ k[1] \in Nat /\ k[2] \in Nat /\ k[4] \in Nat
  <1>1. k = <<k[1], k[2], k[3], k[4]>>
        /\ k[1] \in 0 .. MaxTime /\ k[2] \in 0 .. MaxTime /\ k[3] \in Nat /\ k[4] \in Processes
    BY DEF Keys
  <1>2. Len(k) = 4 /\ k # <<>>
    <2>1. PICK a, b, c, d : k = <<a, b, c, d>>
      BY <1>1
    <2>2. Len(<<a, b, c, d>>) = 4 /\ Len(<<>>) = 0
      OBVIOUS
    <2> QED
      BY <2>1, <2>2
  <1> QED
    BY <1>1, <1>2, RateLimitAssumption, AuditAssumption

LEMMA BeforeIs ==
  ASSUME NEW k \in Keys, NEW l \in Keys
  PROVE  Before(k, l) <=>
           \/ k[1] < l[1]
           \/ k[1] = l[1] /\ k[2] < l[2]
           \/ k[1] = l[1] /\ k[2] = l[2] /\ k[3] < l[3]
           \/ k[1] = l[1] /\ k[2] = l[2] /\ k[3] = l[3] /\ k[4] < l[4]
  <1>1. Len(k) = 4
    BY KeyParts
  <1>2. Before(k, l) <=> \E i \in 1 .. 4 : k[i] < l[i] /\ \A j \in 1 .. i - 1 : k[j] = l[j]
    BY <1>1 DEF Before
  <1>3. 1 .. 4 = {1, 2, 3, 4} /\ 1 .. 1 - 1 = {} /\ 1 .. 2 - 1 = {1} /\ 1 .. 3 - 1 = {1, 2}
        /\ 1 .. 4 - 1 = {1, 2, 3}
    OBVIOUS
  <1> QED
    BY ONLY <1>2, <1>3

LEMMA BeforeOrders ==
  ASSUME NEW k \in Keys, NEW l \in Keys, NEW m \in Keys
  PROVE  /\ ~Before(k, k)
         /\ k # l => Before(k, l) \/ Before(l, k)
         /\ Before(k, l) /\ Before(l, m) => Before(k, m)
  <1>1. /\ k[1] \in Nat /\ k[2] \in Nat /\ k[3] \in Nat /\ k[4] \in Nat
        /\ l[1] \in Nat /\ l[2] \in Nat /\ l[3] \in Nat /\ l[4] \in Nat
        /\ m[1] \in Nat /\ m[2] \in Nat /\ m[3] \in Nat /\ m[4] \in Nat
    BY KeyParts
  <1>2. k # l => k[1] # l[1] \/ k[2] # l[2] \/ k[3] # l[3] \/ k[4] # l[4]
    BY KeyParts
  <1> DEFINE B(x, y) == \/ x[1] < y[1]
                        \/ x[1] = y[1] /\ x[2] < y[2]
                        \/ x[1] = y[1] /\ x[2] = y[2] /\ x[3] < y[3]
                        \/ x[1] = y[1] /\ x[2] = y[2] /\ x[3] = y[3] /\ x[4] < y[4]
  <1>3. /\ Before(k, k) <=> B(k, k)
        /\ Before(k, l) <=> B(k, l)
        /\ Before(l, k) <=> B(l, k)
        /\ Before(l, m) <=> B(l, m)
        /\ Before(k, m) <=> B(k, m)
    BY BeforeIs
  <1>4. ~B(k, k) /\ (k # l => B(k, l) \/ B(l, k)) /\ (B(k, l) /\ B(l, m) => B(k, m))
    BY ONLY <1>1, <1>2
  <1> QED
    BY <1>3, <1>4

-----------------------------------------------------------------------------
(* The trail.                                                              *)

(* The inductive invariant. *)
AuditIInv == AuditInv /\ AdmittedWithinLimit /\ WalkComplete

(* An id that a process will not mint again, given the ids it has minted and
   its call. *)
Used(k, minted, pending) ==
  \/ k[2] < minted[k[4]].last
  \/ k[2] = minted[k[4]].last /\ k[3] < minted[k[4]].counter
  \/ k[2] = minted[k[4]].last /\ k[3] = minted[k[4]].counter /\ pending[k[4]] = None

SpentCalls ==
  \A p \in Processes : call[p] # None =>
    \E e \in published, time \in 0 .. MaxTime :
      call[p] = EntryUnder(<<time, ids[p].last, ids[p].counter, p>>, e)

SpentRow(e) ==
  /\ entries[e].id \in Keys
  /\ entries[e] = EntryRow(EntryUnder(entries[e].id, e))
  /\ Used(entries[e].id, ids, call)
  /\ mode = "memory" => entries[e].id[4] = 1 /\ entries[e].id[1] <= Clock(1)

LEMMA SpentIs ==
  IdsAreSpent <=> SpentCalls /\ \A e \in DOMAIN entries : SpentRow(e)
  BY DEF IdsAreSpent, SpentCalls, SpentRow, Used

(* A row of this form tells what happened. *)
LEMMA RowIsTrue ==
  ASSUME NEW e \in Requests, NEW k, NEW row, row = EntryRow(EntryUnder(k, e))
  PROVE  /\ DecodeWork(row.work) # None /\ EntryFrom(row).eventId = e
         /\ EntryFrom(row).tenant = TenantOf[e] /\ EntryFrom(row).work = HttpWork[e]
         /\ row.id = k
  <1>1. EntryFrom(row) = [id |-> k, eventId |-> e, recordedAt |-> k[1],
                          work |-> HttpWork[e], subject |-> None, tenant |-> TenantOf[e]]
    BY RowTells
  <1>2. row.work = WorkOut(HttpWork[e]) /\ row.id = k
    <2>1. row = [id |-> k, eventId |-> e, recordedAt |-> k[1],
                 work |-> WorkOut(HttpWork[e]), subject |-> None, tenant |-> TenantOf[e]]
      BY RowTells
    <2> QED
      BY ONLY <2>1
  <1>3. DecodeWork(row.work) # None
    BY <1>2, HttpWorkIs, ValidWorkArrives, ProvenanceAssumption DEF EncodeWork
  <1> HIDE DEF EntryFrom
  <1> QED
    BY <1>1, <1>2, <1>3

LEMMA InsertIs ==
  ASSUME NEW e, NEW entry, entries' = Insert(e, entry)
  PROVE  /\ DOMAIN entries' = DOMAIN entries \cup {e}
         /\ \A f \in DOMAIN entries : entries'[f] = entries[f]
         /\ e \notin DOMAIN entries => entries'[e] = EntryRow(entry)
  BY DEF Insert

(* What a walk has shown and has to show stays true as rows are added, in
   memory because keys are minted in order. *)
LEMMA InsertKeepsWalks ==
  ASSUME AuditIInv, NEW e \in Requests, NEW k \in Keys, entries' = Insert(e, EntryUnder(k, e)),
         mode = "memory" => \A f \in DOMAIN entries : Before(entries[f].id, k),
         UNCHANGED <<walk, mode>>
  PROVE  WalkOnCourse' /\ WalkComplete'
  <1>1. \A t \in Tenants : Stored(t) \subseteq Stored(t)' /\ Stored(t)' \subseteq Stored(t) \cup {k}
    <2> DEFINE entry == EntryUnder(k, e)
    <2>1. EntryRow(entry).id = k
      BY RowTells
    <2>2. entries' = Insert(e, entry)
      OBVIOUS
    <2> HIDE DEF entry
    <2>3. /\ DOMAIN entries' = DOMAIN entries \cup {e}
          /\ \A f \in DOMAIN entries : entries'[f] = entries[f]
          /\ e \notin DOMAIN entries => entries'[e].id = k
      BY <2>1, <2>2, InsertIs
    <2> QED
      BY <2>3 DEF Stored
  <1>2. WalkComplete'
    BY <1>1 DEF AuditIInv, WalkComplete, InOrderOf
  <1>3. WalkOnCourse'
    <2> SUFFICES ASSUME NEW t \in Tenants
                 PROVE  LET w == walk[t]
                        IN /\ w.stage \in {"start", "next", "done"}
                           /\ w.seen \in Seq(Keys) /\ w.base \subseteq Stored(t)'
                           /\ w.stage = "start" => w.at = <<>> /\ w.seen = <<>>
                           /\ w.stage = "next" =>
                                /\ w.seen # <<>> /\ w.at = w.seen[Len(w.seen)]
                                /\ \A l \in (IF mode = "memory" THEN Stored(t)' ELSE w.base) :
                                     l \in ToSet(w.seen) \/ Before(w.at, l)
      BY DEF WalkOnCourse
    <2> DEFINE w == walk[t]
    <2>1. /\ w.stage \in {"start", "next", "done"}
          /\ w.seen \in Seq(Keys) /\ w.base \subseteq Stored(t)
          /\ w.stage = "start" => w.at = <<>> /\ w.seen = <<>>
          /\ w.stage = "next" =>
               /\ w.seen # <<>> /\ w.at = w.seen[Len(w.seen)]
               /\ \A l \in (IF mode = "memory" THEN Stored(t) ELSE w.base) :
                    l \in ToSet(w.seen) \/ Before(w.at, l)
      BY DEF AuditIInv, AuditInv, WalkOnCourse
    <2>2. ToSet(w.seen) \subseteq Stored(t)
      BY DEF AuditIInv, WalkComplete
    <2> HIDE DEF w
    <2>3. ASSUME w.stage = "next", mode = "memory"
          PROVE  Before(w.at, k)
      <3>1. w.at \in ToSet(w.seen)
        BY <2>1, <2>3 DEF ToSet
      <3>2. PICK f \in DOMAIN entries : w.at = entries[f].id
        BY <2>2, <3>1 DEF Stored
      <3> QED
        BY <2>3, <3>2
    <2> QED
      BY <1>1, <2>1, <2>3 DEF w
  <1> QED
    BY <1>2, <1>3

(* Nothing that is said of pages changes. *)
LEMMA WalksAlone ==
  ASSUME AuditIInv, UNCHANGED <<walk, entries, mode>>
  PROVE  WalkOnCourse' /\ WalkComplete'
  <1>1. \A t \in Tenants : Stored(t)' = Stored(t)
    BY DEF Stored
  <1> QED
    BY <1>1 DEF AuditIInv, AuditInv, WalkOnCourse, WalkComplete, InOrderOf

(* A minted id is one that its process has not used. *)
LEMMA MintedIsNew ==
  ASSUME AuditIInv, NEW p \in Processes, NEW g \in NewIds(p), ids' = [ids EXCEPT ![p] = g]
  PROVE  /\ Clock(p) \in 0 .. MaxTime
         /\ g \in [last : 0 .. MaxTime, counter : Nat]
         /\ g.last > ids[p].last \/ (g.last = ids[p].last /\ g.counter > ids[p].counter)
         /\ ids' \in [Processes -> [last : 0 .. MaxTime, counter : Nat]]
         /\ ids'[p] = g /\ \A q \in Processes \ {p} : ids'[q] = ids[q]
         /\ Key(p, g) \in Keys
  <1>1. now \in 0 .. MaxTime /\ ids \in [Processes -> [last : 0 .. MaxTime, counter : Nat]]
    BY DEF AuditIInv, AuditInv, TypeOK
  <1>2. Clock(p) \in 0 .. MaxTime
    BY <1>1, RateLimitAssumption, AuditAssumption DEF Clock
  <1> DEFINE c == Clock(p)
             i == ids[p]
  <1>3. i \in [last : 0 .. MaxTime, counter : Nat]
    BY <1>1
  <1>4. \/ c > i.last /\ \E n \in 0 .. MaxCounter \div 2 : g = [last |-> c, counter |-> n]
        \/ g = [i EXCEPT !.counter = @ + 1]
    BY DEF NewIds
  <1> HIDE DEF c, i
  <1>5. /\ g \in [last : 0 .. MaxTime, counter : Nat]
        /\ g.last > i.last \/ (g.last = i.last /\ g.counter > i.counter)
    <2>1. CASE g = [i EXCEPT !.counter = @ + 1]
      BY <1>3, <2>1
    <2>2. CASE c > i.last /\ \E n \in 0 .. MaxCounter \div 2 : g = [last |-> c, counter |-> n]
      <3>1. PICK n \in 0 .. MaxCounter \div 2 : g = [last |-> c, counter |-> n]
        BY <2>2
      <3>2. n \in Nat /\ c \in 0 .. MaxTime
        BY <1>2, AuditAssumption DEF c
      <3> QED
        BY <2>2, <3>1, <3>2
    <2> QED
      BY <1>4, <2>1, <2>2
  <1>6. Key(p, g) \in Keys
    BY <1>2, <1>5 DEF Key, Keys
  <1> QED
    BY <1>1, <1>2, <1>5, <1>6 DEF i

-----------------------------------------------------------------------------
(* The steps.                                                              *)

LEMMA RatesAlone ==
  ASSUME AuditIInv, UNCHANGED <<mode, now, limits>>
  PROVE  /\ RateTypeOK' /\ CountsCover' /\ AdmittedWithinLimit'
         /\ \A r \in Requests : Admitted(r)' <=> Admitted(r)
  <1>1. RateTypeOK /\ CountsCover /\ AdmittedWithinLimit
    BY DEF AuditIInv, AuditInv, TypeOK
  <1> QED
    BY <1>1 DEF RateTypeOK, CountsCover, AdmittedWithinLimit, WindowStart, limits, Admitted

(* The rows that are there stay, and so do those who were admitted. *)
LEMMA TrailAlone ==
  ASSUME AuditIInv, UNCHANGED entries, \A r \in Requests : Admitted(r) => Admitted(r)'
  PROVE  TrailIsTrue'
  <1>1. DOMAIN entries \subseteq Requests
    BY DEF AuditIInv, AuditInv, TypeOK, OnlyPublished
  <1> QED
    BY <1>1 DEF AuditIInv, AuditInv, TrailIsTrue

(* Ids stay spent while no id is minted and no call begins or ends. *)
LEMMA IdsAlone ==
  ASSUME AuditIInv, UNCHANGED <<entries, ids, call, mode>>, published \subseteq published',
         Clock(1) <= Clock(1)', Clock(1) \in Nat, Clock(1)' \in Nat
  PROVE  IdsAreSpent'
  <1>1. IdsAreSpent
    BY DEF AuditIInv, AuditInv
  <1>2. SpentCalls'
    BY <1>1 DEF IdsAreSpent, SpentCalls
  <1>3. ASSUME NEW e \in DOMAIN entries PROVE SpentRow(e)'
    <2> DEFINE k == entries[e].id
    <2>1. /\ k \in Keys /\ entries[e] = EntryRow(EntryUnder(k, e)) /\ Used(k, ids, call)
          /\ mode = "memory" => k[4] = 1 /\ k[1] <= Clock(1)
      BY <1>1, SpentIs DEF SpentRow
    <2>2. k[1] \in Nat
      BY <2>1, KeyParts
    <2>3. mode = "memory" => k[4] = 1 /\ k[1] <= Clock(1)'
      BY <2>1, <2>2
    <2>4. Used(k, ids', call')
      BY <2>1
    <2> QED
      BY <2>1, <2>3, <2>4 DEF SpentRow
  <1> QED
    BY <1>2, <1>3 DEF IdsAreSpent, SpentCalls, SpentRow, Used

LEMMA ClockIsTime ==
  ASSUME AuditIInv, NEW p \in Processes
  PROVE  Clock(p) \in 0 .. MaxTime /\ Clock(p) \in Nat
  BY RateLimitAssumption, AuditAssumption DEF AuditIInv, AuditInv, TypeOK, Clock

LEMMA TickStep ==
  ASSUME AuditIInv, Tick
  PROVE  AuditIInv'
  <1>1. /\ now \in 0 .. MaxTime /\ now' \in 0 .. MaxTime /\ now' = now + 1
        /\ UNCHANGED <<mode, limits, published, inboxVars, owed, recording, walk>>
    BY RateLimitAssumption DEF Tick, AuditIInv, AuditInv, TypeOK
  <1>2. RateInv'
    <2>1. RateInv
      BY DEF AuditIInv, AuditInv, TypeOK, RateInv
    <2> QED
      BY <1>1, <2>1, TickKeepsRates
  <1>3. TypeOK'
    BY <1>1, <1>2 DEF AuditIInv, AuditInv, TypeOK, RateInv, inboxVars, recording
  <1>4. \A r \in Requests : Admitted(r)' <=> Admitted(r)
    BY <1>1 DEF Admitted, limits
  <1>5. OnlyPublished'
    BY <1>1, <1>4 DEF AuditIInv, AuditInv, TypeOK, OnlyPublished, inboxVars, recording
  <1>6. Clock(1) <= Clock(1)' /\ Clock(1) \in Nat /\ Clock(1)' \in Nat
    BY <1>1, RateLimitAssumption, AuditAssumption DEF Clock
  <1>7. IdsAreSpent'
    BY <1>1, <1>6, IdsAlone DEF recording
  <1>8. TrailIsTrue'
    BY <1>1, <1>4, TrailAlone DEF recording
  <1>9. HandledIsRecorded'
    BY <1>1 DEF AuditIInv, AuditInv, HandledIsRecorded, Waiting, inboxVars, recording
  <1>10. WalkOnCourse' /\ WalkComplete'
    BY <1>1, WalksAlone DEF recording
  <1> QED
    BY <1>2, <1>3, <1>5, <1>7, <1>8, <1>9, <1>10 DEF AuditIInv, AuditInv, RateInv

LEMMA LimitStep ==
  ASSUME AuditIInv, NEW r \in Requests, Limit(r)
  PROVE  AuditIInv'
  <1>1. UNCHANGED <<mode, now, published, inboxVars, owed, recording, walk>>
    BY DEF Limit
  <1>2. RateInv' /\ \A q \in Requests : Admitted(q) => Admitted(q)'
    <2>1. RateInv /\ mode \in {"memory", "postgres"} /\ now \in 0 .. MaxTime
      BY AuditAssumption DEF AuditIInv, AuditInv, TypeOK, RateInv
    <2> QED
      BY <1>1, <2>1, ConsumeKeeps, ConsumeFailsKeeps DEF Limit
  <1>3. TypeOK'
    BY <1>1, <1>2 DEF AuditIInv, AuditInv, TypeOK, RateInv, inboxVars, recording
  <1>4. OnlyPublished'
    BY <1>1, <1>2 DEF AuditIInv, AuditInv, TypeOK, OnlyPublished, inboxVars, recording
  <1>5. IdsAreSpent'
    <2>1. Clock(1)' = Clock(1) /\ Clock(1) \in Nat
      BY <1>1, ClockIsTime, AuditAssumption DEF Clock
    <2> QED
      BY <1>1, <2>1, IdsAlone DEF recording
  <1>6. TrailIsTrue'
    BY <1>1, <1>2, TrailAlone DEF recording
  <1>7. HandledIsRecorded'
    BY <1>1 DEF AuditIInv, AuditInv, HandledIsRecorded, Waiting, inboxVars, recording
  <1>8. WalkOnCourse' /\ WalkComplete'
    BY <1>1, WalksAlone DEF recording
  <1> QED
    BY <1>2, <1>3, <1>4, <1>5, <1>6, <1>7, <1>8 DEF AuditIInv, AuditInv, RateInv

(* A receipt that changes, but not to "processed". *)
LEMMA ReceiptStep ==
  ASSUME AuditIInv, UNCHANGED <<mode, now, limits, published, owed, recording, walk>>,
         DOMAIN receipts' = DOMAIN receipts, leased' \subseteq DOMAIN receipts,
         \A e \in DOMAIN receipts :
           /\ receipts'[e] \in Receipts
           /\ receipts'[e].state = "processed" => receipts[e].state = "processed"
  PROVE  AuditIInv'
  <1>1. RateTypeOK' /\ CountsCover' /\ AdmittedWithinLimit'
        /\ \A r \in Requests : Admitted(r)' <=> Admitted(r)
    BY RatesAlone
  <1>2. TypeOK'
    BY <1>1 DEF AuditIInv, AuditInv, TypeOK, recording
  <1>3. OnlyPublished'
    BY <1>1 DEF AuditIInv, AuditInv, TypeOK, OnlyPublished, recording
  <1>4. IdsAreSpent'
    <2>1. Clock(1)' = Clock(1) /\ Clock(1) \in Nat
      BY ClockIsTime, AuditAssumption DEF Clock
    <2> QED
      BY <2>1, IdsAlone DEF recording
  <1>5. TrailIsTrue'
    BY <1>1, TrailAlone DEF recording
  <1>6. HandledIsRecorded'
    BY DEF AuditIInv, AuditInv, HandledIsRecorded, Waiting, recording
  <1>7. WalkOnCourse' /\ WalkComplete'
    BY WalksAlone DEF recording
  <1> QED
    BY <1>1, <1>2, <1>3, <1>4, <1>5, <1>6, <1>7 DEF AuditIInv, AuditInv

LEMMA DeliverStep ==
  ASSUME AuditIInv, NEW e \in Requests, DeliverInMemory(e)
  PROVE  AuditIInv'
  <1>1. /\ e \in DOMAIN receipts /\ receipts' = [receipts EXCEPT ![e].attempts = @ + 1]
        /\ leased' = {e}
        /\ UNCHANGED <<mode, now, limits, published, owed, recording, walk>>
    BY DEF DeliverInMemory, Inbox!Deliver, Inbox!Due
  <1>2. \A f \in DOMAIN receipts : receipts[f] \in Receipts
    BY DEF AuditIInv, AuditInv, TypeOK
  <1>3. DOMAIN receipts' = DOMAIN receipts /\ \A f \in DOMAIN receipts :
          /\ receipts'[f] \in Receipts
          /\ receipts'[f].state = "processed" => receipts[f].state = "processed"
    BY <1>1, <1>2 DEF Receipts
  <1> QED
    BY <1>1, <1>3, ReceiptStep

LEMMA RequeueStep ==
  ASSUME AuditIInv, NEW e \in Requests, RequeueInMemory(e)
  PROVE  AuditIInv'
  <1>1. /\ e \in DOMAIN receipts /\ UNCHANGED leased
        /\ receipts' = [receipts EXCEPT ![e].state = "pending", ![e].attempts = 0,
                                        ![e].availableAt = now]
        /\ UNCHANGED <<mode, now, limits, published, owed, recording, walk>>
    BY DEF RequeueInMemory, Inbox!Requeue
  <1>2. (\A f \in DOMAIN receipts : receipts[f] \in Receipts) /\ leased \subseteq DOMAIN receipts
        /\ now \in Nat
    BY RateLimitAssumption DEF AuditIInv, AuditInv, TypeOK
  <1>3. DOMAIN receipts' = DOMAIN receipts /\ \A f \in DOMAIN receipts :
          /\ receipts'[f] \in Receipts
          /\ receipts'[f].state = "processed" => receipts[f].state = "processed"
    BY <1>1, <1>2 DEF Receipts
  <1> QED
    BY <1>1, <1>2, <1>3, ReceiptStep

(* A receipt, settled. *)
LEMMA SettleIs ==
  ASSUME AuditIInv, NEW e \in DOMAIN receipts, NEW ok \in BOOLEAN, Inbox!Settle(e, ok, now)
  PROVE  /\ DOMAIN receipts' = DOMAIN receipts /\ leased' = {}
         /\ \A f \in DOMAIN receipts : receipts'[f] \in Receipts
         /\ \A f \in DOMAIN receipts :
              receipts'[f].state = "processed" => receipts[f].state = "processed" \/ (f = e /\ ok)
  <1>1. receipts' = [receipts EXCEPT ![e] = Inbox!Settled(receipts[e], ok, now)] /\ leased' = {}
    BY DEF Inbox!Settle
  <1>2. (\A f \in DOMAIN receipts : receipts[f] \in Receipts) /\ now \in Nat /\ RetryDelay \in Nat
    BY RateLimitAssumption, AuditAssumption DEF AuditIInv, AuditInv, TypeOK
  <1> DEFINE settled == Inbox!Settled(receipts[e], ok, now)
             receipt == receipts[e]
  <1>3. settled = IF ok THEN [receipt EXCEPT !.state = "processed"]
                  ELSE [receipt EXCEPT !.availableAt = now + RetryDelay,
                          !.state = IF receipt.attempts >= MaxAttempts THEN "dead" ELSE "pending"]
    BY DEF Inbox!Settled
  <1>4. receipt \in Receipts
    BY <1>2
  <1> HIDE DEF receipt, settled
  <1>5. settled \in Receipts /\ (settled.state = "processed" => ok)
    <2>1. CASE ok
      BY <1>3, <1>4, <2>1 DEF Receipts
    <2>2. CASE ~ok
      <3> DEFINE later == now + RetryDelay
                 next == IF receipt.attempts >= MaxAttempts THEN "dead" ELSE "pending"
      <3>1. later \in Nat /\ next \in {"dead", "pending"}
        BY <1>2
      <3>2. settled = [receipt EXCEPT !.availableAt = later, !.state = next]
        BY <1>3, <2>2
      <3> HIDE DEF later, next
      <3> QED
        BY <1>4, <3>1, <3>2 DEF Receipts
    <2> QED
      BY <2>1, <2>2
  <1>6. /\ DOMAIN receipts' = DOMAIN receipts /\ receipts'[e] = settled
        /\ \A f \in DOMAIN receipts \ {e} : receipts'[f] = receipts[f]
    BY <1>1 DEF settled
  <1> QED
    BY <1>1, <1>2, <1>5, <1>6

LEMMA PublishStep ==
  ASSUME AuditIInv, NEW r \in Requests, Publish(r)
  PROVE  AuditIInv'
  <1>1. /\ Admitted(r) /\ r \notin published /\ published' = published \cup {r}
        /\ UNCHANGED <<mode, now, limits, recording, walk>>
        /\ \/ mode = "memory" /\ Inbox!Accept(r, now) /\ UNCHANGED owed
           \/ mode = "postgres" /\ owed' = owed \cup {r} /\ UNCHANGED inboxVars
    BY DEF Publish
  <1>2. RateTypeOK' /\ CountsCover' /\ AdmittedWithinLimit'
        /\ \A q \in Requests : Admitted(q)' <=> Admitted(q)
    BY <1>1, RatesAlone
  <1>3. /\ DOMAIN receipts \subseteq DOMAIN receipts'
        /\ DOMAIN receipts' \subseteq DOMAIN receipts \cup {r}
        /\ \A e \in DOMAIN receipts : receipts'[e] = receipts[e]
        /\ mode = "memory" => r \in DOMAIN receipts' /\ UNCHANGED owed
        /\ mode # "memory" => UNCHANGED receipts /\ owed' = owed \cup {r}
        /\ r \notin DOMAIN receipts /\ UNCHANGED leased
    <2>1. r \notin DOMAIN receipts
      BY <1>1 DEF AuditIInv, AuditInv, OnlyPublished
    <2> QED
      BY <1>1, <2>1 DEF Inbox!Accept, inboxVars
  <1>4. r \in DOMAIN receipts' => receipts'[r] \in Receipts /\ receipts'[r].state = "pending"
    <2>1. Cardinality(DOMAIN receipts) \in Nat
      <3>1. IsFiniteSet(DOMAIN receipts)
        BY AuditAssumption, FS_Subset DEF AuditIInv, AuditInv, TypeOK
      <3> QED
        BY <3>1, FS_CardinalityType
    <2>2. now \in Nat
      BY RateLimitAssumption DEF AuditIInv, AuditInv, TypeOK
    <2>3. CASE mode = "memory"
      <3> DEFINE new == [state |-> "pending", attempts |-> 0, availableAt |-> now,
                         sequence |-> Cardinality(DOMAIN receipts)]
      <3>1. receipts' = [f \in DOMAIN receipts \cup {r} |-> IF f = r THEN new ELSE receipts[f]]
        <4>1. Inbox!Accept(r, now) /\ r \notin DOMAIN receipts
          BY <1>1, <1>3, <2>3
        <4> QED
          BY ONLY <4>1 DEF Inbox!Accept, Inbox!Cardinality, Cardinality
      <3>2. new \in Receipts /\ new.state = "pending"
        BY <2>1, <2>2 DEF Receipts
      <3> HIDE DEF new
      <3> QED
        BY <3>1, <3>2
    <2>4. CASE mode # "memory"
      BY <1>3, <2>4
    <2> QED
      BY <2>3, <2>4
  <1>5. TypeOK'
    BY <1>1, <1>2, <1>3, <1>4 DEF AuditIInv, AuditInv, TypeOK, recording
  <1>6. OnlyPublished'
    BY <1>1, <1>2, <1>3 DEF AuditIInv, AuditInv, TypeOK, OnlyPublished, recording
  <1>7. IdsAreSpent'
    <2>1. Clock(1)' = Clock(1) /\ Clock(1) \in Nat
      BY <1>1, ClockIsTime, AuditAssumption DEF Clock
    <2> QED
      BY <1>1, <2>1, IdsAlone DEF recording
  <1>8. TrailIsTrue'
    BY <1>1, <1>2, TrailAlone DEF recording
  <1>9. HandledIsRecorded'
    <2> SUFFICES ASSUME NEW e \in published'
                 PROVE  Waiting(e)' \/ e \in DOMAIN entries'
      BY DEF HandledIsRecorded
    <2>1. CASE e = r
      <3>1. mode \in {"memory", "postgres"}
        BY AuditAssumption DEF AuditIInv, AuditInv, TypeOK
      <3> QED
        BY <1>3, <1>4, <2>1, <3>1 DEF Waiting
    <2>2. CASE e \in published
      <3>1. Waiting(e) \/ e \in DOMAIN entries
        BY <2>2 DEF AuditIInv, AuditInv, HandledIsRecorded
      <3> QED
        BY <1>1, <1>3, <3>1 DEF Waiting, recording
    <2> QED
      BY <1>1, <2>1, <2>2
  <1>10. WalkOnCourse' /\ WalkComplete'
    BY <1>1, WalksAlone DEF recording
  <1> QED
    BY <1>2, <1>5, <1>6, <1>7, <1>8, <1>9, <1>10 DEF AuditIInv, AuditInv

(* A row under a new id. *)
LEMMA InsertKeepsTrail ==
  ASSUME AuditIInv, NEW e \in published, NEW k \in Keys, entries' = Insert(e, EntryUnder(k, e)),
         UNCHANGED <<mode, now, limits, published>>,
         SpentCalls', Used(k, ids', call'),
         \A f \in DOMAIN entries : entries[f].id # k /\ Used(entries[f].id, ids', call'),
         mode = "memory" => k[4] = 1 /\ k[1] <= Clock(1)
  PROVE  /\ IdsAreSpent' /\ TrailIsTrue'
         /\ e \in DOMAIN entries' /\ DOMAIN entries' \subseteq published'
         /\ DOMAIN entries \subseteq DOMAIN entries'
  <1> DEFINE entry == EntryUnder(k, e)
  <1>1. /\ e \in Requests /\ published \subseteq Requests /\ DOMAIN entries \subseteq published
        /\ \A f \in published : Admitted(f)'
    BY RatesAlone DEF AuditIInv, AuditInv, TypeOK, OnlyPublished
  <1>2. entries' = Insert(e, entry) /\ EntryRow(entry) = EntryRow(EntryUnder(k, e))
    OBVIOUS
  <1>3. EntryRow(entry).id = k
    BY <1>1, RowIsTrue
  <1> HIDE DEF entry
  <1>4. /\ DOMAIN entries' = DOMAIN entries \cup {e}
        /\ \A f \in DOMAIN entries : entries'[f] = entries[f]
        /\ e \notin DOMAIN entries => entries'[e] = EntryRow(entry)
    BY <1>2, InsertIs
  <1>5. \A f \in DOMAIN entries : SpentRow(f)
    BY SpentIs DEF AuditIInv, AuditInv
  <1>6. Clock(1)' = Clock(1)
    BY DEF Clock
  <1>7. \A f \in DOMAIN entries' : SpentRow(f)'
    <2> SUFFICES ASSUME NEW f \in DOMAIN entries' PROVE SpentRow(f)'
      OBVIOUS
    <2>1. CASE f \in DOMAIN entries
      BY <1>4, <1>5, <1>6, <2>1 DEF SpentRow
    <2>2. CASE f = e /\ e \notin DOMAIN entries
      BY <1>2, <1>3, <1>4, <1>6, <2>2 DEF SpentRow
    <2> QED
      BY <1>4, <2>1, <2>2
  <1>8. IdsAreSpent'
    BY <1>7 DEF IdsAreSpent, SpentCalls, SpentRow, Used
  <1>9. \A f \in DOMAIN entries' : \A h \in DOMAIN entries' \ {f} : entries'[h].id # entries'[f].id
    <2>1. \A f \in DOMAIN entries : \A h \in DOMAIN entries \ {f} : entries[h].id # entries[f].id
      BY DEF AuditIInv, AuditInv, TrailIsTrue
    <2> QED
      BY <1>3, <1>4, <2>1
  <1>10. TrailIsTrue'
    <2> SUFFICES ASSUME NEW f \in DOMAIN entries'
                 PROVE  LET told == EntryFrom(entries'[f])
                        IN /\ DecodeWork(entries'[f].work) # None /\ told.eventId = f
                           /\ Admitted(f)' /\ told.tenant = TenantOf[f]
                           /\ told.work = HttpWork[f]
                           /\ \A h \in DOMAIN entries' \ {f} : entries'[h].id # entries'[f].id
      BY DEF TrailIsTrue
    <2>1. f \in Requests /\ Admitted(f)'
      BY <1>1, <1>4
    <2>2. entries'[f] = EntryRow(EntryUnder(entries'[f].id, f))
      BY <1>7 DEF SpentRow
    <2> DEFINE row == entries'[f]
               l == entries'[f].id
    <2>3. row = EntryRow(EntryUnder(l, f))
      BY <2>2
    <2> HIDE DEF row, l
    <2>4. /\ DecodeWork(row.work) # None /\ EntryFrom(row).eventId = f
          /\ EntryFrom(row).tenant = TenantOf[f] /\ EntryFrom(row).work = HttpWork[f]
      BY <2>1, <2>3, RowIsTrue
    <2> QED
      BY <1>9, <2>1, <2>4 DEF row
  <1> QED
    BY <1>1, <1>4, <1>8, <1>10

LEMMA HandleInMemoryStep ==
  ASSUME AuditIInv, NEW e \in Requests, HandleInMemory(e)
  PROVE  AuditIInv'
  <1>1. e \in DOMAIN receipts /\ e \in published /\ e \in leased
    BY DEF HandleInMemory, AuditIInv, AuditInv, TypeOK, OnlyPublished
  <1>2. /\ mode = "memory" /\ owed = {} /\ \A p \in Processes : call[p] = None
    BY <1>1 DEF AuditIInv, AuditInv, OnlyPublished
  <1>3. UNCHANGED <<mode, now, limits, published, owed, call, walk>>
    BY DEF HandleInMemory
  <1>4. CASE /\ now < MaxTime
             /\ Inbox!Settle(e, FALSE, now)
             /\ UNCHANGED <<ids, entries>>
    <2>1. /\ DOMAIN receipts' = DOMAIN receipts /\ leased' = {}
          /\ \A f \in DOMAIN receipts :
               /\ receipts'[f] \in Receipts
               /\ receipts'[f].state = "processed" => receipts[f].state = "processed"
      BY <1>1, <1>4, SettleIs
    <2> QED
      BY <1>3, <1>4, <2>1, ReceiptStep DEF recording
  <1>5. ASSUME NEW g \in NewIds(1), ids' = [ids EXCEPT ![1] = g],
               entries' = Insert(e, Entry(1, e, g)),
               NEW ok \in BOOLEAN, Inbox!Settle(e, ok, now)
        PROVE  AuditIInv'
    <2> DEFINE c == Clock(1)
               i == ids[1]
    <2>1. /\ c \in 0 .. MaxTime /\ g \in [last : 0 .. MaxTime, counter : Nat]
          /\ g.last > i.last \/ (g.last = i.last /\ g.counter > i.counter)
          /\ ids' \in [Processes -> [last : 0 .. MaxTime, counter : Nat]]
          /\ ids'[1] = g /\ Key(1, g) \in Keys
      BY <1>5, AuditAssumption, MintedIsNew
    <2> PICK k \in Keys : k = Key(1, g)
      BY <2>1
    <2>2. k = <<c, g.last, g.counter, 1>> /\ k[1] = c /\ k[2] = g.last /\ k[3] = g.counter
          /\ k[4] = 1
      BY DEF Key
    <2>3. entries' = Insert(e, EntryUnder(k, e))
      BY <1>5, <2>2 DEF Entry, EntryUnder
    <2>4. i.last \in Nat /\ i.counter \in Nat /\ g.last \in Nat /\ g.counter \in Nat /\ c \in Nat
      BY <2>1, AuditAssumption, RateLimitAssumption DEF AuditIInv, AuditInv, TypeOK
    <2>5. Used(k, ids', call')
      BY <1>2, <1>3, <2>1, <2>2, AuditAssumption DEF Used
    <2>6. ASSUME NEW f \in DOMAIN entries
          PROVE  entries[f].id # k /\ Used(entries[f].id, ids', call') /\ Before(entries[f].id, k)
      <3> DEFINE l == entries[f].id
      <3>1. /\ l \in Keys /\ l[4] = 1 /\ l[1] <= c
            /\ l[2] < i.last \/ (l[2] = i.last /\ l[3] <= i.counter)
        <4>1. SpentRow(f)
          BY SpentIs DEF AuditIInv, AuditInv
        <4>2. l \in Keys /\ Used(l, ids, call) /\ l[4] = 1 /\ l[1] <= c
          BY <1>2, <4>1 DEF SpentRow
        <4> QED
          BY <2>4, <4>2, KeyParts DEF Used
      <3> HIDE DEF l
      <3>2. l[1] \in Nat /\ l[2] \in Nat /\ l[3] \in Nat
        BY <3>1, KeyParts
      <3>3. l[2] < g.last \/ (l[2] = g.last /\ l[3] < g.counter)
        BY <2>1, <2>4, <3>1, <3>2
      <3>4. Used(l, ids', call')
        BY <2>1, <3>1, <3>3 DEF Used
      <3>5. Before(l, k)
        <4> HIDE DEF c
        <4> QED
          BY <2>1, <2>2, <2>4, <3>1, <3>2, <3>3, BeforeIs
      <3>6. l # k
        BY <2>2, <2>4, <3>2, <3>3
      <3> QED
        BY <3>4, <3>5, <3>6 DEF l
    <2>7. SpentCalls'
      BY <1>2, <1>3 DEF SpentCalls
    <2>8. /\ IdsAreSpent' /\ TrailIsTrue'
          /\ e \in DOMAIN entries' /\ DOMAIN entries' \subseteq published'
          /\ DOMAIN entries \subseteq DOMAIN entries'
      <3>1. mode = "memory" => k[4] = 1 /\ k[1] <= Clock(1)
        BY <2>2, <2>4
      <3> QED
        BY <1>1, <1>3, <2>1, <2>3, <2>5, <2>6, <2>7, <3>1, InsertKeepsTrail
    <2>9. WalkOnCourse' /\ WalkComplete'
      BY <1>3, <2>1, <2>3, <2>6, InsertKeepsWalks
    <2>10. /\ DOMAIN receipts' = DOMAIN receipts /\ leased' = {}
           /\ \A f \in DOMAIN receipts : receipts'[f] \in Receipts
           /\ \A f \in DOMAIN receipts :
                receipts'[f].state = "processed" => receipts[f].state = "processed" \/ f = e
      BY <1>1, <1>5, SettleIs
    <2>11. RateTypeOK' /\ CountsCover' /\ AdmittedWithinLimit'
           /\ \A r \in Requests : Admitted(r)' <=> Admitted(r)
      BY <1>3, RatesAlone
    <2>12. TypeOK'
      BY <1>3, <2>1, <2>10, <2>11 DEF AuditIInv, AuditInv, TypeOK
    <2>13. OnlyPublished'
      BY <1>2, <1>3, <2>8, <2>10, <2>11 DEF AuditIInv, AuditInv, TypeOK, OnlyPublished
    <2>14. HandledIsRecorded'
      <3> SUFFICES ASSUME NEW f \in published
                   PROVE  Waiting(f)' \/ f \in DOMAIN entries'
        BY <1>3 DEF HandledIsRecorded
      <3>1. Waiting(f) \/ f \in DOMAIN entries
        BY DEF AuditIInv, AuditInv, HandledIsRecorded
      <3> QED
        BY <1>3, <2>8, <2>10, <3>1 DEF Waiting
    <2> QED
      BY <2>8, <2>9, <2>11, <2>12, <2>13, <2>14 DEF AuditIInv, AuditInv
  <1> QED
    BY <1>4, <1>5 DEF HandleInMemory

LEMMA HandleStep ==
  ASSUME AuditIInv, NEW p \in Processes, NEW e \in owed, Handle(p, e)
  PROVE  AuditIInv'
  <1>1. /\ call[p] = None
        /\ UNCHANGED <<mode, now, limits, published, inboxVars, owed, entries, walk>>
    BY DEF Handle
  <1>2. PICK g \in NewIds(p) : /\ ids' = [ids EXCEPT ![p] = g]
                               /\ call' = [call EXCEPT ![p] = Entry(p, e, g)]
    BY DEF Handle
  <1>3. /\ Clock(p) \in 0 .. MaxTime /\ g \in [last : 0 .. MaxTime, counter : Nat]
        /\ g.last > ids[p].last \/ (g.last = ids[p].last /\ g.counter > ids[p].counter)
        /\ ids' \in [Processes -> [last : 0 .. MaxTime, counter : Nat]]
        /\ ids'[p] = g /\ \A q \in Processes \ {p} : ids'[q] = ids[q]
    BY <1>2, MintedIsNew
  <1>4. e \in published /\ mode # "memory"
    BY DEF AuditIInv, AuditInv, OnlyPublished
  <1>5. /\ DOMAIN call' = Processes /\ call'[p] = Entry(p, e, g)
        /\ \A q \in Processes \ {p} : call'[q] = call[q]
    BY <1>2 DEF AuditIInv, AuditInv, TypeOK
  <1>6. RateTypeOK' /\ CountsCover' /\ AdmittedWithinLimit'
        /\ \A r \in Requests : Admitted(r)' <=> Admitted(r)
    BY <1>1, RatesAlone
  <1>7. TypeOK'
    BY <1>1, <1>3, <1>5, <1>6 DEF AuditIInv, AuditInv, TypeOK, inboxVars
  <1>8. OnlyPublished'
    BY <1>1, <1>4, <1>6 DEF AuditIInv, AuditInv, TypeOK, OnlyPublished, inboxVars
  <1>9. SpentCalls'
    <2> SUFFICES ASSUME NEW q \in Processes, call'[q] # None
                 PROVE  \E f \in published', time \in 0 .. MaxTime :
                          call'[q] = EntryUnder(<<time, ids'[q].last, ids'[q].counter, q>>, f)
      BY DEF SpentCalls
    <2>1. CASE q = p
      <3>1. Entry(p, e, g) = EntryUnder(<<Clock(p), g.last, g.counter, p>>, e)
        BY DEF Entry, EntryUnder, Key
      <3> QED
        BY <1>1, <1>3, <1>4, <1>5, <2>1, <3>1
    <2>2. CASE q # p
      <3>1. PICK f \in published, time \in 0 .. MaxTime :
              call[q] = EntryUnder(<<time, ids[q].last, ids[q].counter, q>>, f)
        BY <1>5, <2>2 DEF AuditIInv, AuditInv, IdsAreSpent
      <3> QED
        BY <1>1, <1>3, <1>5, <2>2, <3>1
    <2> QED
      BY <2>1, <2>2
  <1>10. IdsAreSpent'
    <2>1. ASSUME NEW f \in DOMAIN entries PROVE SpentRow(f)'
      <3> DEFINE k == entries[f].id
      <3>1. SpentRow(f)
        BY SpentIs DEF AuditIInv, AuditInv
      <3>2. k \in Keys /\ Used(k, ids, call)
        BY <3>1 DEF SpentRow
      <3>3. k[2] \in Nat /\ k[3] \in Nat /\ k[4] \in Processes
        BY <3>2, KeyParts
      <3>4. Used(k, ids', call')
        <4> HIDE DEF k
        <4>1. CASE k[4] # p
          BY <1>3, <1>5, <3>2, <3>3, <4>1 DEF Used
        <4>2. CASE k[4] = p
          <5>1. g.last \in Nat /\ g.counter \in Nat /\ ids[p].last \in Nat /\ ids[p].counter \in Nat
            BY <1>3, RateLimitAssumption DEF AuditIInv, AuditInv, TypeOK
          <5>2. k[2] < ids[p].last \/ (k[2] = ids[p].last /\ k[3] <= ids[p].counter)
            BY <3>2, <3>3, <4>2, <5>1 DEF Used
          <5>3. k[2] < g.last \/ (k[2] = g.last /\ k[3] < g.counter)
            BY <1>3, <3>3, <5>1, <5>2
          <5> QED
            BY <1>3, <4>2, <5>3 DEF Used
        <4> QED
          BY <4>1, <4>2
      <3> QED
        BY <1>1, <1>4, <3>1, <3>4 DEF SpentRow
    <2> QED
      BY <1>1, <1>9, <2>1 DEF IdsAreSpent, SpentCalls, SpentRow, Used
  <1>11. TrailIsTrue'
    BY <1>1, <1>6, TrailAlone
  <1>12. HandledIsRecorded'
    BY <1>1 DEF AuditIInv, AuditInv, HandledIsRecorded, Waiting, inboxVars
  <1>13. WalkOnCourse' /\ WalkComplete'
    BY <1>1, WalksAlone
  <1> QED
    BY <1>6, <1>7, <1>8, <1>10, <1>11, <1>12, <1>13 DEF AuditIInv, AuditInv

(* A call that has ended leaves used ids used, and the other calls alone. *)
LEMMA CallEnds ==
  ASSUME AuditIInv, NEW p \in Processes, call' = [call EXCEPT ![p] = None],
         UNCHANGED <<ids, published>>
  PROVE  /\ SpentCalls' /\ DOMAIN call' = Processes /\ call'[p] = None
         /\ \A k \in Keys : Used(k, ids, call) => Used(k, ids', call')
  <1>1. /\ DOMAIN call' = Processes /\ call'[p] = None
        /\ \A q \in Processes \ {p} : call'[q] = call[q]
    BY DEF AuditIInv, AuditInv, TypeOK
  <1>2. SpentCalls'
    BY <1>1 DEF AuditIInv, AuditInv, IdsAreSpent, SpentCalls
  <1>3. ASSUME NEW k \in Keys, Used(k, ids, call) PROVE Used(k, ids', call')
    <2>1. k[4] \in Processes
      BY KeyParts
    <2> QED
      BY <1>1, <1>3, <2>1 DEF Used
  <1> QED
    BY <1>1, <1>2, <1>3

LEMMA HandleFailsStep ==
  ASSUME AuditIInv, NEW p \in Processes, HandleFails(p)
  PROVE  AuditIInv'
  <1>1. /\ call' = [call EXCEPT ![p] = None] /\ call[p] # None
        /\ UNCHANGED <<mode, now, limits, published, inboxVars, owed, ids, entries, walk>>
    BY DEF HandleFails
  <1>2. /\ SpentCalls' /\ DOMAIN call' = Processes
        /\ \A k \in Keys : Used(k, ids, call) => Used(k, ids', call')
    BY <1>1, CallEnds
  <1>3. RateTypeOK' /\ CountsCover' /\ AdmittedWithinLimit'
        /\ \A r \in Requests : Admitted(r)' <=> Admitted(r)
    BY <1>1, RatesAlone
  <1>4. TypeOK'
    BY <1>1, <1>2, <1>3 DEF AuditIInv, AuditInv, TypeOK, inboxVars
  <1>5. OnlyPublished'
    BY <1>1, <1>3 DEF AuditIInv, AuditInv, TypeOK, OnlyPublished, inboxVars
  <1>6. IdsAreSpent'
    <2>1. ASSUME NEW f \in DOMAIN entries PROVE SpentRow(f)'
      <3>1. SpentRow(f)
        BY SpentIs DEF AuditIInv, AuditInv
      <3>2. Clock(1)' = Clock(1)
        BY <1>1 DEF Clock
      <3> QED
        BY <1>1, <1>2, <3>1, <3>2 DEF SpentRow
    <2> QED
      BY <1>1, <1>2, <2>1 DEF IdsAreSpent, SpentCalls, SpentRow, Used
  <1>7. TrailIsTrue'
    BY <1>1, <1>3, TrailAlone
  <1>8. HandledIsRecorded'
    BY <1>1 DEF AuditIInv, AuditInv, HandledIsRecorded, Waiting, inboxVars
  <1>9. WalkOnCourse' /\ WalkComplete'
    BY <1>1, WalksAlone
  <1> QED
    BY <1>3, <1>4, <1>5, <1>6, <1>7, <1>8, <1>9 DEF AuditIInv, AuditInv

LEMMA HandleCommitStep ==
  ASSUME AuditIInv, NEW p \in Processes, HandleCommit(p)
  PROVE  AuditIInv'
  <1>1. /\ call[p] # None /\ call' = [call EXCEPT ![p] = None]
        /\ entries' = Insert(call[p].eventId, call[p])
        /\ owed \ {call[p].eventId} \subseteq owed' /\ owed' \subseteq owed
        /\ UNCHANGED <<mode, now, limits, published, inboxVars, ids, walk>>
    BY DEF HandleCommit
  <1>2. PICK e \in published, time \in 0 .. MaxTime :
          call[p] = EntryUnder(<<time, ids[p].last, ids[p].counter, p>>, e)
    BY <1>1 DEF AuditIInv, AuditInv, IdsAreSpent
  <1>3. e \in Requests /\ ids[p] \in [last : 0 .. MaxTime, counter : Nat]
    BY DEF AuditIInv, AuditInv, TypeOK
  <1>4. PICK k \in Keys : k = <<time, ids[p].last, ids[p].counter, p>>
    BY <1>3 DEF Keys
  <1>5. k[2] = ids[p].last /\ k[3] = ids[p].counter /\ k[4] = p
    BY <1>4
  <1>6. call[p] = EntryUnder(k, e) /\ call[p].eventId = e
    <2>1. EntryUnder(k, e) = [id |-> k, eventId |-> e, recordedAt |-> k[1],
                              work |-> HttpWork[e], subject |-> None, tenant |-> TenantOf[e]]
      BY <1>3, RowTells
    <2>2. call[p] = EntryUnder(k, e)
      BY <1>2, <1>4
    <2> QED
      BY ONLY <2>1, <2>2
  <1>7. entries' = Insert(e, EntryUnder(k, e)) /\ mode # "memory"
    BY <1>1, <1>6 DEF AuditIInv, AuditInv, OnlyPublished
  <1>8. /\ SpentCalls' /\ DOMAIN call' = Processes /\ call'[p] = None
        /\ \A l \in Keys : Used(l, ids, call) => Used(l, ids', call')
    BY <1>1, CallEnds
  <1>9. Used(k, ids', call')
    BY <1>1, <1>5, <1>8 DEF Used
  <1>10. ASSUME NEW f \in DOMAIN entries
         PROVE  entries[f].id # k /\ Used(entries[f].id, ids', call')
    <2>1. entries[f].id \in Keys /\ Used(entries[f].id, ids, call)
      BY SpentIs DEF AuditIInv, AuditInv, SpentRow
    <2>2. ~Used(k, ids, call)
      <3>1. ids[p].last \in Nat /\ ids[p].counter \in Nat
        BY <1>3, RateLimitAssumption
      <3> QED
        BY <1>1, <1>5, <3>1 DEF Used
    <2> QED
      BY <1>8, <2>1, <2>2
  <1>11. /\ IdsAreSpent' /\ TrailIsTrue'
         /\ e \in DOMAIN entries' /\ DOMAIN entries' \subseteq published'
         /\ DOMAIN entries \subseteq DOMAIN entries'
    BY <1>1, <1>7, <1>8, <1>9, <1>10, InsertKeepsTrail
  <1>12. WalkOnCourse' /\ WalkComplete'
    BY <1>1, <1>3, <1>7, InsertKeepsWalks
  <1>13. RateTypeOK' /\ CountsCover' /\ AdmittedWithinLimit'
         /\ \A r \in Requests : Admitted(r)' <=> Admitted(r)
    BY <1>1, RatesAlone
  <1>14. TypeOK'
    BY <1>1, <1>8, <1>13 DEF AuditIInv, AuditInv, TypeOK, inboxVars
  <1>15. OnlyPublished'
    BY <1>1, <1>7, <1>11, <1>13 DEF AuditIInv, AuditInv, TypeOK, OnlyPublished, inboxVars
  <1>16. HandledIsRecorded'
    <2> SUFFICES ASSUME NEW f \in published
                 PROVE  Waiting(f)' \/ f \in DOMAIN entries'
      BY <1>1 DEF HandledIsRecorded
    <2>1. Waiting(f) \/ f \in DOMAIN entries
      BY DEF AuditIInv, AuditInv, HandledIsRecorded
    <2> QED
      BY <1>1, <1>6, <1>11, <2>1 DEF Waiting, inboxVars
  <1> QED
    BY <1>11, <1>12, <1>13, <1>14, <1>15, <1>16 DEF AuditIInv, AuditInv

-----------------------------------------------------------------------------
(* Pages.                                                                  *)

(* A page is in order and shows the first of what is found; the next one
   starts after its last key, and where there is none all has been shown. *)
LEMMA WindowIs ==
  ASSUME NEW keys \in SUBSET Keys, NEW position, NEW listed \in KeysetPage(keys, position, PageSize)
  PROVE  LET page == Window(listed, PageSize)
             found == After(keys, position)
         IN /\ page.items \in Seq(found) /\ InOrderOf(page.items)
            /\ page.next = <<>> => found \subseteq ToSet(page.items)
            /\ page.next # <<>> =>
                 /\ Len(page.items) > 0 /\ page.next = page.items[Len(page.items)]
                 /\ \A k \in found : k \in ToSet(page.items) \/ Before(page.next, k)
  <1> DEFINE page == Window(listed, PageSize)
             found == After(keys, position)
             n == PageSize
  <1>1. n \in Nat \ {0}
    BY AuditAssumption
  <1>2. found \subseteq Keys
    BY DEF After
  <1>3. /\ listed \in BoundedSeq(found, n + 1) /\ InOrderOf(listed)
        /\ \A k \in found \ ToSet(listed) :
             Len(listed) = n + 1 /\ \A i \in 1 .. Len(listed) : Before(listed[i], k)
    BY DEF KeysetPage
  <1> HIDE DEF found, n
  <1>4. listed \in Seq(found) /\ Len(listed) <= n + 1 /\ Len(listed) \in Nat
    <2>1. PICK m \in 0 .. n + 1 : listed \in [1 .. m -> found]
      BY <1>3 DEF BoundedSeq, SeqOf
    <2>2. m \in Nat /\ m <= n + 1
      BY <1>1
    <2>3. listed \in Seq(found) /\ Len(listed) = m
      BY <2>1, <2>2
    <2> QED
      BY <2>2, <2>3
  <1>5. CASE Len(listed) > n
    <2> DEFINE items == SubSeq(listed, 1, n)
    <2>1. page = [items |-> items, next |-> listed[n]]
      BY <1>5 DEF Window, n
    <2>2. page.items = items /\ page.next = listed[n]
      <3> HIDE DEF page, items
      <3> QED
        BY <2>1
    <2>3. Len(listed) = n + 1
      BY <1>1, <1>4, <1>5
    <2>4. items \in Seq(found) /\ Len(items) = n /\ \A i \in 1 .. n : items[i] = listed[i]
      BY <1>1, <1>4, <2>3
    <2> HIDE DEF items, page
    <2>5. listed[n] \in found /\ listed[n] # <<>>
      <3>1. listed[n] \in found
        BY <1>1, <1>4, <2>3
      <3> QED
        BY <1>2, <3>1, KeyParts
    <2>6. InOrderOf(items)
      BY <1>1, <1>3, <2>3, <2>4 DEF InOrderOf
    <2>7. ASSUME NEW k \in found PROVE k \in ToSet(items) \/ Before(listed[n], k)
      <3>1. CASE k \notin ToSet(listed)
        BY <1>1, <1>3, <2>3, <3>1
      <3>2. CASE k \in ToSet(listed)
        <4>1. PICK i \in 1 .. n + 1 : k = listed[i]
          BY <1>4, <2>3, <3>2 DEF ToSet
        <4>2. CASE i = n + 1
          BY <1>1, <1>3, <2>3, <4>1, <4>2 DEF InOrderOf
        <4>3. CASE i \in 1 .. n
          BY <2>4, <4>1, <4>3 DEF ToSet
        <4> QED
          BY <1>1, <4>2, <4>3
      <3> QED
        BY <3>1, <3>2
    <2>8. items[Len(items)] = listed[n] /\ Len(items) > 0
      BY <1>1, <2>4
    <2> QED
      BY <2>2, <2>4, <2>5, <2>6, <2>7, <2>8 DEF page, found, n
  <1>6. CASE ~(Len(listed) > n)
    <2>1. page = [items |-> listed, next |-> <<>>]
      BY <1>6 DEF Window, n
    <2>2. page.items = listed /\ page.next = <<>>
      BY <2>1
    <2>3. found \subseteq ToSet(listed)
      BY <1>1, <1>3, <1>4, <1>6
    <2> HIDE DEF page
    <2> QED
      BY <1>3, <1>4, <2>2, <2>3 DEF page, found, n
  <1> QED
    BY <1>5, <1>6

LEMMA AppendedInOrder ==
  ASSUME NEW s \in Seq(Keys), NEW u \in Seq(Keys), InOrderOf(s), InOrderOf(u),
         \A i \in 1 .. Len(s), j \in 1 .. Len(u) : Before(s[i], u[j])
  PROVE  /\ s \o u \in Seq(Keys) /\ InOrderOf(s \o u) /\ Len(s \o u) = Len(s) + Len(u)
         /\ ToSet(s \o u) = ToSet(s) \cup ToSet(u)
         /\ Len(u) > 0 => (s \o u)[Len(s \o u)] = u[Len(u)]
  <1> DEFINE m == Len(s)
             n == Len(u)
             c == s \o u
  <1>1. m \in Nat /\ n \in Nat /\ c \in Seq(Keys) /\ Len(c) = m + n
    OBVIOUS
  <1>2. /\ \A i \in 1 .. m : c[i] = s[i]
        /\ \A i \in m + 1 .. m + n : c[i] = u[i - m]
    OBVIOUS
  <1> HIDE DEF c
  <1>3. InOrderOf(c)
    <2> SUFFICES ASSUME NEW i \in 1 .. m + n, NEW j \in 1 .. m + n, i < j
                 PROVE  Before(c[i], c[j])
      BY <1>1 DEF InOrderOf
    <2>1. CASE j <= m
      BY <1>1, <1>2, <2>1 DEF InOrderOf
    <2>2. CASE i <= m /\ m < j
      <3>1. i \in 1 .. m /\ j \in m + 1 .. m + n /\ j - m \in 1 .. n
        BY <1>1, <2>2
      <3> QED
        BY <1>2, <3>1
    <2>3. CASE m < i
      <3>1. /\ i \in m + 1 .. m + n /\ j \in m + 1 .. m + n
            /\ i - m \in 1 .. n /\ j - m \in 1 .. n /\ i - m < j - m
        BY <1>1, <2>3
      <3>2. Before(u[i - m], u[j - m])
        BY <3>1 DEF InOrderOf
      <3> QED
        BY <1>2, <3>1, <3>2
    <2> QED
      BY <1>1, <2>1, <2>2, <2>3
  <1>4. ToSet(c) = ToSet(s) \cup ToSet(u)
    <2>1. DOMAIN c = 1 .. m + n /\ DOMAIN s = 1 .. m /\ DOMAIN u = 1 .. n
      BY <1>1
    <2>2. ToSet(c) \subseteq ToSet(s) \cup ToSet(u)
      <3> SUFFICES ASSUME NEW i \in 1 .. m + n PROVE c[i] \in ToSet(s) \cup ToSet(u)
        BY <2>1 DEF ToSet
      <3>1. CASE i <= m
        BY <1>1, <1>2, <2>1, <3>1 DEF ToSet
      <3>2. CASE i > m
        <4>1. i \in m + 1 .. m + n /\ i - m \in 1 .. n
          BY <1>1, <3>2
        <4> QED
          BY <1>2, <2>1, <4>1 DEF ToSet
      <3> QED
        BY <1>1, <3>1, <3>2
    <2>3. ToSet(s) \subseteq ToSet(c)
      <3> SUFFICES ASSUME NEW i \in 1 .. m PROVE s[i] \in ToSet(c)
        BY <2>1 DEF ToSet
      <3>1. i \in 1 .. m + n /\ c[i] = s[i]
        BY <1>1, <1>2
      <3> QED
        BY <2>1, <3>1 DEF ToSet
    <2>4. ToSet(u) \subseteq ToSet(c)
      <3> SUFFICES ASSUME NEW i \in 1 .. n PROVE u[i] \in ToSet(c)
        BY <2>1 DEF ToSet
      <3>1. i + m \in 1 .. m + n /\ i + m \in m + 1 .. m + n /\ (i + m) - m = i
        BY <1>1
      <3>2. c[i + m] = u[i]
        BY <1>2, <3>1
      <3> QED
        BY <2>1, <3>1, <3>2 DEF ToSet
    <2> QED
      BY <2>2, <2>3, <2>4
  <1>5. n > 0 => c[Len(c)] = u[n]
    <2>1. n > 0 => m + n \in m + 1 .. m + n /\ (m + n) - m = n
      BY <1>1
    <2> QED
      BY <1>1, <1>2, <2>1
  <1> QED
    BY <1>1, <1>3, <1>4, <1>5 DEF c

LEMMA PageStep ==
  ASSUME AuditIInv, NEW s \in Tenants, NEW t \in Tenants, Page(t, Cursor(s, walk[s].at))
  PROVE  AuditIInv'
  <1> DEFINE w == walk[t]
             keys == Stored(t)
  <1>1. /\ w.stage \in {"start", "next"} /\ s = t
        /\ UNCHANGED <<mode, now, limits, published, inboxVars, owed, recording>>
    BY DEF Page, Acceptable, Cursor
  <1>2. PICK listed \in KeysetPage(keys, w.at, PageSize) :
          LET page == Window(listed, PageSize)
          IN walk' = [walk EXCEPT ![t] =
               [stage |-> IF page.next = <<>> THEN "done" ELSE "next",
                at |-> page.next, seen |-> w.seen \o page.items,
                base |-> IF w.stage = "start" \/ mode = "memory" THEN keys ELSE w.base]]
    BY <1>1 DEF Page, Cursor
  <1> DEFINE page == Window(listed, PageSize)
             items == page.items
             next == page.next
             found == After(keys, w.at)
             seen == w.seen \o items
             base == IF w.stage = "start" \/ mode = "memory" THEN keys ELSE w.base
  <1>3. walk' = [walk EXCEPT ![t] = [stage |-> IF next = <<>> THEN "done" ELSE "next",
                                     at |-> next, seen |-> seen, base |-> base]]
    BY <1>2
  <1>4. keys \subseteq Keys
    <2>1. \A e \in DOMAIN entries : entries[e].id \in Keys
      BY DEF AuditIInv, AuditInv, IdsAreSpent
    <2> QED
      BY <2>1 DEF Stored
  <1>5. /\ w.seen \in Seq(Keys) /\ w.base \subseteq keys
        /\ w.stage = "start" => w.at = <<>> /\ w.seen = <<>>
        /\ w.stage = "next" =>
             /\ w.seen # <<>> /\ w.at = w.seen[Len(w.seen)]
             /\ \A k \in (IF mode = "memory" THEN keys ELSE w.base) :
                  k \in ToSet(w.seen) \/ Before(w.at, k)
    BY DEF AuditIInv, AuditInv, WalkOnCourse
  <1>6. ToSet(w.seen) \subseteq keys /\ InOrderOf(w.seen)
    BY DEF AuditIInv, WalkComplete
  <1>7. DOMAIN walk = Tenants
    BY DEF AuditIInv, AuditInv, TypeOK
  <1>8. /\ items \in Seq(found) /\ InOrderOf(items)
        /\ next = <<>> => found \subseteq ToSet(items)
        /\ next # <<>> =>
             /\ Len(items) > 0 /\ next = items[Len(items)]
             /\ \A k \in found : k \in ToSet(items) \/ Before(next, k)
    BY <1>4, WindowIs
  <1> HIDE DEF w, keys, page, items, next, found
  <1>9. /\ found \subseteq keys /\ found \subseteq Keys
        /\ w.stage = "start" => found = keys
        /\ w.stage = "next" => Len(w.seen) \in 1 .. Len(w.seen) /\ w.at \in Keys
        /\ w.stage = "next" => found = {k \in keys : Before(w.at, k)}
    <2>1. w.stage = "next" => Len(w.seen) \in 1 .. Len(w.seen) /\ w.at \in Keys /\ w.at # <<>>
      <3>1. w.stage = "next" => Len(w.seen) \in 1 .. Len(w.seen) /\ w.at \in Keys
        BY <1>5
      <3> QED
        BY <3>1, KeyParts
    <2> QED
      BY <1>4, <1>5, <2>1 DEF found, After
  <1>10. items \in Seq(Keys) /\ \A j \in 1 .. Len(items) : items[j] \in found
    BY <1>8, <1>9
  <1>11. \A i \in 1 .. Len(w.seen), j \in 1 .. Len(items) : Before(w.seen[i], items[j])
    <2> SUFFICES ASSUME NEW i \in 1 .. Len(w.seen), NEW j \in 1 .. Len(items)
                 PROVE  Before(w.seen[i], items[j])
      OBVIOUS
    <2>1. w.stage = "next"
      BY <1>1, <1>5
    <2>2. Before(w.at, items[j]) /\ items[j] \in Keys
      BY <1>9, <1>10, <2>1
    <2>3. w.seen[i] = w.at \/ Before(w.seen[i], w.at)
      BY <1>5, <1>6, <1>9, <2>1 DEF InOrderOf
    <2>4. w.seen[i] \in Keys /\ w.at \in Keys
      BY <1>5, <1>9, <2>1
    <2> QED
      BY <2>2, <2>3, <2>4, BeforeOrders
  <1>12. /\ seen \in Seq(Keys) /\ InOrderOf(seen)
         /\ ToSet(seen) = ToSet(w.seen) \cup ToSet(items)
         /\ Len(seen) = Len(w.seen) + Len(items)
         /\ Len(items) > 0 => seen[Len(seen)] = items[Len(items)]
    BY <1>5, <1>6, <1>8, <1>10, <1>11, AppendedInOrder
  <1> HIDE DEF seen
  <1>13. ToSet(items) \subseteq found
    BY <1>8 DEF ToSet
  <1>14. base \subseteq keys /\ base \subseteq ToSet(w.seen) \cup found
         /\ (mode = "memory" => base = keys)
    BY <1>1, <1>5, <1>9
  <1> HIDE DEF base
  <1>15. /\ DOMAIN walk' = Tenants
         /\ walk'[t].stage = (IF next = <<>> THEN "done" ELSE "next") /\ walk'[t].at = next
         /\ walk'[t].seen = seen /\ walk'[t].base = base
         /\ \A u \in Tenants \ {t} : walk'[u] = walk[u]
    BY <1>3, <1>7
  <1>16. \A u \in Tenants : Stored(u)' = Stored(u)
    BY <1>1 DEF Stored, recording
  <1>17. WalkComplete'
    <2> SUFFICES ASSUME NEW u \in Tenants
                 PROVE  /\ ToSet(walk'[u].seen) \subseteq Stored(u)
                        /\ InOrderOf(walk'[u].seen)
                        /\ walk'[u].stage = "done" => walk'[u].base \subseteq ToSet(walk'[u].seen)
      BY <1>16 DEF WalkComplete, InOrderOf
    <2>1. CASE u = t
      BY <1>6, <1>8, <1>9, <1>12, <1>13, <1>14, <1>15, <2>1 DEF keys
    <2>2. CASE u # t
      BY <1>15, <2>2 DEF AuditIInv, WalkComplete
    <2> QED
      BY <2>1, <2>2
  <1>18. WalkOnCourse'
    <2> SUFFICES ASSUME NEW u \in Tenants
                 PROVE  LET v == walk'[u]
                        IN /\ v.stage \in {"start", "next", "done"}
                           /\ v.seen \in Seq(Keys) /\ v.base \subseteq Stored(u)
                           /\ v.stage = "start" => v.at = <<>> /\ v.seen = <<>>
                           /\ v.stage = "next" =>
                                /\ v.seen # <<>> /\ v.at = v.seen[Len(v.seen)]
                                /\ \A k \in (IF mode = "memory" THEN Stored(u) ELSE v.base) :
                                     k \in ToSet(v.seen) \/ Before(v.at, k)
      BY <1>1, <1>16 DEF WalkOnCourse
    <2>1. CASE u = t
      <3>1. next # <<>> => seen # <<>> /\ next = seen[Len(seen)]
        BY <1>5, <1>8, <1>12
      <3>2. next # <<>> => \A k \in base : k \in ToSet(seen) \/ Before(next, k)
        BY <1>8, <1>12, <1>14
      <3> QED
        BY <1>12, <1>14, <1>15, <2>1, <3>1, <3>2 DEF keys
    <2>2. CASE u # t
      BY <1>15, <2>2 DEF AuditIInv, AuditInv, WalkOnCourse
    <2> QED
      BY <2>1, <2>2
  <1>19. RateTypeOK' /\ CountsCover' /\ AdmittedWithinLimit'
         /\ \A r \in Requests : Admitted(r)' <=> Admitted(r)
    BY <1>1, RatesAlone
  <1>20. TypeOK'
    BY <1>1, <1>15, <1>19 DEF AuditIInv, AuditInv, TypeOK, inboxVars, recording
  <1>21. OnlyPublished'
    BY <1>1, <1>19 DEF AuditIInv, AuditInv, TypeOK, OnlyPublished, inboxVars, recording
  <1>22. IdsAreSpent'
    <2>1. Clock(1)' = Clock(1) /\ Clock(1) \in Nat
      BY <1>1, ClockIsTime, AuditAssumption DEF Clock
    <2> QED
      BY <1>1, <2>1, IdsAlone DEF recording
  <1>23. TrailIsTrue'
    BY <1>1, <1>19, TrailAlone DEF recording
  <1>24. HandledIsRecorded'
    BY <1>1 DEF AuditIInv, AuditInv, HandledIsRecorded, Waiting, inboxVars, recording
  <1> QED
    BY <1>17, <1>18, <1>19, <1>20, <1>21, <1>22, <1>23, <1>24 DEF AuditIInv, AuditInv

-----------------------------------------------------------------------------
(* The results.                                                            *)

LEMMA AuditStarts == Init => AuditIInv
  <1> SUFFICES ASSUME Init PROVE AuditIInv
    OBVIOUS
  <1>1. RateTypeOK /\ CountsCover /\ AdmittedWithinLimit
    <2>1. \A r \in Requests : Len(PoliciesOf[r]) \in Nat
      BY RateLimitAssumption
    <2>2. \A b \in Buckets : LimitOf[b[1]] \in Nat \ {0}
      <3> SUFFICES ASSUME NEW r \in Requests, NEW p \in ToSet(PoliciesOf[r])
                   PROVE  LimitOf[p] \in Nat \ {0}
        BY DEF Buckets
      <3>1. p \in DOMAIN LimitOf
        BY RateLimitAssumption DEF ToSet
      <3> QED
        BY <3>1, RateLimitAssumption
    <2>3. /\ stage = [r \in Requests |-> 0] /\ turned = {} /\ buckets = [b \in Buckets |-> <<>>]
          /\ passed = [b \in Buckets |-> [s \in Starts |-> 0]]
      BY DEF Init, RateInit
    <2>4. DOMAIN (<<>>) = {}
      OBVIOUS
    <2>5. RateTypeOK
      BY <2>1, <2>3, <2>4 DEF RateTypeOK
    <2>6. CountsCover
      BY <2>3, <2>4 DEF CountsCover
    <2>7. AdmittedWithinLimit
      BY <2>2, <2>3 DEF AdmittedWithinLimit
    <2> QED
      BY <2>5, <2>6, <2>7
  <1>2. /\ DOMAIN receipts = {} /\ leased = {} /\ published = {} /\ owed = {}
        /\ DOMAIN entries = {} /\ now = 0 /\ mode \in Modes
        /\ ids = [p \in Processes |-> [last |-> 0, counter |-> 0]]
        /\ call = [p \in Processes |-> None]
        /\ walk = [t \in Tenants |-> NewWalk]
    BY DEF Init, Inbox!InboxInit
  <1>3. TypeOK
    BY <1>1, <1>2, RateLimitAssumption DEF TypeOK
  <1>4. OnlyPublished /\ TrailIsTrue /\ HandledIsRecorded /\ IdsAreSpent
    BY <1>2 DEF OnlyPublished, TrailIsTrue, HandledIsRecorded, IdsAreSpent
  <1>5. NewWalk.stage = "start" /\ NewWalk.at = <<>> /\ NewWalk.seen = <<>> /\ NewWalk.base = {}
    BY DEF NewWalk
  <1>6. <<>> \in Seq(Keys) /\ Len(<<>>) = 0 /\ ToSet(<<>>) = {}
    BY DEF ToSet
  <1>7. WalkOnCourse
    BY <1>2, <1>5, <1>6 DEF WalkOnCourse
  <1>8. WalkComplete
    BY <1>2, <1>5, <1>6 DEF WalkComplete, InOrderOf
  <1> QED
    BY <1>1, <1>3, <1>4, <1>7, <1>8 DEF AuditIInv, AuditInv

LEMMA AuditStutters ==
  ASSUME AuditIInv, UNCHANGED vars
  PROVE  AuditIInv'
  <1>1. \A t \in Tenants : Stored(t)' = Stored(t)
    BY DEF Stored, vars, recording
  <1>2. RateTypeOK' /\ CountsCover' /\ AdmittedWithinLimit'
        /\ \A r \in Requests : Admitted(r)' <=> Admitted(r)
    BY RatesAlone DEF vars
  <1>3. TypeOK' /\ OnlyPublished'
    BY <1>2 DEF AuditIInv, AuditInv, TypeOK, OnlyPublished, vars, inboxVars, recording
  <1>4. IdsAreSpent'
    <2>1. Clock(1)' = Clock(1) /\ Clock(1) \in Nat
      BY ClockIsTime, AuditAssumption DEF Clock, vars
    <2> QED
      BY <2>1, IdsAlone DEF vars, recording
  <1>5. TrailIsTrue' /\ HandledIsRecorded'
    BY <1>2, TrailAlone
       DEF AuditIInv, AuditInv, HandledIsRecorded, Waiting, vars, inboxVars, recording
  <1>6. WalkOnCourse' /\ WalkComplete'
    BY WalksAlone DEF vars, recording
  <1> QED
    BY <1>2, <1>3, <1>4, <1>5, <1>6 DEF AuditIInv, AuditInv

LEMMA AuditIInvHolds == Spec => []AuditIInv
  <1>1. AuditIInv /\ [Next]_vars => AuditIInv'
    BY TickStep, LimitStep, PublishStep, DeliverStep, HandleInMemoryStep, RequeueStep,
       HandleStep, HandleCommitStep, HandleFailsStep, PageStep, AuditStutters DEF Next
  <1> QED
    BY <1>1, AuditStarts, PTL DEF Spec

(* The audit trail is true and complete: rows read back as entries of events
   that admitted requests have published, under ids of their own, and no
   delivery ends well without its entry. *)
THEOREM TrailInvariant == Spec => []AuditInv
  <1>1. AuditIInv => AuditInv
    BY DEF AuditIInv
  <1> QED
    BY <1>1, AuditIInvHolds, PTL

(* No policy of the rate limiter lets more than its limit pass in a window. *)
THEOREM LimiterKeepsLimit == Spec => []AdmittedWithinLimit
  <1>1. AuditIInv => AdmittedWithinLimit
    BY DEF AuditIInv
  <1> QED
    BY <1>1, AuditIInvHolds, PTL

(* A walk over the pages shows each entry once, in order, and misses none that
   was stored when it began, or in memory when it ends. *)
THEOREM WalksAreComplete == Spec => []WalkComplete
  <1>1. AuditIInv => WalkComplete
    BY DEF AuditIInv
  <1> QED
    BY <1>1, AuditIInvHolds, PTL

(* The entry of an event is the first that was recorded, for good. *)
THEOREM EntriesStay == Spec => EntryIsFinal
  <1> DEFINE A == \A e \in DOMAIN entries : e \in DOMAIN entries' /\ entries'[e] = entries[e]
  <1>1. [Next]_vars => [A]_vars
    <2> SUFFICES ASSUME Next PROVE A \/ UNCHANGED vars
      OBVIOUS
    <2>1. UNCHANGED entries \/ \E e, entry : entries' = Insert(e, entry)
      BY DEF Next, Tick, Limit, Publish, DeliverInMemory, HandleInMemory, RequeueInMemory,
             Handle, HandleCommit, HandleFails, Page, recording
    <2> QED
      BY <2>1, InsertIs
  <1> QED
    BY <1>1, PTL DEF Spec, EntryIsFinal

-----------------------------------------------------------------------------
(* Lineage.                                                                *)

(* A scope that restores, of a work that does. *)
Sound(s) == s \in Executions /\ RestoreScope(s)

LEMMA SoundIs ==
  ASSUME NEW s, Sound(s)
  PROVE  /\ s.work \in Works /\ ValidateWork(s.work, FALSE)
         /\ s.work.workId \in IDs /\ s.work.correlationId \in IDs
         /\ s.work.replay # None => s.work.replay.runId \in IDs
         /\ s.scopeId \in IDs /\ s.attempt \in 1 .. MaxCount
  BY DEF Sound, Executions, RestoreScope, ValidateWork, ReplayValid, Chosen

(* Naming a work changes nothing that was named. *)
LEMMA NamedIs ==
  ASSUME NEW w \in Works, NEW i \in IDs
  PROVE  /\ Named(w, i) \in Works
         /\ Named(w, i).workId = OrElse(w.workId, i)
         /\ Named(w, i).correlationId = OrElse(w.correlationId, i)
         /\ Named(w, i).correlationSource = w.correlationSource
         /\ Named(w, i).causation = w.causation /\ Named(w, i).origin = w.origin
         /\ Named(w, i).attribution = w.attribution /\ Named(w, i).depth = w.depth
         /\ w.replay = None => Named(w, i).replay = None
         /\ w.replay # None =>
              Named(w, i).replay = [w.replay EXCEPT !.runId = OrElse(@, i)]
  <1> DEFINE run == IF w.replay = None THEN None
                    ELSE [w.replay EXCEPT !.runId = OrElse(@, i)]
             one == [w EXCEPT !.workId = OrElse(w.workId, i)]
             two == [one EXCEPT !.correlationId = OrElse(w.correlationId, i)]
             three == [two EXCEPT !.replay = run]
  <1>1. OrElse(w.workId, i) \in IDs \cup {None} /\ OrElse(w.correlationId, i) \in IDs \cup {None}
    BY DEF OrElse, Works
  <1>2. run \in Runs \cup {None}
    BY DEF OrElse, Works, Runs
  <1>3. Named(w, i) = three
    <2>1. Named(w, i) = [w EXCEPT !.workId = OrElse(w.workId, i),
                                  !.correlationId = OrElse(w.correlationId, i), !.replay = run]
      BY DEF Named, run
    <2> QED
      BY <2>1, Zenon DEF one, two, three
  <1> HIDE DEF run
  <1>4. /\ one \in Works /\ one.workId = OrElse(w.workId, i)
        /\ one.correlationId = w.correlationId /\ one.correlationSource = w.correlationSource
        /\ one.causation = w.causation /\ one.origin = w.origin
        /\ one.attribution = w.attribution /\ one.depth = w.depth
    BY <1>1 DEF Works
  <1> HIDE DEF one
  <1>5. /\ two \in Works /\ two.workId = OrElse(w.workId, i)
        /\ two.correlationId = OrElse(w.correlationId, i)
        /\ two.correlationSource = w.correlationSource
        /\ two.causation = w.causation /\ two.origin = w.origin
        /\ two.attribution = w.attribution /\ two.depth = w.depth
    BY <1>1, <1>4 DEF Works
  <1> HIDE DEF two
  <1>6. /\ three \in Works /\ three.workId = OrElse(w.workId, i)
        /\ three.correlationId = OrElse(w.correlationId, i)
        /\ three.correlationSource = w.correlationSource
        /\ three.causation = w.causation /\ three.origin = w.origin
        /\ three.attribution = w.attribution /\ three.depth = w.depth
        /\ three.replay = run
    BY <1>2, <1>5 DEF Works
  <1> QED
    BY <1>3, <1>6 DEF run

(* What #emit makes is sound. *)
LEMMA EmitIs ==
  ASSUME NEW work \in Works, NEW attempt \in Nat, NEW previous \in IDs \cup {None},
         NEW forbidden, NEW i \in IDs, NEW s,
         s = Emit(work, attempt, previous, forbidden, i), s # None
  PROVE  /\ Sound(s) /\ s.work = Named(work, i) /\ s.scopeId = i
         /\ s.attempt = attempt /\ s.previousAttempt = previous /\ i \notin forbidden
  <1> DEFINE scope == [work |-> Named(work, i), scopeId |-> i, attempt |-> attempt,
                       previousAttempt |-> previous]
  <1>1. scope \in Executions
    BY NamedIs DEF Executions
  <1>2. s = scope /\ RestoreScope(scope) /\ i \notin forbidden
    BY DEF Emit
  <1>3. scope.work = Named(work, i) /\ scope.scopeId = i
        /\ scope.attempt = attempt /\ scope.previousAttempt = previous
    OBVIOUS
  <1> HIDE DEF scope
  <1> QED
    BY <1>1, <1>2, <1>3 DEF Sound

(* When it makes something. *)
LEMMA EmitSucceeds ==
  ASSUME NEW work \in Works, NEW attempt \in 1 .. MaxCount, NEW previous \in IDs \cup {None},
         NEW forbidden, NEW i \in IDs \ forbidden,
         ValidateWork(work, TRUE), ValidateWork(Named(work, i), FALSE),
         previous # None => previous # i /\ attempt # 1,
         work.causation # [kind |-> "scope", id |-> i]
  PROVE  Emit(work, attempt, previous, forbidden, i) # None
  <1> DEFINE scope == [work |-> Named(work, i), scopeId |-> i, attempt |-> attempt,
                       previousAttempt |-> previous]
  <1>1. attempt \in Nat /\ i \in IDs
    BY ProvenanceAssumption
  <1>2. scope \in Executions
    BY <1>1, NamedIs DEF Executions
  <1>3. scope.work = Named(work, i) /\ scope.scopeId = i
        /\ scope.attempt = attempt /\ scope.previousAttempt = previous
    OBVIOUS
  <1>4. Named(work, i).causation = work.causation
    BY <1>1, NamedIs
  <1>5. Emit(work, attempt, previous, forbidden, i) = IF RestoreScope(scope) THEN scope ELSE None
    BY DEF Emit
  <1> HIDE DEF scope
  <1>6. RestoreScope(scope)
    BY <1>1, <1>3, <1>4 DEF RestoreScope
  <1> QED
    BY <1>2, <1>5, <1>6, ProvenanceAssumption

(* Sound work survives the envelope and the row. *)
LEMMA SoundSurvives ==
  ASSUME NEW s, Sound(s)
  PROVE  Survives(s.work)
  <1> DEFINE w == s.work
  <1>1. w \in Works /\ ValidateWork(w, FALSE)
    BY SoundIs
  <1> HIDE DEF w
  <1>2. ASSUME NEW e \in IDs
        PROVE  AssertEventWork(EnvelopeCreate(e, w, "payload", None, None), w)
    <2> DEFINE event == EnvelopeCreate(e, w, "payload", None, None)
    <2>1. event = [id |-> e, work |-> w, payload |-> "payload", subject |-> None,
                   tenant |-> None]
      BY <1>1, EnvelopeIs
    <2> HIDE DEF event
    <2>2. event.work = w
      BY <2>1
    <2> QED
      BY <2>2 DEF AssertEventWork, event
  <1>3. DecodeWork(EncodeWork(w)) = w
    BY <1>1, ValidWorkArrives
  <1> QED
    BY <1>2, <1>3 DEF Survives, w

(* A root is a work without a cause, in a correlation of its own. *)
LEMMA RootWorkIs ==
  ASSUME NEW w \in IDs \cup {None}, NEW origin \in Origins, NEW who \in Attributions
  PROVE  RootWork(w, origin, who) \in Works
  BY DEF RootWork, Works

LEMMA SomeoneIs == Someone \in Attributions
  <1>1. (CHOOSE n \in Names : TRUE) \in Names
    BY ProvenanceAssumption
  <1> QED
    BY <1>1 DEF Someone, Attributions, Actors

LEMMA RootsAreSound ==
  ASSUME NEW s \in Roots
  PROVE  Sound(s)
  <1>1. /\ 1 \in Nat /\ None \in IDs \cup {None} /\ Someone \in Attributions
        /\ {"request", "message", "replay"} \subseteq Origins /\ s # None
    BY SomeoneIs DEF Origins, Roots
  <1>2. ASSUME NEW w \in Optional(IDs), NEW i \in IDs, s = Open(w, "request", Someone, i)
        PROVE  Sound(s)
    <2>1. RootWork(w, "request", Someone) \in Works
      BY <1>1, RootWorkIs DEF Optional
    <2>2. s = Emit(RootWork(w, "request", Someone), 1, None, {}, i)
      BY <1>2 DEF Open
    <2> QED
      BY <1>1, <2>1, <2>2, EmitIs
  <1>3. ASSUME NEW w \in Optional(IDs), NEW c \in Optional(IDs), NEW f \in Optional(References),
               NEW i \in IDs, s = Enter(w, "message", Someone, c, f, i)
        PROVE  Sound(s)
    <2> DEFINE root == RootWork(w, "message", Someone)
               one == [root EXCEPT !.correlationId = c]
               two == [one EXCEPT !.correlationSource = "external"]
               three == [two EXCEPT !.causation = f]
               four == [three EXCEPT !.origin = None]
               five == [four EXCEPT !.depth = None]
               work == IF c = None THEN root ELSE five
    <2>1. root \in Works
      BY <1>1, RootWorkIs DEF Optional
    <2>2. s = Emit(work, 1, None, {}, i)
      BY <1>3 DEF Enter
    <2> HIDE DEF root
    <2>3. one \in Works
      BY <2>1 DEF Works, Optional
    <2> HIDE DEF one
    <2>4. two \in Works
      BY <2>3 DEF Works
    <2> HIDE DEF two
    <2>5. three \in Works
      BY <2>4 DEF Works, Optional
    <2> HIDE DEF three
    <2>6. four \in Works
      BY <2>5 DEF Works
    <2> HIDE DEF four
    <2>7. work \in Works
      BY <2>1, <2>6 DEF Works
    <2> HIDE DEF work
    <2> QED
      BY <1>1, <2>2, <2>7, EmitIs
  <1>4. ASSUME NEW f \in References, NEW n \in Optional(IDs), NEW w \in Optional(IDs),
               NEW i \in IDs, s = Replay(f, n, w, Someone, i)
        PROVE  Sound(s)
    <2> DEFINE root == RootWork(w, "replay", Someone)
               work == [root EXCEPT !.replay = [runId |-> n, source |-> f]]
    <2>1. root \in Works
      BY <1>1, RootWorkIs DEF Optional
    <2>2. s = Emit(work, 1, None, IF f.kind = "scope" THEN {f.id} ELSE {}, i)
      BY <1>1, <1>4 DEF Replay
    <2> HIDE DEF root
    <2>3. work \in Works
      BY <2>1 DEF Works, Runs, Optional
    <2> HIDE DEF work
    <2> QED
      BY <1>1, <2>2, <2>3, EmitIs
  <1> QED
    BY <1>2, <1>3, <1>4 DEF Roots

(* The work of a child. *)
LEMMA ChildWorkIs ==
  ASSUME NEW s, Sound(s), NEW w \in IDs \cup {None}, NEW f \in References \cup {None}
  PROVE  LET work == ChildWork(s, w, f) IN
         /\ work \in Works /\ work.workId = w
         /\ work.correlationId = s.work.correlationId
         /\ work.correlationSource = s.work.correlationSource
         /\ work.origin = s.work.origin /\ work.attribution = s.work.attribution
         /\ work.replay = s.work.replay
         /\ work.depth = IF s.work.depth = None THEN None ELSE s.work.depth + 1
         /\ work.causation \in References
         /\ f = None => work.causation = [kind |-> "scope", id |-> s.scopeId]
  <1> DEFINE p == s.work
             cause == OrElse(f, [kind |-> "scope", id |-> s.scopeId])
             depth == IF p.depth = None THEN None ELSE p.depth + 1
             one == [p EXCEPT !.workId = w]
             two == [one EXCEPT !.depth = depth]
             three == [two EXCEPT !.causation = cause]
  <1>1. p \in Works /\ s.scopeId \in IDs
    BY SoundIs
  <1>2. cause \in References /\ (f = None => cause = [kind |-> "scope", id |-> s.scopeId])
    BY <1>1, ProvenanceAssumption DEF OrElse, References
  <1>3. depth \in Nat \cup {None}
    BY <1>1 DEF Works
  <1>4. ChildWork(s, w, f) = three
    <2>1. ChildWork(s, w, f) = [p EXCEPT !.workId = w, !.depth = depth, !.causation = cause]
      BY DEF ChildWork
    <2> QED
      BY <2>1, Zenon DEF one, two, three
  <1> HIDE DEF p, cause, depth
  <1>5. /\ one \in Works /\ one.workId = w /\ one.correlationId = p.correlationId
        /\ one.correlationSource = p.correlationSource
        /\ one.origin = p.origin /\ one.attribution = p.attribution /\ one.replay = p.replay
    BY <1>1 DEF Works
  <1> HIDE DEF one
  <1>6. /\ two \in Works /\ two.workId = w /\ two.correlationId = p.correlationId
        /\ two.correlationSource = p.correlationSource
        /\ two.origin = p.origin /\ two.attribution = p.attribution /\ two.replay = p.replay
        /\ two.depth = depth
    BY <1>3, <1>5 DEF Works
  <1> HIDE DEF two
  <1>7. /\ three \in Works /\ three.workId = w /\ three.correlationId = p.correlationId
        /\ three.correlationSource = p.correlationSource
        /\ three.origin = p.origin /\ three.attribution = p.attribution
        /\ three.replay = p.replay /\ three.depth = depth /\ three.causation = cause
    BY <1>2, <1>6 DEF Works
  <1> HIDE DEF three
  <1> QED
    BY <1>2, <1>4, <1>7 DEF p, depth

(* What has a name keeps it. *)
LEMMA NamedAlready ==
  ASSUME NEW w \in Works, NEW i \in IDs, w.correlationId \in IDs,
         w.replay # None => w.replay.runId \in IDs
  PROVE  Named(w, i).correlationId = w.correlationId /\ Named(w, i).replay = w.replay
  <1>1. Named(w, i).correlationId = w.correlationId
    BY NamedIs, ProvenanceAssumption DEF OrElse
  <1>2. CASE w.replay = None
    BY <1>1, <1>2, NamedIs
  <1>3. CASE w.replay # None
    <2>1. w.replay \in Runs /\ w.replay.runId # None
      BY <1>3, ProvenanceAssumption DEF Works
    <2>2. Named(w, i).replay = [w.replay EXCEPT !.runId = OrElse(@, i)]
      BY <1>3, NamedIs
    <2>3. OrElse(w.replay.runId, i) = w.replay.runId
      BY <2>1 DEF OrElse
    <2>4. [w.replay EXCEPT !.runId = w.replay.runId] = w.replay
      BY <2>1 DEF Runs
    <2> QED
      BY <1>1, <2>2, <2>3, <2>4
  <1> QED
    BY <1>2, <1>3

(* What #emit makes of a child's work has the parent's lineage. *)
LEMMA ChildInherits ==
  ASSUME NEW s, Sound(s), NEW w \in IDs \cup {None}, w # s.work.workId,
         NEW f \in References \cup {None}, NEW forbidden, NEW i \in IDs,
         w = None => s.work.workId \in forbidden,
         NEW c, c = Emit(ChildWork(s, w, f), 1, None, forbidden, i), c # None
  PROVE  Sound(c) /\ Inherited(c, s)
  <1> DEFINE work == ChildWork(s, w, f)
  <1>1. /\ work \in Works /\ work.workId = w
        /\ work.correlationId = s.work.correlationId
        /\ work.origin = s.work.origin /\ work.attribution = s.work.attribution
        /\ work.replay = s.work.replay
        /\ work.depth = IF s.work.depth = None THEN None ELSE s.work.depth + 1
        /\ work.causation \in References
    BY ChildWorkIs
  <1> HIDE DEF work
  <1>2. Sound(c) /\ c.work = Named(work, i) /\ c.attempt = 1 /\ i \notin forbidden
    <2>1. 1 \in Nat /\ None \in IDs \cup {None} /\ c = Emit(work, 1, None, forbidden, i)
      BY DEF work
    <2>2. work \in Works
      BY <1>1
    <2> QED
      BY <2>1, <2>2, EmitIs
  <1>3. /\ Named(work, i).workId = OrElse(w, i) /\ Named(work, i).causation = work.causation
        /\ Named(work, i).origin = work.origin /\ Named(work, i).attribution = work.attribution
        /\ Named(work, i).depth = work.depth
    BY <1>1, NamedIs
  <1>4. Named(work, i).correlationId = work.correlationId /\ Named(work, i).replay = work.replay
    BY <1>1, SoundIs, NamedAlready
  <1>5. OrElse(w, i) # s.work.workId
    BY <1>2 DEF OrElse
  <1>6. c.work.causation # None
    BY <1>1, <1>2, <1>3, ProvenanceAssumption
  <1> QED
    BY <1>1, <1>2, <1>3, <1>4, <1>5, <1>6 DEF Inherited

LEMMA ChildrenInherit ==
  ASSUME NEW s, Sound(s), NEW c \in Children(s)
  PROVE  Sound(c) /\ Inherited(c, s)
  <1>1. c # None
    BY DEF Children
  <1>2. ASSUME NEW w \in Optional(IDs), NEW f \in Optional(References), NEW i \in IDs,
               c = Child(s, w, f, i)
        PROVE  Sound(c) /\ Inherited(c, s)
    <2> DEFINE forbidden == {s.scopeId} \cup (IF w = None THEN {s.work.workId} ELSE {})
    <2>1. w \in IDs \cup {None} /\ f \in References \cup {None}
      BY DEF Optional
    <2>2. w # s.work.workId /\ c = Emit(ChildWork(s, w, f), 1, None, forbidden, i)
      BY <1>1, <1>2 DEF Child
    <2>3. w = None => s.work.workId \in forbidden
      OBVIOUS
    <2> HIDE DEF forbidden
    <2> QED
      BY <1>1, <2>1, <2>2, <2>3, ChildInherits
  <1>3. ASSUME NEW w \in IDs, Prepare(s, w, None) # None, NEW i \in IDs,
               c = Execute(Prepare(s, w, None), 1, i)
        PROVE  Sound(c) /\ Inherited(c, s)
    <2>1. Prepare(s, w, None) = ChildWork(s, w, None) /\ w # s.work.workId
      BY <1>3 DEF Prepare
    <2>2. c = Emit(ChildWork(s, w, None), 1, None, {}, i) /\ w # None
      BY <1>3, <2>1, ProvenanceAssumption DEF Execute
    <2> QED
      BY <1>1, <2>1, <2>2, ChildInherits
  <1> QED
    BY <1>2, <1>3 DEF Children

(* A retry is the same work. *)
LEMMA RetriesContinue ==
  ASSUME NEW s, Sound(s), NEW r \in Retries(s)
  PROVE  r.work = s.work /\ r.attempt = s.attempt + 1 /\ r.previousAttempt = s.scopeId
  <1> DEFINE w == s.work
  <1>1. PICK i \in IDs : r = Retry(s, i) /\ r # None
    BY DEF Retries
  <1>2. /\ w \in Works /\ w.workId \in IDs /\ w.correlationId \in IDs
        /\ w.replay # None => w.replay.runId \in IDs
        /\ s.scopeId \in IDs /\ s.attempt + 1 \in Nat
    <2>1. MaxCount \in Nat /\ s.attempt \in 1 .. MaxCount
      BY SoundIs, ProvenanceAssumption
    <2>2. s.attempt + 1 \in Nat
      BY <2>1
    <2> QED
      BY <2>2, SoundIs
  <1>3. r = Emit(w, s.attempt + 1, s.scopeId, {s.scopeId}, i)
    BY <1>1 DEF Retry
  <1> HIDE DEF w
  <1>4. r.work = Named(w, i) /\ r.attempt = s.attempt + 1 /\ r.previousAttempt = s.scopeId
    BY <1>1, <1>2, <1>3, EmitIs
  <1>5. Named(w, i) \in Works /\ Named(w, i).workId = w.workId
        /\ Named(w, i).correlationSource = w.correlationSource
        /\ Named(w, i).causation = w.causation /\ Named(w, i).origin = w.origin
        /\ Named(w, i).attribution = w.attribution /\ Named(w, i).depth = w.depth
    BY <1>2, NamedIs, ProvenanceAssumption DEF OrElse
  <1>6. Named(w, i).correlationId = w.correlationId /\ Named(w, i).replay = w.replay
    BY <1>2, NamedAlready
  <1>7. Named(w, i) = w
    BY <1>2, <1>5, <1>6 DEF Works
  <1> QED
    BY <1>4, <1>7 DEF w

(* A new id makes a child, and a retry of what had no cause. *)
LEMMA NewIdSucceeds ==
  ASSUME NEW s, Sound(s), s.work.replay = None,
         NEW i \in IDs \ {s.work.workId, s.work.correlationId, s.scopeId}
  PROVE  /\ s.work.depth = MaxCount \/ Child(s, None, None, i) # None
         /\ s.work.causation # None \/ s.attempt = MaxCount \/ Retry(s, i) # None
  <1> DEFINE p == s.work
  <1>1. /\ p \in Works /\ ValidateWork(p, FALSE) /\ p.workId \in IDs /\ p.correlationId \in IDs
        /\ s.scopeId \in IDs /\ s.attempt \in 1 .. MaxCount /\ MaxCount \in Nat
        /\ None \notin IDs /\ None \notin References
    BY SoundIs, ProvenanceAssumption
  <1>2. /\ p.correlationSource \in {"local", "external"} /\ p.attribution \in Attributions
        /\ p.origin \in Origins \cup {None} /\ p.origin # "replay" /\ p.replay = None
        /\ DepthValid(p)
    BY <1>1 DEF ValidateWork, ReplayValid
  <1>3. ASSUME p.depth # MaxCount
        PROVE  Child(s, None, None, i) # None
    <2> DEFINE work == ChildWork(s, None, None)
               forbidden == {s.scopeId} \cup {p.workId}
    <2>1. /\ work \in Works /\ work.workId = None /\ work.correlationId = p.correlationId
          /\ work.correlationSource = p.correlationSource
          /\ work.origin = p.origin /\ work.attribution = p.attribution
          /\ work.replay = p.replay
          /\ work.depth = IF p.depth = None THEN None ELSE p.depth + 1
          /\ work.causation \in References
          /\ work.causation = [kind |-> "scope", id |-> s.scopeId]
      BY ChildWorkIs
    <2>2. Child(s, None, None, i) = Emit(work, 1, None, forbidden, i)
      BY <1>1, <1>3 DEF Child
    <2> HIDE DEF work
    <2> DEFINE named == Named(work, i)
    <2>3. /\ named.workId = i /\ named.correlationId = p.correlationId
          /\ named.correlationSource = p.correlationSource
          /\ named.origin = p.origin /\ named.attribution = p.attribution
          /\ named.replay = None /\ named.depth = work.depth
          /\ named.causation = work.causation
      <3>1. OrElse(None, i) = i /\ OrElse(p.correlationId, i) = p.correlationId
        BY <1>1 DEF OrElse
      <3>2. /\ named.workId = OrElse(work.workId, i)
            /\ named.correlationId = OrElse(work.correlationId, i)
            /\ named.correlationSource = work.correlationSource
            /\ named.causation = work.causation /\ named.origin = work.origin
            /\ named.attribution = work.attribution /\ named.depth = work.depth
            /\ work.replay = None => named.replay = None
        <4>1. work \in Works /\ i \in IDs
          BY <2>1
        <4> QED
          BY <4>1, NamedIs
      <3> HIDE DEF named
      <3> QED
        BY <1>2, <2>1, <3>1, <3>2
    <2> HIDE DEF named
    <2>4. p.depth # None => p.depth \in 0 .. MaxCount
      BY <1>2 DEF DepthValid
    <2>5. work.depth # None => work.depth \in 1 .. MaxCount
      BY <1>1, <1>3, <2>1, <2>4
    <2>6. DepthValid(work) /\ DepthValid(named)
      <3>1. work.causation # None
        BY <1>1, <2>1
      <3> QED
        BY <1>1, <2>3, <2>5, <3>1 DEF DepthValid
    <2>7. NotItself(work.causation, work) /\ NotItself(named.causation, named)
      BY <2>1, <2>3 DEF NotItself
    <2>8. ValidateWork(work, TRUE)
      BY <1>1, <1>2, <2>1, <2>6, <2>7 DEF ValidateWork, Chosen, ReplayValid
    <2>9. ValidateWork(named, FALSE)
      BY <1>1, <1>2, <2>3, <2>6, <2>7 DEF ValidateWork, Chosen, ReplayValid
    <2>10. work.causation # [kind |-> "scope", id |-> i]
      BY <2>1
    <2>11. i \in IDs \ forbidden /\ 1 \in 1 .. MaxCount
      BY <1>1
    <2> HIDE DEF forbidden
    <2>12. Emit(work, 1, None, forbidden, i) # None
      BY <2>1, <2>8, <2>9, <2>10, <2>11, EmitSucceeds DEF named
    <2> QED
      BY <2>2, <2>12
  <1>4. ASSUME p.causation = None, s.attempt # MaxCount
        PROVE  Retry(s, i) # None
    <2>1. Retry(s, i) = Emit(p, s.attempt + 1, s.scopeId, {s.scopeId}, i)
      BY <1>4 DEF Retry
    <2> DEFINE named == Named(p, i)
    <2>2. /\ named.workId = p.workId /\ named.correlationId = p.correlationId
          /\ named.correlationSource = p.correlationSource
          /\ named.origin = p.origin /\ named.attribution = p.attribution
          /\ named.replay = None /\ named.depth = p.depth /\ named.causation = None
      <3>1. OrElse(p.workId, i) = p.workId /\ OrElse(p.correlationId, i) = p.correlationId
        BY <1>1 DEF OrElse
      <3> QED
        BY <1>1, <1>2, <1>4, <3>1, NamedIs
    <2> HIDE DEF p, named
    <2>3. ValidateWork(p, TRUE)
      BY <1>1, <1>2 DEF ValidateWork, Chosen, ReplayValid
    <2>4. ValidateWork(named, FALSE)
      BY <1>1, <1>2, <1>4, <2>2 DEF ValidateWork, Chosen, ReplayValid, DepthValid, NotItself
    <2>5. p.causation # [kind |-> "scope", id |-> i]
      BY <1>1, <1>4 DEF References
    <2>6. s.attempt + 1 \in 1 .. MaxCount /\ s.attempt + 1 # 1
      BY <1>1, <1>4
    <2>7. i \in IDs \ {s.scopeId} /\ s.scopeId \in IDs \cup {None} /\ s.scopeId # i
      BY <1>1
    <2>8. Emit(p, s.attempt + 1, s.scopeId, {s.scopeId}, i) # None
      BY <1>1, <2>3, <2>4, <2>5, <2>6, <2>7, EmitSucceeds DEF named
    <2> QED
      BY <2>1, <2>8
  <1> QED
    BY <1>3, <1>4

(* A request's work opens with any id and for anybody. *)
LEMMA OpenSucceeds ==
  ASSUME NEW a \in Attributions, NEW i \in IDs
  PROVE  Sound(Open(None, "request", a, i))
  <1> DEFINE root == RootWork(None, "request", a)
             named == Named(root, i)
  <1>1. i # None /\ 1 \in 1 .. MaxCount /\ 1 \in Nat /\ MaxCount \in Nat
        /\ None \notin IDs /\ None \notin References /\ "request" \in Origins
    BY ProvenanceAssumption DEF Origins
  <1>2. root \in Works
    BY <1>1, RootWorkIs
  <1>3. /\ root.workId = None /\ root.correlationId = None /\ root.correlationSource = "local"
        /\ root.causation = None /\ root.origin = "request" /\ root.attribution = a
        /\ root.depth = 0 /\ root.replay = None
    BY DEF RootWork
  <1>4. Open(None, "request", a, i) = Emit(root, 1, None, {}, i)
    BY DEF Open
  <1> HIDE DEF root
  <1>5. /\ named.workId = i /\ named.correlationId = i /\ named.correlationSource = "local"
        /\ named.causation = None /\ named.origin = "request" /\ named.attribution = a
        /\ named.depth = 0 /\ named.replay = None
    BY <1>2, <1>3, NamedIs DEF OrElse
  <1> HIDE DEF named
  <1>6. ValidateWork(root, TRUE)
    BY <1>1, <1>3 DEF ValidateWork, Chosen, ReplayValid, DepthValid, NotItself
  <1>7. ValidateWork(named, FALSE)
    BY <1>1, <1>5 DEF ValidateWork, Chosen, ReplayValid, DepthValid, NotItself
  <1>8. root.causation # [kind |-> "scope", id |-> i]
    BY <1>1, <1>3 DEF References
  <1>9. Emit(root, 1, None, {}, i) # None
    BY <1>1, <1>2, <1>6, <1>7, <1>8, EmitSucceeds DEF named
  <1> QED
    BY <1>1, <1>2, <1>4, <1>9, EmitIs

(* The factory keeps the lineage of whatever it makes. *)
LEMMA FactoryKeepsLineage == ScopesKeepLineage
  <1>1. ASSUME NEW a \in Attributions, NEW i \in IDs
        PROVE  Survives(Open(None, "request", a, i).work)
    BY OpenSucceeds, SoundSurvives
  <1>2. ASSUME NEW s \in Scopes
        PROVE  Sound(s)
    <2>1. ASSUME NEW i \in IDs, s \in Children(Open(None, "request", Someone, i))
          PROVE  Sound(s)
      BY <2>1, SomeoneIs, OpenSucceeds, ChildrenInherit
    <2> QED
      BY <1>2, <2>1, RootsAreSound DEF Scopes
  <1>3. ASSUME NEW s \in Scopes, NEW c \in Children(s)
        PROVE  Survives(c.work) /\ Inherited(c, s)
    BY <1>2, ChildrenInherit, SoundSurvives
  <1>4. ASSUME NEW s \in Scopes
        PROVE  Survives(s.work)
    BY <1>2, SoundSurvives
  <1>5. ASSUME NEW s \in Scopes, NEW r \in Retries(s)
        PROVE  r.work = s.work /\ r.attempt = s.attempt + 1 /\ r.previousAttempt = s.scopeId
    BY <1>2, RetriesContinue
  <1>6. ASSUME NEW s \in Scopes, s.work.replay = None,
               NEW i \in IDs \ {s.work.workId, s.work.correlationId, s.scopeId}
        PROVE  /\ s.work.depth = MaxCount \/ Child(s, None, None, i) # None
               /\ s.work.causation # None \/ s.attempt = MaxCount \/ Retry(s, i) # None
    BY <1>2, <1>6, NewIdSucceeds
  <1> QED
    BY <1>1, <1>3, <1>4, <1>5, <1>6 DEF ScopesKeepLineage

(* What a row tells of a request's work can be continued. *)
LEMMA RecordedContinues ==
  ASSUME NEW e \in Requests, NEW s, NEW i \in IDs \ {e},
         s = [work |-> HttpWork[e], scopeId |-> e, attempt |-> 1, previousAttempt |-> None]
  PROVE  LET c == Child(s, None, None, i) IN c # None /\ Inherited(c, s)
  <1>1. s.work = HttpWork[e] /\ s.scopeId = e /\ s.attempt = 1 /\ s.previousAttempt = None
    OBVIOUS
  <1>2. HttpWork[e] \in Works /\ ValidateWork(HttpWork[e], FALSE)
    BY HttpWorkIs
  <1>3. /\ HttpWork[e].workId = e /\ HttpWork[e].correlationId = e
        /\ HttpWork[e].causation = None /\ HttpWork[e].depth = 0 /\ HttpWork[e].replay = None
    <2> DEFINE w == HttpWork[e]
    <2>1. w = [workId |-> e, correlationId |-> e, correlationSource |-> "local",
               causation |-> None, origin |-> "request",
               attribution |-> [initiator |-> [kind |-> "anonymous", identity |-> None],
                                onBehalfOf |-> None, tenant |-> None],
               depth |-> 0, replay |-> None]
      BY HttpWorkIs
    <2> HIDE DEF w
    <2>2. /\ w.workId = e /\ w.correlationId = e /\ w.causation = None /\ w.depth = 0
          /\ w.replay = None
      BY ONLY <2>1
    <2> QED
      BY <2>2 DEF w
  <1>4. e \in IDs /\ None \notin References /\ MaxCount \in Nat \ {0}
    BY AuditAssumption, ProvenanceAssumption
  <1>5. s \in Executions
    BY <1>2, <1>4 DEF Executions
  <1>6. [kind |-> "scope", id |-> e] # None
    BY <1>4 DEF References
  <1>7. Sound(s)
    <2>1. s.work.causation # [kind |-> "scope", id |-> s.scopeId] /\ 1 \in 1 .. MaxCount
      BY <1>1, <1>3, <1>4, <1>6
    <2>2. RestoreScope(s)
      BY <1>1, <1>2, <1>4, <2>1 DEF RestoreScope
    <2> QED
      BY <1>5, <2>2 DEF Sound
  <1>8. Child(s, None, None, i) # None
    <2>1. i \in IDs \ {s.work.workId, s.work.correlationId, s.scopeId}
      BY <1>1, <1>3
    <2>2. s.work.depth # MaxCount /\ s.work.replay = None
      BY <1>1, <1>3, <1>4
    <2> QED
      BY <1>7, <2>1, <2>2, NewIdSucceeds
  <1>9. Child(s, None, None, i) \in Children(s)
    BY <1>8 DEF Children, Optional
  <1> QED
    BY <1>7, <1>8, <1>9, ChildrenInherit

(* However work is handed on, opened, continued, retried or replayed by the
   factory (factory.ts), in an event's envelope or an audit row, its lineage is
   kept, and the work of every entry on the trail can be continued from what
   its row tells. *)
THEOREM LineageIsKept == Spec => []LineageKept
  <1>1. AuditIInv => LineageKept
    <2> SUFFICES ASSUME AuditIInv, NEW e \in DOMAIN entries, NEW i \in IDs \ {e}
                 PROVE  LET c == Child(RecordedScope(e), None, None, i)
                        IN c # None /\ Inherited(c, RecordedScope(e))
      BY FactoryKeepsLineage DEF LineageKept
    <2>1. e \in Requests /\ EntryFrom(entries[e]).work = HttpWork[e]
      BY DEF AuditIInv, AuditInv, OnlyPublished, TypeOK, TrailIsTrue
    <2>2. RecordedScope(e) = [work |-> HttpWork[e], scopeId |-> e, attempt |-> 1,
                              previousAttempt |-> None]
      BY <2>1 DEF RecordedScope
    <2> QED
      BY <2>1, <2>2, RecordedContinues
  <1> QED
    BY <1>1, AuditIInvHolds, PTL

=============================================================================
