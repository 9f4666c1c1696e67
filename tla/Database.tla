------------------------------ MODULE Database ------------------------------
(***************************************************************************)
(* Database.transaction and close of shared/postgres/index.ts.             *)
(*                                                                         *)
(* A call leases a client from the pool, runs the caller's function        *)
(* between BEGIN and COMMIT or ROLLBACK, and races it against a timer and  *)
(* the caller's signal.  Whichever comes first decides what the caller is  *)
(* told; the server may still be working on what was sent to it.  A step   *)
(* is what runs between two awaits.                                        *)
(***************************************************************************)
EXTENDS Naturals, FiniteSets

CONSTANTS
  Calls,           \* concurrent calls of transaction
  MaxConnections   \* the pool's size

ASSUME DatabaseAssumption == MaxConnections \in Nat \ {0}

VARIABLES
  pc,        \* where each call is
  signal,    \* whether the caller has aborted it
  client,    \* the call's client: none, leased, or how it was released
  tx,        \* the server's side of the call's transaction; deciding once a
             \* COMMIT has been sent to it
  result,    \* what the caller was told, "none" before that
  pool       \* open, ending (#closing is set) or ended

vars == <<pc, signal, client, tx, result, pool>>

TypeOK ==
  /\ pc \in [Calls -> {"idle", "connecting", "begin", "body", "rollback", "commit", "over"}]
  /\ signal \in [Calls -> BOOLEAN]
  /\ client \in [Calls -> {"none", "leased", "pooled", "destroyed"}]
  /\ tx \in [Calls -> {"none", "open", "deciding", "committed", "rolledback"}]
  /\ result \in [Calls -> {"none", "ok", "failed", "canceled", "timeout", "uncertain"}]
  /\ pool \in {"open", "ending", "ended"}

Init ==
  /\ pc = [c \in Calls |-> "idle"]
  /\ signal = [c \in Calls |-> FALSE]
  /\ client = [c \in Calls |-> "none"]
  /\ tx = [c \in Calls |-> "none"]
  /\ result = [c \in Calls |-> "none"]
  /\ pool = "open"

Leased == {c \in Calls : client[c] = "leased"}
Unsettled(c) == tx[c] \in {"open", "deciding"}

(* release(destroy), at most once, and the call returns its result. *)
Return(c, how, verdict) ==
  /\ pc' = [pc EXCEPT ![c] = "over"]
  /\ client' = [client EXCEPT ![c] = how]
  /\ result' = [result EXCEPT ![c] = verdict]
  /\ UNCHANGED <<signal, pool>>

-----------------------------------------------------------------------------
(* Entering.                                                               *)

Call(c) ==
  /\ pc[c] = "idle"
  /\ pool = "open"
  /\ ~signal[c]
  /\ pc' = [pc EXCEPT ![c] = "connecting"]
  /\ UNCHANGED <<signal, client, tx, result, pool>>

(* database.closed, or the signal is aborted before anything was done. *)
CallRefused(c) ==
  /\ pc[c] = "idle"
  /\ pool # "open" \/ signal[c]
  /\ Return(c, "none", IF pool # "open" THEN "failed" ELSE "canceled")
  /\ UNCHANGED tx

(* pool.connect resolves.  A signal aborted while waiting for it is noticed
   before BEGIN is sent. *)
Connect(c) ==
  /\ pc[c] = "connecting"
  /\ pool # "ended"
  /\ Cardinality(Leased) < MaxConnections
  /\ IF signal[c]
       THEN Return(c, "destroyed", "canceled")
       ELSE /\ pc' = [pc EXCEPT ![c] = "begin"]
            /\ client' = [client EXCEPT ![c] = "leased"]
            /\ UNCHANGED <<signal, result, pool>>
  /\ UNCHANGED tx

(* connectionTimeoutMillis, a refused connection, or a pool that is ending. *)
ConnectFails(c) ==
  /\ pc[c] = "connecting"
  /\ Return(c, "none", "failed")
  /\ UNCHANGED tx

-----------------------------------------------------------------------------
(* The transaction.                                                        *)

Begin(c) ==
  /\ pc[c] = "begin"
  /\ tx' = [tx EXCEPT ![c] = "open"]
  /\ pc' = [pc EXCEPT ![c] = "body"]
  /\ UNCHANGED <<signal, client, result, pool>>

(* The function returns: COMMIT is sent for a value, ROLLBACK for a failure. *)
BodyReturns(c, ok) ==
  /\ pc[c] = "body"
  /\ pc' = [pc EXCEPT ![c] = IF ok THEN "commit" ELSE "rollback"]
  /\ tx' = IF ok THEN [tx EXCEPT ![c] = "deciding"] ELSE tx
  /\ UNCHANGED <<signal, client, result, pool>>

(* BEGIN, the function or ROLLBACK throws. *)
Throws(c) ==
  /\ pc[c] \in {"begin", "body", "rollback"}
  /\ Return(c, "destroyed", "failed")
  /\ UNCHANGED tx

RollbackAnswered(c) ==
  /\ pc[c] = "rollback"
  /\ tx' = [tx EXCEPT ![c] = "rolledback"]
  /\ Return(c, "pooled", "failed")

(* The server decides on a COMMIT it has received, whether or not anybody
   still waits for its answer: it commits, or finds the transaction aborted
   or a deferred constraint broken. *)
ServerCommits(c) ==
  /\ tx[c] = "deciding"
  /\ \E state \in {"committed", "rolledback"} : tx' = [tx EXCEPT ![c] = state]
  /\ UNCHANGED <<pc, signal, client, result, pool>>

CommitAnswered(c) ==
  /\ pc[c] = "commit"
  /\ \/ tx[c] = "committed" /\ Return(c, "pooled", "ok")
     \/ /\ tx[c] = "rolledback"
        /\ \E how \in {"pooled", "destroyed"} : Return(c, how, "failed")
  /\ UNCHANGED tx

(* The connection breaks during COMMIT: commitFailure. *)
CommitBreaks(c) ==
  /\ pc[c] = "commit"
  /\ Return(c, "destroyed", "uncertain")
  /\ UNCHANGED tx

(* The server notices that the client is gone, perhaps before it has read a
   COMMIT. *)
ServerDrops(c) ==
  /\ client[c] = "destroyed"
  /\ Unsettled(c)
  /\ tx' = [tx EXCEPT ![c] = "rolledback"]
  /\ UNCHANGED <<pc, signal, client, result, pool>>

-----------------------------------------------------------------------------
(* The timer and the caller's signal.                                      *)

(* Seeded fault: stop reports its reason without regard to the COMMIT. *)
StopVerdictPlain(c, reason) == reason

(* What stop tells the caller: once COMMIT has been sent nobody knows. *)
StopVerdict(c, reason) == IF pc[c] = "commit" THEN "uncertain" ELSE reason

(* Seeded fault: stop leaves the client to the function that hangs. *)
StopReleaseNever == "leased"

StopRelease == "destroyed"

(* Seeded fault: the timer is cleared before COMMIT is sent. *)
StoppableBeforeCommit(c) == client[c] = "leased" /\ pc[c] # "commit"

(* The timer runs and the listener is attached while the call holds its
   client. *)
Stoppable(c) == client[c] = "leased"

TimesOut(c) ==
  /\ Stoppable(c)
  /\ Return(c, StopRelease, StopVerdict(c, "timeout"))
  /\ UNCHANGED tx

(* The caller's signal aborts: at once for a call that holds its client,
   otherwise when it is next looked at. *)
Abort(c) ==
  /\ ~signal[c]
  /\ result[c] = "none"
  /\ signal' = [signal EXCEPT ![c] = TRUE]
  /\ IF Stoppable(c)
       THEN /\ pc' = [pc EXCEPT ![c] = "over"]
            /\ client' = [client EXCEPT ![c] = StopRelease]
            /\ result' = [result EXCEPT ![c] = StopVerdict(c, "canceled")]
       ELSE UNCHANGED <<pc, client, result>>
  /\ UNCHANGED <<tx, pool>>

(* The caller makes its next call, once the last transaction is settled. *)
NextCall(c) ==
  /\ pc[c] = "over"
  /\ ~Unsettled(c)
  /\ pc' = [pc EXCEPT ![c] = "idle"]
  /\ signal' = [signal EXCEPT ![c] = FALSE]
  /\ client' = [client EXCEPT ![c] = "none"]
  /\ tx' = [tx EXCEPT ![c] = "none"]
  /\ result' = [result EXCEPT ![c] = "none"]
  /\ UNCHANGED pool

-----------------------------------------------------------------------------
(* Closing.                                                                *)

Close ==
  /\ pool = "open"
  /\ pool' = "ending"
  /\ UNCHANGED <<pc, signal, client, tx, result>>

(* pool.end resolves once every client has been released. *)
PoolEnded ==
  /\ pool = "ending"
  /\ Leased = {}
  /\ pool' = "ended"
  /\ UNCHANGED <<pc, signal, client, tx, result>>

Next ==
  \/ \E c \in Calls :
       \/ Call(c) \/ CallRefused(c) \/ Connect(c) \/ ConnectFails(c)
       \/ Begin(c) \/ Throws(c) \/ RollbackAnswered(c)
       \/ \E ok \in BOOLEAN : BodyReturns(c, ok)
       \/ ServerCommits(c) \/ CommitAnswered(c) \/ CommitBreaks(c) \/ ServerDrops(c)
       \/ TimesOut(c) \/ Abort(c) \/ NextCall(c)
  \/ Close
  \/ PoolEnded

Spec == Init /\ [][Next]_vars

(* The two timers run out and pool.end resolves; nothing is assumed of the
   server, of the network or of the callers' functions. *)
FairSpec ==
  /\ Spec
  /\ \A c \in Calls : WF_vars(ConnectFails(c)) /\ WF_vars(TimesOut(c))
  /\ WF_vars(PoolEnded)

-----------------------------------------------------------------------------
(* Properties.                                                             *)

(* The caller is told the truth: ok means the transaction has committed, and
   failed, canceled or timed out that it has not and never will.  Only
   commit_uncertain leaves it open. *)
VerdictIsTrue ==
  \A c \in Calls :
    /\ result[c] = "ok" => tx[c] = "committed"
    /\ result[c] \in {"failed", "canceled", "timeout"} => tx[c] # "committed"

(* A client that goes back to the pool carries no open transaction that the
   next call's statements would join. *)
PoolIsClean == \A c \in Calls : client[c] = "pooled" => ~Unsettled(c)

(* What the caller may be told, given how the server stands. *)
Truthful(c) ==
  /\ result[c] = "ok" => tx[c] = "committed"
  /\ tx[c] \in {"deciding", "committed"} => result[c] \in {"ok", "uncertain"}

(* Each point of a call with the client, the server and the result it has
   there; the safety properties follow from the last case. *)
CallInv(c) ==
  /\ pc[c] \in {"idle", "connecting"} =>
       client[c] = "none" /\ tx[c] = "none" /\ result[c] = "none"
  /\ pc[c] = "begin" => client[c] = "leased" /\ tx[c] = "none" /\ result[c] = "none"
  /\ pc[c] \in {"body", "rollback"} =>
       client[c] = "leased" /\ tx[c] = "open" /\ result[c] = "none"
  /\ pc[c] = "commit" =>
       /\ client[c] = "leased" /\ result[c] = "none"
       /\ tx[c] \in {"deciding", "committed", "rolledback"}
  /\ pc[c] = "over" =>
       /\ client[c] # "leased" /\ result[c] # "none" /\ Truthful(c)
       /\ client[c] = "pooled" => ~Unsettled(c)

(* The inductive invariant. *)
IInv == TypeOK /\ \A c \in Calls : CallInv(c)

(* Every call returns, however long the server or the callback hangs. *)
CallReturns == \A c \in Calls : pc[c] = "connecting" ~> result[c] # "none"

(* close comes to an end: no call keeps its client for ever. *)
CloseEnds == pool = "ending" ~> pool = "ended"

=============================================================================
