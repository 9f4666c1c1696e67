---------------------------- MODULE NatsTransport ---------------------------
(***************************************************************************)
(* The JetStream transport of shared/events/nats/broker.ts: the stream and *)
(* its durable consumer as provision configures them, Broker.publish with  *)
(* the event id as message id, and Broker.transfer as NatsEventWorker      *)
(* polls it.                                                               *)
(*                                                                         *)
(* The server is external; what is modelled is what the configuration in   *)
(* provision makes it do.  Within duplicate_window a second publish of an  *)
(* id is not stored; after it, it is, so an event may have several copies. *)
(* A message that was handed out and is neither acknowledged nor refused   *)
(* within ack_wait is handed out again, without limit (max_deliver -1).    *)
(* The oldest messages are discarded at max_age or max_bytes.              *)
(***************************************************************************)
EXTENDS EventBase

CONSTANTS
  Transfers,          \* polling loops of NatsEventWorker, over all processes
  MaxCopies,          \* bound: copies of one event in the stream
  Worlds              \* conditions a behaviour may be under, see world

ASSUME NatsAssumption ==
  /\ MaxCopies \in Nat \ {0}
  /\ Worlds \subseteq [poison : SUBSET Events, lagging : BOOLEAN]
  /\ None \notin Transfers

(* One copy of an event in the stream. *)
Messages == Events \X (1..MaxCopies)

VARIABLES
  world,     \* poison: events whose message the workers cannot decode;
             \* lagging: whether retention overtakes the consumer.  Fixed.
  transit,   \* events of publishes that timed out and may still arrive
  window,    \* the copy the duplicate window remembers, 0 for none
  sState,    \* a message in the stream, as its consumer sees it
  tPc,       \* where each polling loop is
  tMsg       \* the message it has been handed

streamVars == <<world, transit, window, sState>>
transferVars == <<tPc, tMsg>>
natsVars == <<streamVars, transferVars>>

Waiting == {"ready", "delivered", "delayed"}
MessageStates == {"absent", "acked", "termed", "discarded"} \cup Waiting

NatsTypeOK ==
  /\ world \in Worlds
  /\ transit \in SUBSET Events
  /\ window \in [Events -> 0..MaxCopies]
  /\ sState \in [Messages -> MessageStates]
  /\ tPc \in [Transfers -> {"idle", "received", "acking", "naking"}]
  /\ tMsg \in [Transfers -> Messages \cup {None}]

NatsInit ==
  /\ world \in Worlds
  /\ transit = {}
  /\ window = [e \in Events |-> 0]
  /\ sState = [m \in Messages |-> "absent"]
  /\ tPc = [t \in Transfers |-> "idle"]
  /\ tMsg = [t \in Transfers |-> None]

-----------------------------------------------------------------------------
(* Publishing.                                                             *)

(* The server stores the next copy of e and remembers its id. *)
StoreCopy(e) ==
  /\ window[e] = 0
  /\ \E k \in 1..MaxCopies :
       /\ sState[<<e, k>>] = "absent"
       /\ \A j \in 1..(k - 1) : sState[<<e, j>>] # "absent"
       /\ sState' = [sState EXCEPT ![<<e, k>>] = "ready"]
       /\ window' = [window EXCEPT ![e] = k]

(* Seeded fault: a duplicate acknowledgement is taken at its word. *)
OriginalPresumed(e) == TRUE

(* publish reads the original behind a duplicate acknowledgement back and
   compares it; an event never changes, so it differs only by being gone. *)
OriginalStored(e) == sState[<<e, window[e]>>] # "discarded"

(* Broker.publish(e) returns a durable receipt: the message is stored, or it
   is a duplicate of one that is. *)
PublishSucceeds(e) ==
  /\ \/ StoreCopy(e)
     \/ window[e] # 0 /\ OriginalStored(e) /\ UNCHANGED <<window, sState>>
  /\ UNCHANGED <<world, transit, transferVars>>

(* It returns a failure: the request never left, or it is a duplicate of a
   message that is gone ... *)
PublishRefused == UNCHANGED natsVars

(* ... or the deadline passed, and the request may still arrive. *)
PublishTimesOut(e) ==
  /\ transit' = transit \cup {e}
  /\ UNCHANGED <<world, window, sState, transferVars>>

PublishArrives(e) ==
  /\ e \in transit
  /\ transit' = transit \ {e}
  /\ StoreCopy(e) \/ (window[e] # 0 /\ UNCHANGED <<window, sState>>)
  /\ UNCHANGED <<world, transferVars>>

PublishNeverArrives(e) ==
  /\ e \in transit
  /\ transit' = transit \ {e}
  /\ UNCHANGED <<world, window, sState, transferVars>>

-----------------------------------------------------------------------------
(* Transferring.                                                           *)

TransferReturns(t) ==
  /\ tPc' = [tPc EXCEPT ![t] = "idle"]
  /\ tMsg' = [tMsg EXCEPT ![t] = None]

(* The server hears a verdict on the loop's message, unless the message has
   been settled or discarded meanwhile; a verdict on a message that has been
   handed out again counts all the same. *)
Verdict(t, state) ==
  sState' = IF sState[tMsg[t]] \in Waiting
              THEN [sState EXCEPT ![tMsg[t]] = state]
              ELSE sState

(* CONSUMER.MSG.NEXT hands a message out. *)
TransferFetch(t, m) ==
  /\ tPc[t] = "idle"
  /\ sState[m] = "ready"
  /\ sState' = [sState EXCEPT ![m] = "delivered"]
  /\ tPc' = [tPc EXCEPT ![t] = "received"]
  /\ tMsg' = [tMsg EXCEPT ![t] = m]
  /\ UNCHANGED <<world, transit, window>>

(* Seeded fault: a message that does not decode is refused like any other. *)
TransferTermAsNak(t) ==
  /\ tPc[t] = "received"
  /\ tMsg[t][1] \in world.poison
  /\ Verdict(t, "delayed")
  /\ TransferReturns(t)
  /\ UNCHANGED <<world, transit, window>>

(* Envelope.decode fails: +TERM. *)
TransferTerm(t) ==
  /\ tPc[t] = "received"
  /\ tMsg[t][1] \in world.poison
  /\ Verdict(t, "termed")
  /\ TransferReturns(t)
  /\ UNCHANGED <<world, transit, window>>

(* Seeded fault: the message is acknowledged whatever the sink answers. *)
TransferSunkUnchecked(t, ok) ==
  /\ tPc[t] = "received"
  /\ tMsg[t][1] \notin world.poison
  /\ tPc' = [tPc EXCEPT ![t] = "acking"]
  /\ UNCHANGED <<streamVars, tMsg>>

(* sink.publish returns: ok is a durable receipt for this event. *)
TransferSunk(t, ok) ==
  /\ tPc[t] = "received"
  /\ tMsg[t][1] \notin world.poison
  /\ tPc' = [tPc EXCEPT ![t] = IF ok THEN "acking" ELSE "naking"]
  /\ UNCHANGED <<streamVars, tMsg>>

(* +ACK, or -NAK with a delay. *)
TransferVerdict(t) ==
  /\ tPc[t] \in {"acking", "naking"}
  /\ Verdict(t, IF tPc[t] = "acking" THEN "acked" ELSE "delayed")
  /\ TransferReturns(t)
  /\ UNCHANGED <<world, transit, window>>

(* The verdict is lost, the deadline passes or the process dies. *)
TransferAbandon(t) ==
  /\ tPc[t] # "idle"
  /\ TransferReturns(t)
  /\ UNCHANGED streamVars

-----------------------------------------------------------------------------
(* Time in the server.                                                     *)

(* ack_wait passes, or the delay of a NAK. *)
Redeliver(m) ==
  /\ sState[m] \in {"delivered", "delayed"}
  /\ sState' = [sState EXCEPT ![m] = "ready"]
  /\ UNCHANGED <<world, transit, window, transferVars>>

(* duplicate_window passes. *)
WindowEnds(e) ==
  /\ window[e] # 0
  /\ window' = [window EXCEPT ![e] = 0]
  /\ UNCHANGED <<world, transit, sState, transferVars>>

(* discard: old. *)
Discard(m) ==
  /\ sState[m] \in {"acked", "termed"} \/ (world.lagging /\ sState[m] \in Waiting)
  /\ sState' = [sState EXCEPT ![m] = "discarded"]
  /\ UNCHANGED <<world, transit, window, transferVars>>

=============================================================================
