----------------------------- MODULE RateLimit ------------------------------
(***************************************************************************)
(* The rate limiter in front of the handlers: fixed windows, counted per   *)
(* policy and key, in a map of the process or in a table that all          *)
(* processes share.  A request consumes its policies in order until one    *)
(* refuses it; between two policies other requests get their turn.         *)
(***************************************************************************)
EXTENDS Naturals, Sequences, FiniteSets, SequencesExt

CONSTANTS
  Requests,      \* requests
  PoliciesOf,    \* the policies of a request's route, in order; often none
  KeyOf,         \* the key of a request under a policy
  LimitOf,       \* the limit of each policy
  WindowLength,  \* windowMs
  MaxTime,       \* bound on the clock, and on when faults happen
  MaxLag         \* how far the time a request read may be behind

ASSUME RateLimitAssumption ==
  /\ WindowLength \in Nat \ {0}
  /\ \A r \in Requests : PoliciesOf[r] \in Seq(DOMAIN LimitOf)
  /\ \A p \in DOMAIN LimitOf : LimitOf[p] \in Nat \ {0}
  /\ MaxTime \in Nat /\ MaxLag \in Nat

VARIABLES
  mode,      \* where the stores are: "memory" or "postgres"
  now,       \* the clock
  stage,     \* how many policies each request has passed
  turned,    \* requests turned away
  buckets,   \* the stored windows
  passed     \* how many requests each policy let pass, by bucket and window

limits == <<stage, turned, buckets, passed>>

WindowStart(t) == (t \div WindowLength) * WindowLength

Bucket(r) == LET p == PoliciesOf[r][stage[r] + 1] IN <<p, KeyOf[p][r]>>

Buckets == UNION {{<<p, KeyOf[p][r]>> : p \in ToSet(PoliciesOf[r])} : r \in Requests}
Starts == {WindowStart(t) : t \in 0 .. MaxTime}

RateInit ==
  /\ stage = [r \in Requests |-> 0]
  /\ turned = {}
  /\ buckets = [b \in Buckets |-> <<>>]
  /\ passed = [b \in Buckets |-> [s \in Starts |-> 0]]

(* InMemoryRateLimitStore: a bucket keeps its latest window only. *)
MemoryBucket(b, start) ==
  IF start \in DOMAIN buckets[b]
  THEN [buckets[b] EXCEPT ![start] = @ + 1]
  ELSE [s \in {start} |-> 1]

(* Seeded fault: a row that exists is returned as it is. *)
PostgresBucketKept(b, start) ==
  [s \in DOMAIN buckets[b] \cup {start} |-> IF s \in DOMAIN buckets[b] THEN buckets[b][s] ELSE 1]

(* PostgresRateLimitStore: a row for every window, inserted or counted up. *)
PostgresBucket(b, start) ==
  [s \in DOMAIN buckets[b] \cup {start} |->
     IF s \in DOMAIN buckets[b]
     THEN buckets[b][s] + (IF s = start THEN 1 ELSE 0) ELSE 1]

Counted(b, start) ==
  IF mode = "memory" THEN MemoryBucket(b, start) ELSE PostgresBucket(b, start)

(* The time is the clock's in memory; a process may have read its own clock
   some time before the transaction. *)
ReadTimes == IF mode = "memory" THEN {now} ELSE {t \in 0 .. now : t + MaxLag >= now}

Consuming(r) == r \notin turned /\ stage[r] < Len(PoliciesOf[r])

(* consume, and what the interceptor makes of the decision: on to the next
   policy, on to the handler, or 429. *)
Consume(r) ==
  /\ Consuming(r)
  /\ \E t \in ReadTimes :
       LET b == Bucket(r)
           start == WindowStart(t)
           counted == Counted(b, start)
           allowed == counted[start] <= LimitOf[b[1]]
       IN /\ buckets' = [buckets EXCEPT ![b] = counted]
          /\ \/ /\ allowed
                /\ stage' = [stage EXCEPT ![r] = @ + 1]
                /\ passed' = [passed EXCEPT ![b][start] = @ + 1]
                /\ UNCHANGED turned
             \/ /\ ~allowed
                /\ turned' = turned \cup {r}
                /\ UNCHANGED <<stage, passed>>

(* The store fails and the request with it; what was counted stays counted. *)
ConsumeFails(r) ==
  /\ mode = "postgres"
  /\ now < MaxTime
  /\ Consuming(r)
  /\ turned' = turned \cup {r}
  /\ buckets' \in {buckets, [buckets EXCEPT ![Bucket(r)] =
                               PostgresBucket(Bucket(r), WindowStart(now))]}
  /\ UNCHANGED <<stage, passed>>

Admitted(r) == stage[r] = Len(PoliciesOf[r])

RateTypeOK ==
  /\ stage \in [Requests -> Nat] /\ \A r \in Requests : stage[r] <= Len(PoliciesOf[r])
  /\ turned \subseteq Requests
  /\ DOMAIN buckets = Buckets
  /\ \A b \in Buckets : \A s \in DOMAIN buckets[b] : s \in Starts /\ buckets[b][s] \in Nat
  /\ passed \in [Buckets -> [Starts -> Nat]]

(* Whoever was let pass in a window is counted in it, for as long as a request
   can still be counted there: in memory windows end with the clock, and a
   forgotten one has ended. *)
CountsCover ==
  \A b \in Buckets, s \in Starts :
    /\ s \in DOMAIN buckets[b] =>
         /\ passed[b][s] <= buckets[b][s]
         /\ mode = "memory" => s <= WindowStart(now)
    /\ s \notin DOMAIN buckets[b] =>
         passed[b][s] = 0 \/ (mode = "memory" /\ s < WindowStart(now))

(* Every policy lets at most its limit pass for a key in a window, however
   requests of several processes interleave, whose clocks disagree and whose
   times reach the store late. *)
AdmittedWithinLimit ==
  \A b \in Buckets, s \in Starts : passed[b][s] <= LimitOf[b[1]]

=============================================================================
