------------------------------- MODULE Store -------------------------------
(***************************************************************************)
(* What the two processes of the gateway share: the PostgreSQL tables      *)
(* (sources, actions, deliveries, delivery_attempts) and the Redis stream  *)
(* "deliveries" with its consumer group.  One operator per SQL statement   *)
(* of internal/store; a statement is atomic and is the unit of             *)
(* interleaving.                                                           *)
(*                                                                         *)
(* Every row that can ever exist is named by a constant: a delivery knows  *)
(* its source and its idempotency key, an action its source.  An attempt   *)
(* is named by <<delivery, action, attempt_number>>, the columns of the    *)
(* table's UNIQUE constraint.                                              *)
(***************************************************************************)
EXTENDS Catalog, Naturals, Sequences, FiniteSets

CONSTANTS
    Deliveries,
    SourceOf,      \* the source a delivery was posted to
    KeyOf,         \* the idempotency key of a delivery
    MaxRetries,    \* MAX_RETRIES
    StreamMax,     \* MAXLEN of the stream
    MaxDbFaults,   \* bound: SQL statements that return an error
    MaxRedisFaults \* bound: Redis commands that fail, losses of its data

ASSUME TablesAssumption ==
    /\ SourceOf \in [Deliveries -> Sources]
    /\ DOMAIN KeyOf = Deliveries
ASSUME BoundsAssumption ==
    /\ MaxRetries \in Nat
    /\ StreamMax \in Nat
    /\ MaxDbFaults \in Nat
    /\ MaxRedisFaults \in Nat

VARIABLES
    status,      \* deliveries.status, "none" when there is no row
    transformed, \* the deliveries with a transformed_payload
    attempt,     \* delivery_attempts.status, "none" when there is no row
    scheduled,   \* the attempts whose next_retry_at is not NULL
    stream,      \* the entries no consumer of the group has read yet
    group,       \* whether the consumer group exists
    trimmed,     \* the messages that MAXLEN has dropped (no code reads this)
    dbFaults, redisFaults \* the errors so far

tables == <<mode, scripted, action, transforms, status, transformed, attempt,
            scheduled>>
redis == <<stream, group, trimmed>>
storeVars == <<tables, redis, dbFaults, redisFaults>>

-----------------------------------------------------------------------------
(* The largest attempt number is MaxRetries (1 when MaxRetries is 0); the   *)
(* key space has one number more, which must never be used.                 *)
Top == IF MaxRetries = 0 THEN 1 ELSE MaxRetries
Numbers == 1 .. (Top + 1)
Keys == Deliveries \X Actions \X Numbers
Messages == [id : Deliveries, force : BOOLEAN]

Terminal == {"completed", "failed"}
Statuses == {"none", "pending", "processing", "recorded"} \cup Terminal
AttemptStatuses == {"none", "pending", "success", "failed"}

StoreTypeOK ==
    /\ mode \in [Sources -> Modes]
    /\ scripted \in [Sources -> BOOLEAN]
    /\ action \in [Actions -> ActionStates]
    /\ transforms \in SUBSET Actions
    /\ status \in [Deliveries -> Statuses]
    /\ transformed \in SUBSET Deliveries
    /\ attempt \in [Keys -> AttemptStatuses]
    /\ scheduled \in SUBSET Keys
    /\ stream \in Seq(Messages)
    /\ group \in BOOLEAN
    /\ trimmed \in SUBSET Messages
    /\ dbFaults \in 0 .. MaxDbFaults
    /\ redisFaults \in 0 .. MaxRedisFaults

-----------------------------------------------------------------------------
(* The caller of a write sees it succeed ("ok"), or sees an error after the *)
(* server has done nothing ("lost") or has committed ("unacked").  A read   *)
(* succeeds or returns an error.                                            *)
Writes == {"ok", "lost", "unacked"}
Reads == {"ok", "lost"}
Took(o) == o # "lost"

Sql(o) == IF o = "ok" THEN dbFaults' = dbFaults
                      ELSE dbFaults < MaxDbFaults /\ dbFaults' = dbFaults + 1
Redis(o) == IF o = "ok"
            THEN redisFaults' = redisFaults
            ELSE redisFaults < MaxRedisFaults /\ redisFaults' = redisFaults + 1

-----------------------------------------------------------------------------
(* deliveries                                                               *)
DeliveryExists(d) == status[d] # "none"

(* Mutant: no UNIQUE (source_id, idempotency_key).                          *)
CanInsertDeliveryTwice(d) == SourceExists(SourceOf[d]) /\ ~DeliveryExists(d)

(* INSERT: the source exists, the id is new and so is (source, key).        *)
CanInsertDelivery(d) ==
    /\ SourceExists(SourceOf[d])
    /\ \A e \in Deliveries :
          SourceOf[e] = SourceOf[d] /\ KeyOf[e] = KeyOf[d] => ~DeliveryExists(e)

(* UPDATE ... WHERE id: unconditional on the status the row has by then; no *)
(* row, no effect, no error.                                                *)
UpdateStatus(o, d, st) ==
    status' = IF Took(o) /\ DeliveryExists(d)
              THEN [status EXCEPT ![d] = st] ELSE status
(* Mutant: an UPDATE of the headers only.                                   *)
SetTransformedHeaders(o, d) == UNCHANGED transformed
SetTransformed(o, d) ==
    transformed' = IF Took(o) /\ DeliveryExists(d)
                   THEN transformed \cup {d} ELSE transformed

-----------------------------------------------------------------------------
(* delivery_attempts                                                        *)
(* Mutant: no UNIQUE (delivery_id, action_id, attempt_number).              *)
CanInsertAttemptTwice(d, a, n) == DeliveryExists(d) /\ ActionExists(a)

CanInsertAttempt(d, a, n) ==
    /\ DeliveryExists(d)
    /\ ActionExists(a)
    /\ attempt[<<d, a, n>>] = "none"

InsertAttempt(o, d, a, n) ==
    attempt' = IF Took(o) THEN [attempt EXCEPT ![<<d, a, n>>] = "pending"]
                          ELSE attempt

(* Mutant: an UPDATE without next_retry_at.                                 *)
UpdateAttemptStatus(o, k, st, retry) ==
    /\ attempt' = IF Took(o) /\ attempt[k] # "none"
                  THEN [attempt EXCEPT ![k] = st] ELSE attempt
    /\ UNCHANGED scheduled

UpdateAttempt(o, k, st, retry) ==
    IF Took(o) /\ attempt[k] # "none"
    THEN /\ attempt' = [attempt EXCEPT ![k] = st]
         /\ scheduled' = IF retry THEN scheduled \cup {k} ELSE scheduled \ {k}
    ELSE UNCHANGED <<attempt, scheduled>>

(* Failed attempts with a next_retry_at; which of them are due is a matter  *)
(* of time, so a poll returns any set of them.                              *)
Retryable == {k \in scheduled : attempt[k] = "failed"}

NumbersOf(d, a) == {n \in Numbers : attempt[<<d, a, n>>] # "none"}
(* Mutant: the row with the lowest attempt_number.                          *)
OldestIs(d, a, n, st) ==
    /\ attempt[<<d, a, n>>] = st
    /\ \A m \in NumbersOf(d, a) : m >= n

(* The row with the highest attempt_number is n's, and has status st.       *)
LatestIs(d, a, n, st) ==
    /\ attempt[<<d, a, n>>] = st
    /\ \A m \in NumbersOf(d, a) : m <= n

-----------------------------------------------------------------------------
(* Mutant: no ON DELETE CASCADE.                                            *)
KeepAttempts(gone) == UNCHANGED <<attempt, scheduled>>

(* ON DELETE CASCADE: the attempts of the deleted rows go with them.        *)
DeleteAttempts(gone) ==
    /\ attempt' = [k \in Keys |-> IF k \in gone THEN "none" ELSE attempt[k]]
    /\ scheduled' = scheduled \ gone

-----------------------------------------------------------------------------
(* The stream.  XADD ... MAXLEN ~ may drop the oldest entry when the stream *)
(* is longer than its limit.                                                *)
Publish(o, m) ==
    /\ Redis(o)
    /\ \/ /\ stream' = IF Took(o) THEN Append(stream, m) ELSE stream
          /\ UNCHANGED trimmed
       \/ /\ Took(o)
          /\ Len(stream) >= StreamMax
          /\ stream' = Tail(Append(stream, m))
          /\ trimmed' = trimmed \cup {Head(Append(stream, m))}
    /\ UNCHANGED group

(* Redis restarts from an old snapshot: the entries are gone, and so is the *)
(* group unless the snapshot holds it.                                      *)
RedisLosesData ==
    /\ group
    /\ Redis("lost")
    /\ stream' = << >>
    /\ group' \in BOOLEAN
    /\ UNCHANGED <<tables, trimmed, dbFaults>>
=============================================================================
