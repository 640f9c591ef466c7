----------------------------- MODULE ApiServer -----------------------------
(***************************************************************************)
(* The API server: the handlers of POST /webhooks/:slug (Ingest), of the   *)
(* dashboard's forward buttons (ForwardDelivery, ForwardAllRecorded), and  *)
(* the edits of sources and actions.  A handler is a goroutine per request *)
(* and takes one SQL statement or Redis command per step; an edit is one   *)
(* statement.                                                              *)
(***************************************************************************)
EXTENDS Store

CONSTANTS
    Handlers,       \* the requests that may be in progress together
    MaxForwards,    \* bound: forwards an operator asks for, per delivery
    MaxEdits,       \* bound: edits of sources and actions
    MaxApiCrashes,  \* bound: crashes of the server
    NoRequest

ASSUME ApiAssumption ==
    MaxForwards \in Nat /\ MaxEdits \in Nat /\ MaxApiCrashes \in Nat

VARIABLES
    at,         \* where each handler is
    req,        \* what it holds in its locals
    edits, apiCrashes,
    forwarded   \* how often the operator has asked to forward a delivery

apiVars == <<at, req, edits, apiCrashes, forwarded>>

(* id is the delivery in hand, rest those of the list still to be forwarded *)
(* and mode the source's mode as the handler has read it.                   *)
Requests == [id : Deliveries, rest : SUBSET Deliveries,
             mode : LiveModes]

ApiTypeOK ==
    /\ at \in [Handlers -> {"idle", "create", "mark", "publish", "rearm",
                            "force", "unarm"}]
    /\ req \in [Handlers -> Requests \cup {NoRequest}]
    /\ \A h \in Handlers : at[h] # "idle" => req[h] \in Requests
    /\ edits \in 0 .. MaxEdits
    /\ apiCrashes \in 0 .. MaxApiCrashes
    /\ forwarded \in [Deliveries -> 0 .. MaxForwards]

Continue(h, label) == at' = [at EXCEPT ![h] = label] /\ UNCHANGED req
Respond(h) == /\ at' = [at EXCEPT ![h] = "idle"]
              /\ req' = [req EXCEPT ![h] = NoRequest]

SameRequests == UNCHANGED <<edits, apiCrashes, forwarded>>
StatusUpdateOnly == /\ SameRequests
                    /\ UNCHANGED <<redis, redisFaults, mode, scripted, action,
                                   transforms, transformed, attempt, scheduled>>

-----------------------------------------------------------------------------
(* Ingest: GetBySlug, INSERT, then either the mark of record mode or XADD.  *)
(* d is the row the INSERT would make.                                      *)
Ingest(h) ==
    /\ at[h] = "idle"
    /\ \E d \in Deliveries :
          /\ ~DeliveryExists(d)
          /\ SourceExists(SourceOf[d])
          /\ req' = [req EXCEPT ![h] =
                        [id |-> d, rest |-> {}, mode |-> mode[SourceOf[d]]]]
    /\ at' = [at EXCEPT ![h] = "create"]
    /\ SameRequests
    /\ UNCHANGED storeVars

CreateDelivery(h) ==
    /\ at[h] = "create"
    /\ LET d == req[h].id IN
       \/ /\ CanInsertDelivery(d)
          /\ \E o \in Writes :
                /\ Sql(o)
                /\ status' = IF Took(o) THEN [status EXCEPT ![d] = "pending"]
                                        ELSE status
                /\ IF o = "ok"
                   THEN Continue(h, IF req[h].mode = "record" THEN "mark"
                                                              ELSE "publish")
                   ELSE Respond(h)
       \/ /\ ~CanInsertDelivery(d)
          /\ Respond(h)
          /\ UNCHANGED <<status, dbFaults>>
    /\ StatusUpdateOnly

(* The error of the mark and that of XADD are only logged.                  *)
MarkRecorded(h) ==
    /\ at[h] = "mark"
    /\ \E o \in Writes : Sql(o) /\ UpdateStatus(o, req[h].id, "recorded")
    /\ Respond(h)
    /\ StatusUpdateOnly

PublishToStream(h) ==
    /\ at[h] = "publish"
    /\ \E o \in Writes : Publish(o, [id |-> req[h].id, force |-> FALSE])
    /\ Respond(h)
    /\ SameRequests
    /\ UNCHANGED <<tables, dbFaults>>

-----------------------------------------------------------------------------
(* ForwardDelivery and ForwardAllRecorded: the statuses are read once, at   *)
(* the start, for one delivery or for all of a source.                      *)
Forward(h) ==
    /\ at[h] = "idle"
    /\ \E s \in Sources :
          LET recorded == {d \in Deliveries :
                              SourceOf[d] = s /\ status[d] = "recorded"}
          IN \E batch \in {{d} : d \in recorded} \cup {recorded} :
                /\ batch # {}
                /\ \A d \in batch : forwarded[d] < MaxForwards
                /\ forwarded' = [d \in Deliveries |->
                        IF d \in batch THEN forwarded[d] + 1 ELSE forwarded[d]]
                /\ \E d \in batch :
                      req' = [req EXCEPT ![h] =
                         [id |-> d, rest |-> batch \ {d}, mode |-> "record"]]
    /\ at' = [at EXCEPT ![h] = "rearm"]
    /\ UNCHANGED <<storeVars, edits, apiCrashes>>

(* The loop goes on to the next delivery of the list.                       *)
NextForward(h) ==
    IF req[h].rest = {} THEN Respond(h)
    ELSE /\ \E d \in req[h].rest :
               req' = [req EXCEPT ![h].id = d, ![h].rest = @ \ {d}]
         /\ at' = [at EXCEPT ![h] = "rearm"]

Rearm(h) ==
    /\ at[h] = "rearm"
    /\ \E o \in Writes :
          /\ Sql(o)
          /\ UpdateStatus(o, req[h].id, "pending")
          /\ IF o = "ok" THEN Continue(h, "force") ELSE NextForward(h)
    /\ StatusUpdateOnly

ForwardToStream(h) ==
    /\ at[h] = "force"
    /\ \E o \in Writes :
          /\ Publish(o, [id |-> req[h].id, force |-> TRUE])
          /\ IF o = "ok" THEN NextForward(h) ELSE Continue(h, "unarm")
    /\ SameRequests
    /\ UNCHANGED <<tables, dbFaults>>

Unarm(h) ==
    /\ at[h] = "unarm"
    /\ \E o \in Writes : Sql(o) /\ UpdateStatus(o, req[h].id, "recorded")
    /\ NextForward(h)
    /\ StatusUpdateOnly

-----------------------------------------------------------------------------
(* Edits                                                                    *)
Edit == /\ edits < MaxEdits
        /\ edits' = edits + 1
        /\ UNCHANGED <<redis, dbFaults, redisFaults, at, req, apiCrashes,
                       forwarded>>

KeepDeliveries == UNCHANGED <<status, transformed, attempt, scheduled>>

CreateSource(s) == AddSource(s) /\ Edit /\ KeepDeliveries
UpdateSource(s) == SetSource(s) /\ Edit /\ KeepDeliveries

DeleteSource(s) ==
    /\ RemoveSource(s)
    /\ status' = [d \in Deliveries |-> IF SourceOf[d] = s THEN "none"
                                                          ELSE status[d]]
    /\ DeleteAttempts({k \in Keys : s \in {SourceOf[k[1]], OwnerOf[k[2]]}})
    /\ Edit
    /\ UNCHANGED transformed

CreateAction(a) == AddAction(a) /\ Edit /\ KeepDeliveries
UpdateAction(a) == SetAction(a) /\ Edit /\ KeepDeliveries

DeleteAction(a) ==
    /\ RemoveAction(a)
    /\ DeleteAttempts({k \in Keys : k[2] = a})
    /\ Edit
    /\ UNCHANGED <<status, transformed>>

-----------------------------------------------------------------------------
CrashApi ==
    /\ apiCrashes < MaxApiCrashes
    /\ apiCrashes' = apiCrashes + 1
    /\ at' = [h \in Handlers |-> "idle"]
    /\ req' = [h \in Handlers |-> NoRequest]
    /\ UNCHANGED <<storeVars, edits, forwarded>>

ApiInit ==
    /\ at = [h \in Handlers |-> "idle"]
    /\ req = [h \in Handlers |-> NoRequest]
    /\ edits = 0
    /\ apiCrashes = 0
    /\ forwarded = [d \in Deliveries |-> 0]

(* A request in progress, once accepted, runs to its end.                   *)
Handle(h) == \/ CreateDelivery(h) \/ MarkRecorded(h) \/ PublishToStream(h)
             \/ Rearm(h) \/ ForwardToStream(h) \/ Unarm(h)

ApiNext ==
    \/ \E h \in Handlers : Ingest(h) \/ Forward(h) \/ Handle(h)
    \/ \E s \in Sources : CreateSource(s) \/ UpdateSource(s) \/ DeleteSource(s)
    \/ \E a \in Actions : CreateAction(a) \/ UpdateAction(a) \/ DeleteAction(a)
    \/ CrashApi
=============================================================================
