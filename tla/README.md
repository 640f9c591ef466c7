# Verification of nitrohook

nitrohook is a webhook gateway: an API server stores what is posted to a *source*
as a *delivery*, and fan-out workers call the source's *actions* (webhook, Slack,
SMTP, Twilio, JavaScript) for it, with retries. PostgreSQL holds all state; a Redis
stream carries the work from the API server to the workers.

This directory models that delivery path, what one attempt does inside and in time, and the
management of sources and actions beside it, in TLA+, checks both with TLC on small instances and proves their main safety
properties with TLAPS for all instances.
Paths below are relative to the repository's root.

## 1. Inventory

| Component | State it keeps | Operations that change state | Modelled in |
|---|---|---|---|
| Tables (`internal/store`, `migrations`) | `sources`, `actions`, `deliveries`, `delivery_attempts` | one SQL statement each; `UNIQUE` constraints and `ON DELETE CASCADE` do part of the work | `Catalog` (sources, actions), `Store` (deliveries, attempts) |
| Work queue (Redis) | stream `deliveries`, group `fanout-workers` | `XADD ... MAXLEN ~`, `XREADGROUP >`, loss of data | `Store`, `FanoutWorker` |
| Fan-out worker (`internal/worker/fanout.go`, `cmd/worker`) | only locals of its goroutines | consumers, pending poll, retry poll | `FanoutWorker` |
| Ingest (`internal/handler/webhook.go`) | locals of a request | INSERT, mark of record mode, XADD | `ApiServer` |
| Forwarding (`web/source.go`) | locals of a request | re-arm, forced XADD, un-arm | `ApiServer` |
| Management (`internal/handler/source.go`, `action.go`; `web/source.go`, `action.go`) | none | INSERT / UPDATE / DELETE of sources and actions, through the JSON API and through the dashboard | `Management` (columns and checks), `Catalog` and `ApiServer` (what the delivery path sees) |
| Dispatchers (`internal/dispatch`) | none | the call and its answer | `Attempts` (`Dispatch`, `Answer`); `Validate` in `Management`; one step with any `Result.Success` in `FanoutWorker!Dispatch`; receivers in `FanoutContract` |
| Script runner (`internal/script`) | a JavaScript machine and a timer per run | run, interrupt | `ScriptRunner`, its callers in `Attempts`; what it accepts: `ValidScript` in `Management`; a free choice of a script's verdict in `FanoutWorker` (`ListActions`, `Keep`) |
| Retry delay (`nextRetryTime`) | `next_retry_at` | none | `Backoff`, `Attempts`; in `FanoutWorker` any time |
| Read-only API, dashboard pages, signing, metrics, configuration, migrations runner, charts | - | none that matters here | not modelled |

How they interact. The API server INSERTs a delivery and XADDs its id; a consumer of
any replica reads the entry and runs `processDelivery`; the pending poller of every
replica runs the same code for what the stream lost. `processDelivery` claims the
delivery (`processing`), lists the active actions, runs the scripts, and for each
action creates an attempt, calls the receiver and records the result; at the end it
rolls the attempts up into the delivery's status. A failed attempt gets a
`next_retry_at`; the retry poller of every replica makes the next attempt, clears the
schedule of the previous one and rolls up again. In record mode a delivery is only
marked `recorded` until the operator forwards it, which sends it through the stream
with `force`.

There is no lock anywhere: goroutines, replicas and requests meet only in single SQL
statements. What is hard:

* **Check, then act.** The status is read by one statement and written by a later,
  unconditional one. Two workers may claim one delivery, a poller may mark as recorded
  what has been dispatched meanwhile, a roll-up may write a verdict on old reads.
* **Only the `UNIQUE (delivery, action, attempt_number)` constraint** keeps two workers
  from calling a receiver twice.
* **Crashes** between any two statements, and errors after which the statement may or
  may not have been committed; most errors are only logged.
* **The stream** may fail, be trimmed or lose everything; nobody reclaims entries that a
  dead consumer had read.
* **Deletions** cascade while workers hold copies of the rows.
* **Two doors** write the same columns, each with its own checks and its own idea of what
  an empty field means; the worker has none, and runs what it finds.
* **Time.** A retry's date is computed from a product that may overflow, stamped with one
  host's clock and compared with the database's, by pollers that may have listed the attempt
  long before they come to it.
* **Calls that need not end.** Scripts are any program; a timer interrupts them from another
  goroutine. HTTP receivers are timed out by the client, SMTP servers by nobody.
* **Progress** of a delivery depends on the roll-up finding an attempt for every action.

`PROJECT.json` lists these hazards one by one, each with its line and the properties
that watch it.

## 2. Modules

```
Catalog              sources and actions as the delivery path sees them
  |        \
 Store      Management   both doors, all columns    (INSTANCE Catalog: implements it)
  |  \          |    \
  |   \   MCManagement  ManagementProofs
  |   ApiServer          ingest, forwarding, edits  (EXTENDS Store)
  FanoutWorker           the worker's goroutines    (EXTENDS Store)
      \  /
     Gateway             both on one store; the properties
       |                 (EXTENDS both, INSTANCE FanoutContract: implements it)
     GatewayInvariants   why the properties hold
       |    \
  MCGateway  \           GatewayProofs: types, the ladder, the contract
             GatewaySteps               (EXTENDS it and GatewayInvariants)
              |    |    \
     IntakeProofs  |   PayloadProofs
             VerdictProofs /
                    |     /
                  RetryProofs
FanoutContract           what a receiver may rely on (abstract)

ScriptRunner   Backoff   a script and its timer; nextRetryTime
       \       /
      Attempts           one action's attempts, from the inside and in time
       /      \
MCAttempts  AttemptsProofs
```

**Catalog.** Of a source its mode and whether it has a script, of an action whether it is
active and has a transform; the edits that change them, one statement each; `ON DELETE
CASCADE`. It is both the part of `Store` that is edited and the abstract specification
of `Management`, so the delivery path is checked against every edit the handlers make.

**Store** extends Catalog. Every row that can exist is named by a constant (a delivery knows its source
and idempotency key, an action its source). `attempt` maps
`<<delivery, action, number>>`, the columns of the UNIQUE constraint, to the attempt's
status or `"none"`; `scheduled` is the set of attempts whose `next_retry_at` is not
NULL. A write ends `"ok"`, `"lost"` (error, nothing done) or `"unacked"` (error, but
committed): `dbFaults` and `redisFaults` bound the errors. Time is left out: a scheduled
retry may be due at any moment, so a poll returns any set of them.

**FanoutWorker.** The state of a goroutine is its label `pc`, its job (the locals of
`processDelivery` or `retryAttempt`), the attempt `key` it is making and the value `res`
it is about to write. An action of the module is one statement, Redis command or call
*with the computation on locals that follows it*; the labels are the points between
them.

| `fanout.go` | Actions |
|---|---|
| `consumeStream`, `pollPending`, `pollRetries` | `Receive`, `ListPending`, `ListRetryable` |
| `processDelivery` | `GetDelivery`, `GetSource`, `Claim`, `ListActions` (with the script), `StoreTransformed` |
| `dispatchAction` | `CreateAttempt`, `Dispatch`, `RecordResult` |
| `retryAttempt` | `GetRetryDelivery`, `GetAction`, `ClearRetry` |
| `rollUpDeliveryStatus` | `RollUpActions` (both reads before the attempts), `RollUpAttempts`, `WriteStatus` |
| process dies or is shut down | `CrashWorker(r)`: all goroutines of a replica at once |

`calls`, `acked` and `carried` are what the receivers have seen, and `trimmed` of Store is
what MAXLEN has dropped; no code reads them.

**ApiServer.** `Ingest` .. `PublishToStream` is `WebhookHandler.Ingest`; `Forward` ..
`Unarm` is `ForwardDelivery` and the loop of `ForwardAllRecorded`; the edits are those of
Catalog with what a deletion takes along of deliveries and attempts. `CrashApi` ends every
request.

**Management.** One action per handler. A text (a source's script, an action's script or
transform) is NULL, empty, broken, or defines `transform` or `process`; a configuration is
NULL, complete, or has a port that is no number. What differs between the doors is in the
actions' guards:

| | JSON API (`Api...`) | Dashboard (`Web...`) |
|---|---|---|
| source's script, white space | refused (it defines no function) | clears the column |
| source's script, empty | cleared by an update, stored as empty by a creation | clears the column |
| action is created | `Validate` of its type, without a configuration | a form: blank fields are NULL; `chk_webhook_target`, `chk_js_script` |
| action is updated | URL, transform, `is_active` | all columns the form of its type shows |

The handlers read before they write, but only what never changes (an action's type) or what
the statement checks again (that the row is there), so a handler is one step.

**FanoutContract** has one action, `Call(p)`: a receiver is called for a delivery at
most `Top` times (`MAX_RETRIES`, or once when it is 0), and never after it has answered with
success. `Gateway` implements it (`calls` and `acked` map to themselves).

**GatewayInvariants** holds six invariants that every step preserves, five of them stronger than a
property of `Gateway` and the sixth (`PayloadIsDecided`) a property of its own, each checked by a
run and proved (section 4). They say who is
where when a property could break: which goroutine holds which delivery, what its locals
still have to do with the tables.

**ScriptRunner.** `runVM`: the machine is off, in the script's top-level code or in the call
of its function; the timer is another process (`Fire`) whose interrupt the machine notices
later (`Interrupted`), perhaps after it has gone from the code to the call. `EndRun` is the
return with its deferred `Stop`. A script may do anything at each run, and need not end. The
outcomes are those the callers can tell apart: an error (timeout, exception, no function, a
result of the wrong shape), null, a value.

**Backoff.** `nextRetryTime` in integers of `Width` bits: `Powers` is the conversion of
`math.Pow` (which the processor decides when it does not fit), `Wrap` the product, then the
cap, then the jitter as a set of delays. `Ideal` and `Shortest` are what it is meant to be.

**Attempts** extends both. It takes apart what is one step in `FanoutWorker`: the source's
script, the transform, the call and the answer, of one action for one delivery, by any number
of fan-outs and retry pollers.

| Code | Actions |
|---|---|
| `processDelivery` with `runTransform` | `Fanout`, `RunSource`, `Filtered` |
| `applyActionTransform` | `Transform`, `Transformed` |
| `dispatchAction`, `nextRetryTime` | `CreateAttempt`, `EndCall`, `RecordResult` |
| `Dispatch` of the five types | `Dispatch`, which is one of `Refuse`, `Post`, `Mail`, `Process`; `Answer`, which is one of `Responds`, `Mailed`, `Processed` |
| `pollRetries`, `retryAttempt` | `ListRetryable`, `ClearRetry` |
| `runVM` beside its caller | `Run` |
| process dies; the clocks | `Crash`, `Tick` |

Time is in ticks of the database's clock, and no variable holds a date: `wait` is what is left
until `next_retry_at`, `retry` the same before it is written, `quiet` the time since the last
call ended. `Skew` is how far the clock of a goroutine's host is ahead, so a `next_retry_at`
of that host is that much later for the database. `quiet` is counted up to the longest delay.
Statements do not fail here, and the delivery, its other actions and edits are left out: those
are `Gateway`'s.

Abstractions worth knowing. Of a payload only the kind is kept: what was posted
("original") or what the source's script made of it ("transformed"). Its content is not:
`processDelivery` runs the script again at every claim and `applyActionTransform` runs the
action's transform again at every attempt, and neither need give the same result twice
(`scripting.md:19` shows a script that adds a time stamp), so two calls of one delivery may
well differ, and no property here says that they do not. A script's result is any result:
error, drop, any subset of the actions, a skip by any action that has a transform. The attempt
numbers are `1 .. Top + 1`: the last one must never be used. `RollUpActions` reads the delivery
and the actions in one step (the delivery's columns it uses never change). `dispatch.Get` never fails: the types are restricted by a
CHECK constraint and all are registered. XACK and XDEL change only the group's list of
pending entries, which nothing reads. An error of a poll's query is a step that does
nothing. The limit of 200 deliveries of `ForwardAllRecorded` is left out. An id
that was deleted is never used again; a slug may be, by another source.

## 3. Runs

All runs but `Management` and `Attempts` are instances of `MCGateway`, with one source. Unless said otherwise: one
delivery, one action, `MAX_RETRIES` = 2, one request, a consumer in replica 1, a pending
poller in replica 2, one retry poller, no faults.

| Run | Instance | Question |
|---|---|---|
| `Replicas` | source script, retry poller in both replicas, 1 SQL error, 1 crash | types, the ladder, the receivers' contract, no overlapping calls, no lost retry; what the script made is what is sent, and stored before the first attempt (`RetriesAreKept`, `PayloadIsDecided`) |
| `Verdicts` | 2 actions, 2 deliveries with one key, 2 requests, 1 SQL error | is the verdict earned although its reads are stale (`VerdictsAreEarned`)? one fan-out per idempotency key (`KeyIsHeldOnce`); does a roll-up that stops leave its delivery to somebody (`ProcessingIsHandedOn`)? |
| `RecordMode` | record mode, 2 deliveries, 2 requests, 1 forward of each, a stream of length 1, 1 crash of the API server, `MAX_RETRIES` = 1, fair | does anything reach an action before it is forwarded (`UnforwardedIsHeldBack`)? is what is forwarded dispatched, unless a crash came between or its message was trimmed away? |
| `Edits` | 4 edits, the first two of which must create the source and the action | the ladder under cascades |
| `Settles` | 2 retry pollers, 1 Redis fault, fair | every delivery is settled; one in processing is attended |
| `TakenUp` | 2 deliveries, poll limit 1, a stream of length 1, 1 SQL error, 1 crash, `MAX_RETRIES` = 0, fair | no delivery stays pending; do `nextRetryTime` and the roll-up agree that the first attempt is the last (one call, nobody waits for a retry)? |
| `Management` | `MCManagement`: 2 sources, 1 action, both doors, no other bound | do stored scripts define the function that is called? does an update change only what its door shows, and leave an action that can run one that can? is every request an edit of Catalog? |
| `Attempts` | `MCAttempts`: 1 fan-out, 2 retry pollers with clocks one tick behind and ahead, `MAX_RETRIES` = 4, base delay 2, cap 3, 4 bits, 1 crash, fair; a webhook, a Slack action without configuration, a JavaScript action with a source script and a transform, an SMTP action | do retries keep their distance, and come? does every goroutine get back to work? |

`Verdicts` is symmetric in the actions, the deliveries and the requests.

These are what the code gets right. The following are violated, each by a behaviour of
the code that a document or a comment of the repository denies (`PROJECT.json`,
`findings`, quotes the lines):

| Run | What happens |
|---|---|
| `Stalls` | an action whose transform returns null, or that the source script left out, has no attempt; the roll-up waits for one, the delivery stays in processing |
| `StaleMark` | a poller's late `recorded` overwrites the status of a delivery that was forwarded and dispatched |
| `LostRetry` | the INSERT of a retry fails and the schedule is cleared all the same |
| `EarlyCompletion` | an action with a retry to come is deactivated: the delivery is completed over the retry |

Four more behaviours of the code are at odds with what a document says. No run is about them;
three are why a property that holds has an exception (TLC finds them when it is dropped), and of
the double claim a property says what is left of the promise.

* A worker that dies after its claim leaves the delivery in processing, and nobody will dispatch it:
  the poll lists pending deliveries only (`store/delivery.go:97`). `concepts.md:54` says of
  processing "Worker is dispatching to actions". `ProcessingIsAttended` speaks of a calm system
  for this reason: no crash, no failed statement (`LostRetry`), no edit, no transform that skips an
  action, no source script that leaves one out (`Stalls`).
* A forced message carries what the table does not hold. When MAXLEN drops it, the poll finds the
  delivery without `force` and records it again; it is never dispatched. `architecture.md:61` says
  that "if Redis loses a message, the poll loop picks up the pending delivery". So
  `ForwardIsDispatched` excepts a message in `trimmed`, beside faults, scripts and transforms.
* The claim does not test the status, so two workers may both claim one delivery and run its
  scripts twice. `architecture.md:65` says that replicas work "without duplicating work". Of that
  the part that reaches the receivers holds: the UNIQUE constraint keeps the calls apart
  (`ReceiverContract`, `OneCallAtATime`).
* The product of `nextRetryTime` overflows before the cap is applied, and a late retry may be due at
  once. `architecture.md:72` promises exponential backoff without such a limit. So `Spacing` speaks
  of products that fit (with a base delay of 5 s that is up to attempt 31), and `Capping`, that a
  delay is never too long, of all.

`Management` shows the shape of the two doors, too. The JSON API has no field for `config`
(`handler/action.go:22`), so Slack, SMTP and Twilio actions can be created through the
dashboard only. The dashboard does not run `Validate`: it stores an action of these types
without a configuration when a field is missing, and port 0 for one that is no number. A
PATCH with an empty `target_url` makes a webhook action that has no URL. An action's
transform is cleared by an empty string through the API and cannot be cleared from the
dashboard. That is why `ScriptsDefineTheirFunction` speaks of scripts only (of configurations and URLs
it would be false, and no document says otherwise), and why `UpdatesStayInForm` excepts an empty
target and a broken port: any other update of an action that its dispatcher accepts leaves it so,
although no update calls `Validate`. A column an update leaves out is kept; one it sends empty
is emptied on purpose. `signing_secret` is not modelled.

Two things `Attempts` shows beside its properties. `docs/.../architecture.md:72` writes the delay
as "base delay * 2^attempt"; the first one is the base delay. And an SMTP server that accepts a
connection and says nothing keeps its goroutine for ever, a consumer or the whole retry poll of a
replica, so `GoroutinesReturn` is stated without it.

**Bounds.** The errors, crashes, edits and forwards are bounded by constants of the
modules (`MaxDbFaults`, `MaxRedisFaults`, `MaxCrashes`, `MaxApiCrashes`, `MaxEdits`,
`MaxForwards`); loops of the code are not. `Management` has no bound but its two sources and
its action: handlers write one row each, and a cascade needs a source with an action and one
without. Two goroutines of a kind are enough for every
race the code has, because a race is between two statements of two goroutines with the
rows of one delivery in common; `MAX_RETRIES` = 2 has a first, a retried and a last
attempt; `TakenUp` has the boundary where the first is the last (0 and 1 allow the same attempts). The
length 1 of the stream makes the trim happen, the poll limit 1 leaves a pending delivery behind;
both need two deliveries, since with one a message can only be replaced by another of the same
delivery. In `Attempts` the first delay is 2, the
second is capped, the third overflows (8 does not fit 4 bits), and the skew of one tick is
enough to bring a retry forward and to put one off; the code's own values only scale these. The
theorems below do not depend on any of these bounds.

**Fairness.** `FairSpec` assumes that a goroutine that can take a step does so (weak
fairness of every `Step(g)`: the Go scheduler, and the tickers of the polls), and that a
request in progress runs on (`Handle(h)`). It does not assume that anybody posts,
forwards or edits, that Redis or SQL commands succeed (the errors are bounded in number),
or that a receiver ever answers with success. A retry poll that
finds nothing leaves the state as it is, so fairness of the poller asks for one that finds
a scheduled retry: time passes, and `next_retry_at` with it. It also assumes that every call
returns, which the HTTP client's timeout justifies for webhook, Slack and Twilio actions, the
script's timer for JavaScript actions, and nothing for SMTP actions.

`FairSpec` of `Attempts` takes this apart: weak fairness of a goroutine's steps (an HTTP answer
is one, because the client has a timeout: `DELIVERY_TIMEOUT`, taken as positive; an SMTP answer
is not), of the script's timer with the interrupt it causes, and of time. No fairness of the
script: that goroutines get back to work rests on the timer. goja looks for the interrupt between
two instructions; a single built-in operation is taken to end.

## 4. Proofs

Every safety property of `Gateway`, `Management` and `Attempts` that a run checks is also a
theorem. `GatewayProofs` proves, for all values of the constants that satisfy the assumptions of
the modules:

| Theorem | Statement |
|---|---|
| `TypeCorrect` | `Spec => []TypeOK` |
| `LadderInvariant` | `Spec => []Ladder` |
| `NoOverlap` | `Spec => []OneCallAtATime` |
| `KeepsContract` | `Spec => ReceiverContract` |

further, for the same system, each property with the inductive invariant it follows from:

| Module | Property | Inductive invariant |
|---|---|---|
| `IntakeProofs` | `FanoutOncePerKey`: `Spec => []OneFanoutPerKey` | `KeyHeldOnce`: `Spec => []KeyIsHeldOnce` |
| `IntakeProofs` | `RecordModeHolds`: `Spec => []RecordModeIsQuiet` | `UnforwardedHeldBack`: `Spec => []UnforwardedIsHeldBack` |
| `PayloadProofs` | the same | `PayloadDecided`: `Spec => []PayloadIsDecided` |
| `VerdictProofs` | `VerdictHolds`: `Spec => []VerdictIsEarned` | `VerdictsEarned`: `Spec => []VerdictsAreEarned` |
| `RetryProofs` | `RetryIsNotLost`: `Spec => []NoRetryIsLost` | `RetriesKept`: `Spec => []RetriesAreKept` |
| `RetryProofs` | `AttendedInProcessing`: `Spec => []ProcessingIsAttended` | `HandedOn`: `Spec => []ProcessingIsHandedOn` |

Then there are `ManagementProofs`

| Theorem | Statement |
|---|---|
| `RowsAreTyped` | `Spec => []TypeOK` |
| `StoredScriptsRun` | `Spec => []ScriptsDefineTheirFunction` |
| `UpdatesKeepActions` | `Spec => UpdatesStayInForm` |
| `KeepsCatalog` | `Spec => ImplementsCatalog` |

and `AttemptsProofs`

| Theorem | Statement |
|---|---|
| `TypeCorrect` | `Spec => []TypeOK` |
| `LadderInvariant` | `Spec => []Ladder` |
| `CappedRetries` | `Spec => []Capping` |
| `SpacedCalls` | `Spec => Spacing` |

The argument of `GatewayProofs`. The contract is not inductive: that a receiver is called at most
`Top` times follows from the table, not from the counter. `Ladder` ties them
together. The attempts of a delivery and an action form a ladder: numbered without gaps,
all but the last failed (`Rungs`). A retry, in the table, in a poller's list or in its
locals, is held only for a failed attempt that is not the last one allowed (`Retries`).
So when the UNIQUE constraint lets a goroutine insert an attempt, its number is the next
rung, nobody else is between inserting and recording one of that ladder, and no call has
succeeded (lemma `NextRung`); until it records the result the goroutine is alone
(`Flights`, `Exclusive`), and the receivers' memory agrees with the ladder (`Calls`).
Deletions are the hard part: a cascade may take the rows of a call in flight; the pair is
then `Gone` and, as a deleted row never comes back, no attempt of it can be inserted.
`IInv == TypeOK /\ Ladder` is inductive by itself.

The six invariants of `GatewayInvariants` are inductive together with `IInv`. Why each is needed:

* `KeyIsHeldOnce`. The UNIQUE constraint keeps two rows with one key from existing at once; the
  property speaks of calls, which outlive the rows. So a delivery holds its key while its row
  exists, while a call of it is under way, and for ever once called. The hard case is a deletion: the
  row goes, the key is free in the table. But deliveries are deleted only with their source, and a
  source's id never comes back, so no other delivery with that key can be inserted.
* `UnforwardedIsHeldBack`. That nothing is called before it is forwarded needs to know what is on the way: an
  unforwarded delivery in record mode is in no forced message of the stream, no list of a
  consumer, no request, and nobody who holds it has passed the test of the mode. It is not enough to
  look at the status, which is "pending" for a while.
* `PayloadIsDecided`. A retry reads the payload from the table, the first call from locals. They agree
  in kind because the script's result is stored before the first attempt is created (`Stored`),
  and a retry exists only after an attempt. Two fan-outs of one delivery may both run the script
  and store different results: that both are results of the script, and the original is neither,
  is what the property tells apart, and all it says.
* `RetriesAreKept`. A poller at `ClearRetry` has seen the next attempt into the table, its own or, after the
  UNIQUE constraint refused it, somebody else's. So a crash before or after it loses nothing.
* `VerdictsAreEarned`. The roll-up's reads are stale when it writes. What it has read stays true all the same: a success
  is in the receiver's memory, a failed last attempt is one of `Top` calls, and both only grow; and
  that one action has not been answered with success stays true, because it has used up its calls
  and `Ladder` allows no other (`ExhaustedIsUsed`). So the fact about the receivers (`Earned`) is carried from the reads to the write.
* `ProcessingIsHandedOn`. A roll-up that finds something unfinished writes nothing and goes away; somebody else
  must be left. Once a delivery has one attempt, every active action has its first attempt or is in
  the loop of a fan-out still at work (`AllAreEntered`), and who created a pending attempt
  is there to record it. So where the roll-up stops at an action it has seen no attempt of, a
  fan-out is about to enter it; at a pending attempt, its maker will roll up later; at a failed one
  that is not the last, a retry is scheduled, listed, or made (`RetriesAreKept`). It uses all of the
  invariants before it except the first two.

The conditions in front of them are part of the properties and not of the proofs: where
statements fail (`dbFaults`), the code itself loses retries (`LostRetry`); edits
change what a verdict is about (`EarlyCompletion`) or the mode and script of a source under a
delivery; after a crash nobody attends. Failing Redis commands
and, but for the last one, crashes are in none of the conditions.
`KeyIsHeldOnce`, and of `VerdictsAreEarned` that a success was answered, hold without any.

Layout: in `GatewaySteps` what the steps of the worker do to rows and locals, cases of `Next`
that more than one proof splits on, and `InductiveInvariant` for the last steps; in the four others one
lemma per action that can disturb the invariant, and one for all that cannot.

The assumptions are the named ones of the modules: the foreign keys
(`TablesAssumption`, `OwnersAssumption`), natural bounds (`BoundsAssumption`, `ApiAssumption`), disjoint kinds
of goroutines (`GoroutinesAssumption`), a configuration that refers to existing rows
(`ConfigurationAssumption`). `MaxRetries` may be 0.

Layout of `GatewayProofs`: types of the statements; what a step that leaves attempts alone preserves
(`TablesStayLadder`, `QuietStep`, `StepInv`); one lemma per action of the worker; the
handlers, edits (`DeletionInv` for cascades), crashes; the theorems.

`ManagementProofs`. The twelve handlers come down to four writes of a row and two
deletions, with arguments that passed the checks (`SourceWrite`, `ActionCreation`,
`ActionUpdate`, joined in `Steps`). Two facts carry `StoredScriptsRun`: what a handler lets
through as a transform defines `transform`, and `COALESCE` of two such texts is one of them
(`CoalesceRow`); the second needs the invariant, because the kept column was written
earlier and perhaps through the other door. `UpdatesKeepActions` needs it, too (`UpdateFrame`): which
column an update may change depends on the type in the row, and that a JavaScript action stays
valid on what its body has been checked for. The refinement needs in addition that an action
not yet created has no transform (`Blank`), else a creation would have to clear one.

`AttemptsProofs`. First the arithmetic: a product that fits is not changed by the width
(`WrapFits`), so a delay is never too long, and when the product fits not too short
(`DelayRange`), and with the clock's skew the same holds of the wait that is written
(`RetryRange`). `Spacing` follows from an invariant about time: until the next attempt is made,
the silence since the last call and the wait that is left are together long enough (`Paced`). A
tick moves one unit from the wait to the silence (`TickInv`); what threatens it is a call that
ends and so resets the silence while somebody else holds a retry that is due. The other
half of `Ladder` excludes that: attempts have no gaps, only the top one is not failed, and
one goroutine at a time is between creating and recording (`Rungs`, `Flights`), so while a
call is under way every failed attempt already has its successor (`FlightIsLast`), and whoever
holds one of them will be refused by the UNIQUE constraint. Assumptions: positive delays and
width, a bounded skew, and `PowersArePositive`, that 2^n is a positive integer for the exponents
that occur; it is plain arithmetic, but the provers do not interpret exponentiation, and TLC
evaluates it on every run.

## 5. What is only model-checked, and what is left out

Only model-checked: the liveness properties `EveryDeliverySettles`, `PendingIsTakenUp`,
`ForwardIsDispatched`, `GoroutinesReturn` and `FailedIsFollowed`. Liveness under fairness and
ENABLED are out of the prover's reach. The properties of the four runs that expect a violation are
false of the code, so there is nothing to prove. All other properties of the runs are theorems.

The theorems about `Gateway` hold of any number of deliveries, actions, goroutines and
faults, but of `Spec`: they need no fairness and promise no progress. `ProcessingIsAttended`
says that a delivery in processing is in somebody's hands, not that they ever finish; that is
`EveryDeliverySettles`, on its instance.

That `Attempts` and `FanoutWorker` describe the same code at two grains is argued by their
tables above, not checked: `Attempts` has one action and no faults of statements, which is what
keeps its instance small enough for time and scripts.

Of the script runner, two things are outside the runs. `validateScript` runs a script's
top-level code without a timer (`runner.go:99`), so a request that stores a script that does not
end never returns: one goroutine, with nothing to interleave. And the result is exported after
`runVM` has stopped the timer (`runner.go:147`, `208`, `244`), where what a script does in a
getter is neither timed nor recovered from; a result is taken as plain data here.

Not modelled: see the inventory; `PROJECT.json` gives the reason for each component.

## 6. Plan

Done: `Catalog`, `Store`, `FanoutWorker`, `ApiServer`, `FanoutContract`, `Gateway`,
`Management`, `ScriptRunner`, `Backoff`, `Attempts`, their runs, and the proofs above, which
cover every safety property of the runs. Next, in this order:

1. A run of `Attempts` with two fan-outs, and a list of more than one retry per poll.
2. That `Attempts`, with one action and no faults, implements the worker's part of `Gateway`:
   the map of its labels to `pc`, step by step.
3. What `Attempts` says of its scripts (`TypeOK` ties machine and timer to the caller) as an
   invariant of its own.

An abstract life cycle of a delivery's status was considered and dropped: as the claim, the mark
of record mode and the roll-up write unconditionally, even a terminal status may be left again, and
what remains true of it is what `EveryDeliverySettles`, `VerdictIsEarned` and
`ProcessingIsAttended` say.
