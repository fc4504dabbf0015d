# A TLA+ verification of the EV charging hub

The repository is an OCPP 1.6J hub: chargers hold a WebSocket each, the hub
answers their messages, records raw transactions and meter samples in
PostgreSQL, tells a *core* (the business system) about everything through an
outbox of events, and sends the core's commands to the chargers. It does not
bill; it must give the core the right facts, each at least once and in order.

This directory models the hub's concurrent core, checks it with TLC, and proves
part of it with TLAPS. Sections: 1 inventory, 2 plan, 3 the modules, 4 the runs
and their bounds, 5 fairness, 6 findings, 7 proofs, 8 what is not modelled.

## 1. Inventory

One process (`hub/main.py`): an asyncio event loop with one task per WebSocket
and four background workers; every charger CALL is handled in a thread of a
pool, in one database transaction (READ COMMITTED, `autoflush=False`, a
`statement_timeout` and a `lock_timeout`).

| component | state | operations | correct when |
|---|---|---|---|
| **Transaction handlers** `ocpp/handlers.py`, `main._handle_call_sync` | `ocpp_transactions`, `charger_connectors`, `meter_samples`, `tx_counter` | StartTransaction, MeterValues, StopTransaction, StatusNotification, each commit or rollback | ids are never shared; a connector never shows a finished transaction (unless it was stopped under another charger's cp_id); a transaction ends once, with a measured energy, and its end is in the outbox |
| **Orphan sweeper** `sweeper.py` | none of its own; reads and rewrites the same tables every 60 seconds | `sweep_once` | a transaction of a silent charger ends; one it ended stays as settled; it does not undo a real stop |
| **Registry and sessions** `ocpp/registry.py`, `main._ocpp_session` | connection per `cp_id`, its pending Futures, the task of each socket | register, get, unregister, send_call, resolve, fail_all_pending | commands go to the newest live connection; nobody waits for an answer that cannot come; no dead entry stays |
| **Command queue** `queue.py`, enqueueing in `admin_api.py` and `main._enqueue_boot_config` | `charger_commands`; the worker's batch, in memory only | enqueue, boot, expire, claim, execute, retry, delete | at most `max_attempts` executions; DONE carries the charger's answer to the last attempt; a finished command stays finished; an overdue one ends |
| **Outbox** `handlers.emit`, `core_client.py`, replay, `retention.py` | `hub_events`; the worker's batch | emit, commit, deliver, retry, replay, delete | nothing committed is lost; the core meets events in order |
| **Authorization** `handlers.on_authorize`, `core_client.core_authorize_sync` | cache of idTags in memory | remember, authorize, expiry | an idTag of a RemoteStart is accepted, also while the core is down |
| **Charger authentication** `auth.py`, `secretbox.py` | `chargers` rows | verify, auto-register, shut out | who was shut out is not let in, whatever a handshake at that moment does |
| **Framing** `ocpp/protocol.py` | - | parse, format | a malformed frame is answered or dropped and the session goes on, but for the few that parse or the socket raises on |
| **Meter value parsing** `handlers.parse_meter_values` | - | a pure function | the register is what the message last says of it |
| **Simulator** `simulator/cp_sim.py` | `tx_id`, a task per command, its Calls in flight | RemoteStart, RemoteStop, meter loop, `call()` | a granted start becomes a transaction; no reading follows its transaction's stop |
| **Deployment** `deploy/`, `evctl` | the checkout, the service | pull, reset, install, restart | a new commit gets to run |
| Internal API `admin_api.py` | - | enqueue, replay, update, lists | see queue, outbox and authentication |
| Retention `retention.py` | - | delete old rows | deletes finished rows only |
| Configuration `config.py`, `db.py`, `ocpp/config_profile.py` | - | constants | - |

**Interactions.** Handlers, sweeper and `_mark_disconnect` write events into the
outbox *inside* their own database transaction. The command worker reads the
queue table, asks the registry for a connection, and waits on a Future that the
connection's session completes. The boot handler writes commands while the
worker has some of them claimed. The sweeper writes the rows the handlers write.
A RemoteStart crosses four of the parts: the worker remembers its idTag and sends
it, the charger asks with that idTag whether it may start, the hub answers from memory or
asks the core, and the charger starts, meters and stops a transaction over
the same link on which the answer to the RemoteStart may still be outstanding.
Every restart (each deployment makes one) drops connections, batches,
Futures and open database transactions, and keeps the tables.

**What is hard here.** Row locks that protect handlers from each other but not
from the sweeper; columns read without a lock and written at a later commit;
connections that are replaced before the hub has noticed that the old one died;
a claim that is committed before the work and forgotten by a restart; ids that
are drawn before the commit that makes them visible, or before a wait for a lock; answers that come late;
errors that leave a function by a path nobody wrote. `PROJECT.json` lists these
hazards at their lines with the properties that would notice each going wrong.

## 2. Plan

Done:

1. `Transactions` (the money): handlers and sweeper over the shared tables.
2. `TransactionsProofs`: its inductive invariants.
3. `Sessions`: registry, session life cycle, pending Calls.
4. `Commands`: the queue with its worker.
5. `EventFeed` (abstract) and `Outbox` (detailed): the promise to the core.
6. `Authorization` and `Simulator`, and their composition with `Commands` in
   `RemoteStart`: one RemoteStart from the API to the end of what it started.
7. `Frames` and the authentication of chargers, composed with the session loop in
   `Sessions`.
8. `MeterParsing`: a pure algorithm against its reference.
9. `Deploy`: `autodeploy.sh` with failing commands.
10. Calls past `expires_at` in `Commands` (`late`).
11. `RowOrder` and its lemmas, which the two workers' proofs share.
12. Proofs of every invariant and every action property the passing runs check, and of two
    implementations: `Outbox` of `EventFeed`, `RemoteStart` of `Commands` (section 7).
13. Of two findings the other side, as theorems: what the code does keep of `EndsOnce`
    (`EndsAtMostTwice`) and of `NoLeak` (`RegisteredIsLive`).

Next:

14. The same for `OrphanAtLastReading` (an orphan whose newest sample has a value is settled at
    it, or at a reading of its own) and `OneConfigPending`.
15. An abstract specification of a transaction's settlement as the core sees it,
    which `Transactions` implements; one of a charger's link for `Sessions`.

All modules keep their parameters as CONSTANTS under a named ASSUME and use no
RECURSIVE operator, so that each can be proved about.

## 3. The modules

A step of a model is the code between two points where something else can run: a
lock or a commit of the database, an `await` of the event loop. Strings are
members of small sets. `PROJECT.json` maps every definition to its lines.
An operator `XMutant` is a plausible slip of the code `X` models. No
specification uses it; the runs of section 4 are also made with it in the place of
`X`, and must then find the named property violated, so that each
property is known to depend on the code.

### `Transactions` - handlers and sweeper

A connector is a pair of a charger and a number (`Chargers \X ConnectorIds`).
The variables are columns (`status`, `meter_start_wh`, `energy_wh`,
`active_tx_id`, ...), the two kinds of `FOR UPDATE` lock (`counterLock`,
`txLock`), what each pool thread has read (`job`) and what a running sweep has
read (`sweep...`). A handler whose reads decide its writes is `...Begin` (reads,
locks) and `...Commit` (all its writes, its event, the locks' release); `Abort`
is the rollback. `on_meter_values` is one step, because what it reads of the row
never changes. The sweeper is `SweepStart` (query), `SweepScan` per row (last
sample and connector, read then), `SweepFlush` and `SweepCommit`. Its flush writes the
connectors, then the events, which draw their ids there (`sweepPlace`), and then
the transactions, where it waits for the handlers that hold a row; a handler may
draw the id of its own event in that wait, so `OrphanEvents` inserts the sweep's
events at the places it drew and not at the end. `sweepSeen` is what its
session may still hold of a connector it read in an earlier turn (a query does
not refresh an object in the identity map). Its UPDATE overwrites
whatever the row says by then, as PostgreSQL does.

A StopTransaction finds the transaction by its id alone, and the connector by the
charger that sent it (`SendersConnector`): nothing asks whether the transaction is that
charger's. Sent under another cp_id it stops the transaction, looks at a connector of
the sender, and leaves the transaction's own as it is; `strayed` is the history of
these, which `ActiveIsRunning` excepts. `Crash`
forgets all jobs and locks. Time is relative: a row has an age that stops
mattering beyond the cutoff, so no clock grows. `events` keeps each
transaction's own events; their delivery is `Outbox`.

Two inputs describe chargers: readings of a register that grows, or, with
`RegisterResets`, of a meter that was replaced; and messages with old time stamps (a
buffered StartTransaction of `StartAges`).

### `MeterParsing`

`parse_meter_values` as a fold over the items of a meterValue, `Take` being one
turn of its inner loop, and `RowIsLastWord`: what the fold comes to, said
without a loop. `MCTransactions` assumes their equality for every meterValue of up to
three items, and that the register values `Transactions` draws are what the parser
can return; TLC evaluates both before each of its runs. Timestamps and fractions
are left out.

### `Frames` and `Sessions` - framing, authentication, registry, sessions

`Frames` has `parse` over the *shape* of a frame: a list of values of which only
the message type, the id and "string, object or other" are told apart, with the
`IndexError` a list that is too short would raise at the index parse uses, the plain
`ValueError` and the `RecursionError` that `json.loads` raises on an integer of too many digits
and on lists nested too deeply, and the `KeyError` of `receive_text` on a binary frame
(`receive`). A reply repeats parts of the frame it answers; if one of them is half of a surrogate pair,
which JSON may escape but no UTF-8 stands for, it cannot be sent (`CanReply`). `Breaking` has the
frames of these four kinds.
`Sessions` extends it: each frame the loop reads is one of the shapes `Looks`
allows, a well-formed CALL or answer, one of the malformed ones or, on a connection
of `Garbling`, a breaking one, and what the loop does (`AfterFrame`) follows from `receive`.

`row` is the charger's row as its handshakes see it: absent, `open` (its password
matches) or `shut` (DISABLED, or another password). `CheckAuth` reads it,
`AutoRegister` is the INSERT, which loses against that of another handshake;
`UpdateCharger` is the administrator in between. `pc[s]` follows a
connection from `new` through the handshake (`inserting`, `admitted`) and
`_ocpp_session`: `opening` between `register` and its `try`,
`loop`, `handling` (a CALL is in a thread, the next frame waits), `mute` (the same, with
a reply that will turn out to be one that cannot be encoded), `finally`, `marking`. `socket[s]` is the link, which may be `stalled` before it is `gone`.
`current` is the command worker's single outstanding Call with its Future. `closed`
and `pending` are fields of `Connection`. The environment (calls, answers, late
answers, stalls, breaks) is modelled from how the code meets it.

### `Commands` - the queue

One row per command; `batch` is the memory of the worker. `ExpirePending` and
`Claim` are the two halves of `_tick`; `Refuse`, `PutBack`, `Call`, `Complete`,
`Fail` are the branches of `_execute`; `CallAborts` is the exception none of its
handlers catches. A charger that gets a Call carries it out and answers Accepted
(`CarryOut`), refuses it with an answer whose status is Rejected (`Decline`), or answers with
a CALLERROR (`Reject`). The first two are CALLRESULTs and make the command DONE, with
the answer as its `result`; `said` is the history of what the charger answered to
the worker's current Call. `executions` counts how often the charger really did it, which
a lost answer hides from the hub: DONE with Rejected does not even say that the command was not
carried out, since an earlier attempt may have been. `stranded` is a history of what a crash or an
abort took from the worker, and `late` how many Calls of a command went out after its
`expires_at`; no guard reads them. A command is late once at most: it is
claimed before it expires and sent after, and the next tick finds it.

### `RowOrder`

What `ORDER BY ... LIMIT` returns, for the queries of both workers: `Rank` of a
row among those that match, `FirstRows` up to the limit, `InOrder` the list. It
says so by counting, without a recursion, so that it can be proved about.

### `Authorization`, `Simulator` and `RemoteStart`

`Authorization` is the dict of idTags with the age of each grant, `_idtag_known`,
and the decision of `on_authorize`: a remembered idTag, or the core's word, where
no answer is a no. `Simulator` is `cp_sim.py` as tasks: `start[n]` the task of
the n-th RemoteStart that arrives (start_tx, then its meter loop), `stop[t]` the
task that ends transaction `t`, both sharing `tx_id`; a task that waits in
`call()` is in a phase, and its request is in `up`, the link to the hub. A
request whose link is gone (`heard`) is still handled; its answer reaches nobody.

`RemoteStart` puts them together with `Commands`: attempt `n` of the command on
`wire` is the `n`-th RemoteStart of the simulator, the hub takes `up` in order and
each answer is what the handler decides. `tx` is the status of each transaction.
`trouble` is the history of whether anything failed, which the two liveness
properties except; `sentAgo` is the time since the last attempt, which
`GrantHonoured` compares with the TTL. A command's expiry, the boot of the
simulator and the sweeper, which has the transactions a broken link leaves RUNNING,
stay in `Commands` and `Transactions`.

### `Deploy`

`autodeploy.sh`, one action per command, in the script's
order; `Fails` is `set -e` at any of them. `head` is the checkout, `running` the
revision of `hub/` the service runs, `venv` that of the requirements.

### `EventFeed` and `Outbox`

`EventFeed` says what `class HubEvent` promises: an event is processed after
everything that had been committed before it came into being, except what the
core refused. `Outbox` is the implementation: ids drawn at the INSERT and
visible at the commit (`OPEN`, then `PENDING`, or `GONE` when rolled back),
batches in id order, a post and its commit as two steps, replay, deletion. The
refinement mapping is `fed <- seen`; `before` is the history of what was
committed when an id was drawn. Order by id is weaker than order by commit, and
`EventFeed` is exactly as strong as id order makes true.

### `MC...`

Each `MC` module extends one specification and names the sets its `.cfg` files
give to the constants.

## 4. Runs

| run | instance | states | shows |
|---|---|---|---|
| `transactions_overlap` | 2 chargers of 1 connector, 2 workers, 2 transactions, 1 reading, no samples, symmetry | 204,649 | the interleavings of two handlers and a sweep: `ActiveIsRunning`, `StopReported`, `ChargerStopsOnce`, `FreshTxIds` |
| `transactions_billing` | 1 connector, 2 workers, 1 transaction, 2 readings, 2 samples | 48,814 | what is settled: `TypeOK`, `NeverOvercharged`, `OrphanIsFinal`, `RunningEnds` |
| `sessions` | 1 charger, 2 connections, 2 Calls, every shape of frame, breaking ones on one connection | 630,874 | `LiveIsRegistered`, `NoCallIsStranded`, `FinishedIsForgotten`, `OnlyLossEndsSession`, `ShutStaysOut`, `CallComesBack`, `GoneIsForgotten` |
| `commands` | 1 charger, 2 commands, batches of 2, 2 attempts | 1,140,572 | `ExecutedAtMostMax`, `SentLateAtMostOnce`, `SentIsClaimed`, `DoneAsAnswered`, `TerminalIsFinal`, `OverdueSettles` |
| `remote_start` | 1 charger, 1 RemoteStart of 2 attempts, 1 idTag, TTL of 1 | 79,095 | `StartsAtMostMax`, `NoMeterAfterStop`, `GrantHonoured`, `RemoteStartRuns`, `RemoteStopEnds` |
| `outbox` | 4 events, batches of 2 | 177,296 | `NothingLost`, `BatchIsPending`, `FeedSpec` (refinement), `EventsArrive` |

Six more runs are expected to end in a counterexample: section 6.

**Bounds and why they are enough.** Every race of the handlers is between two
database transactions, or one and the sweep, on one transaction row and one connector:
two workers beside the sweep, two transactions on one connector (a new one
starting while the old one is being closed), and a second charger under whose cp_id a stop may come. Two readings tell "grew", "fell" and
"equal" apart; two samples tell a sample with a value followed by one without.
A replaced connection needs two sessions, and two Calls a late answer of the
first beside the second. A retry needs two attempts, the order in a batch
two commands. Four events in batches of two let a rolled back id, a late
commit, a batch in work and its successors coexist. Two attempts of one RemoteStart
are two tasks of the charger with one `tx_id`, as many as a race about it takes;
a TTL of 1 has grants that are fresh, on the edge and stale. One push suffices
for a restart that never comes. Of a meterValue, three items
have a number, a value that is none and a number again. The bounds are `MaxTx`,
`MaxSamples`, `MaxInbox`, `Garbling` (the connections that get breaking frames), `MaxCommands`, `MaxEvents`, `MaxPushes`, the finite sets
`Sessions`, `Calls`, `Starts` (attempts; `RemoteStartAssumption` has it contain all of them) and `TxIds`; each is in a guard, none in a state constraint, so that the liveness
results stand. Crashes, ticks, replays, aborts, stalls and retries are not
counted at all. Only `transactions_overlap` uses symmetry, of the chargers and of the
workers: no formula names one of them, and the run checks invariants only.
In `transactions_billing` a charger falls silent because `MaxSamples` is used up; samples
with time stamps in the future, which could keep a transaction alive without end, are not drawn.

`Outbox`, `Sessions` and `RemoteStart` run without a deadlock check: they stop
when their bounded supply of events, connections or commands is used up.

## 5. Fairness

- `Transactions`: a handler that began ends (`statement_timeout`); the sweeper
  runs, gets through its rows and flushes; its commit is *strongly* fair, since a handler
  may hold a row each time but not always; time passes between sweeps
  (`ORPHAN_MINUTES` is many sweeps); a sweep and a handler that wait for each
  other are a deadlock the database breaks (`Abort`, `SweepAbort`); restarts and failing sweeps are not
  without end. Nothing is assumed of chargers: `RunningEnds` holds although no
  charger ever sends StopTransaction.
- `Sessions`: the event loop runs each ready task; handlers end; the server's pings
  and close handshake end a stalled or closed link. No fairness for chargers.
- `Commands`: the worker's loop goes on. Nothing is assumed about links,
  chargers or restarts.
- `RemoteStart`: the hub handles a request it has read, and an answered task of
  the simulator goes on. Nothing is assumed about the worker, links, timeouts, restarts or the
  core: what they spoil is `trouble`, and without any a start must come to a
  transaction or a refusal.
- `Deploy`: the timer goes on for ever, and from some time on no command fails.
- `Outbox`: the worker's loop goes on; the core, asked again and again about
  an event, at last answers something other than a
  5xx. Restarts, replays and failures of the hub's own database are not without end.

## 6. Findings

Each is a run that TLC ends with a counterexample against what a comment or a
docstring of the repository says; the quotations are in `PROJECT.json`.

1. `transactions_double_stop` / `EndsOnce`: `sweep_once` reads without
   `FOR UPDATE`. A StopTransaction that commits between the query and the
   sweep's commit is overwritten by the orphan's energy and reason, and a second
   `ev.tx.stopped` goes out. What is left is `StopReported`: the row has the energy of
   the orphan's end if there is one. It need not be the one with the higher
   id: a sweep whose flush drew its id before it waited for the handler's row lock comes
   first in the outbox and last to the row.
2. `transactions_orphan_reading` / `OrphanAtLastReading`: the newest sample
   without an energy value hides earlier ones, and the orphan is settled at 0.
3. `sessions_leak` / `NoLeak`: a database error between `register` and the
   `try` leaves a dead connection registered.
4. `commands_stranded` / `AllOverdueSettle`: what the worker has claimed and
   loses (restart, exception in the middle of a tick) stays SENT for ever; the
   expiry looks at PENDING rows only.
5. `commands_duplicate` / `OneConfigPending`: a boot does not replace the
   configuration command that is claimed at this moment; it is put back beside the new one.
6. `deploy_lost_update` / `PushRuns`: `autodeploy.sh` takes `HEAD` for what is
   deployed, and moves it before it installs and restarts. A failure in between
   (`set -e`) is not repaired two minutes later, since `HEAD` then equals
   `origin/main`: the pushed hub does not run until the next push or restart.

One more divergence is stated by a property that holds rather than by a run that
fails. `ocpp/protocol.py:7-8` says that every bad frame becomes an `OcppProtocolError`
and that the WebSocket connection is not broken off. `parse` catches `JSONDecodeError` and
`UnicodeDecodeError` only (lines 43-46), so an integer of too many digits
(`ValueError`) and lists nested too deeply (`RecursionError`) end the session by
`main.py:180`, as do a binary frame, on which `receive_text` raises (`main.py:162`), and a
reply that cannot be encoded. `OnlyLossEndsSession` names these, and shows that
no other frame ends a session; `FinishedIsForgotten` and `GoneIsForgotten` that a session which ends so is
cleaned up like any other.

## 7. Proofs

Every theorem holds for all values of the constants that satisfy the module's
assumptions (`TransactionsAssumption`, `FramesAssumption`, `SessionsAssumption`, `CommandsAssumption`,
`OutboxAssumption`, `AuthorizationAssumption`, `RemoteStartAssumption`): bounds are natural numbers,
chargers and ids are sets with the members the specification names, markers such as
`None` are none of them. TLC evaluates them on each run. In each module the inductive
invariant holds initially, each action keeps it (a lemma per action or per kind
of change, and under it a step per conjunct), and the theorems follow with PTL.

| module | theorems | property |
|---|---|---|
| `TransactionsProofs` | `TypeCorrect`, `BusyIsRunning`, `IdsAreFresh`, `BilledIsMeasured` | `TypeOK`, `ActiveIsRunning`, `FreshTxIds`, `NeverOvercharged` |
| `StopEventsProofs` | `EndsAreReported`, `ChargersStopOnce`, `OrphansAreFinal`, `SweepsCorrectOnce` | `StopReported`, `ChargerStopsOnce`, `OrphanIsFinal`, (`EndsAtMostTwice`) |
| `SessionsProofs` | `TypeCorrect`, `NewestIsRegistered`, `CallsAreReachable`, `DeadAreForgotten`, `SessionsEndByLoss`, `ShutStaysShut`, `RegistryIsExact` | `TypeOK`, `LiveIsRegistered`, `NoCallIsStranded`, `FinishedIsForgotten`, `OnlyLossEndsSession`, `ShutStaysOut`, (`RegisteredIsLive`) |
| `CommandsProofs` | `TypeCorrect`, `ExecutionsBounded`, `LateOnce`, `DoneIsAnswered`, `ClaimedOnce`, `FinishedStays` | `TypeOK`, `ExecutedAtMostMax`, `SentLateAtMostOnce`, `DoneAsAnswered`, `SentIsClaimed`, `TerminalIsFinal` |
| `OutboxProofs` | `TypeCorrect`, `NothingIsLost`, `BatchIsFront`, `OutboxFeeds` | `TypeOK`, `NothingLost`, `BatchIsPending`, `FeedSpec` |
| `RemoteStartProofs` | `RemoteIsCommand`, `RemoteTypeCorrect`, `StartsBounded`, `MeterBeforeStop`, `GrantIsHonoured` | (refines `Commands`), `RemoteTypeOK`, `StartsAtMostMax`, `NoMeterAfterStop`, `GrantHonoured` |
| `RowOrderProofs` | lemmas only | |

The properties in parentheses are stated in the proof module and checked by no run of their own.
Beside these, `Invariance` (`EventsInvariance`, `RemoteInvariance`) states each module's inductive
invariant.

### Transactions

`ActiveIsRunning` is not inductive. A commit of StopTransaction that does not
clear the connector must be known to concern a connector that shows something
else, although the connector was read earlier and without a lock. `IInv` adds:
`CounterInv` (rows above the counter do not exist; the worker in `start` holds
the counter's lock and the next id), `StartInv`, `StopInv` (a worker in `stop` holds the row's
lock, the row is RUNNING, the connector of the sender it has looked at is the transaction's own
if it will clear it, and does not show the row if it will not), `StatusInv`,
`RowInv` (a row that exists has its connector, and what `strayed` exists),
`PlaceInv` (a sweep that has flushed reads no more rows, and the places it drew are places of
the outbox), and `SweepInv` (what a sweep will close exists and, unless it will
clear its connector, is not shown there; the same for a row that was not what the
sweep found when it read the connector). The point of the argument is that only
`StartCommit` makes a connector show a transaction, and only a new one, so
"not shown" is stable once read. There is one lemma per action, under it one
step per conjunct the action can disturb; the theorems combine them with PTL.

`NeverOvercharged` needs `BillInv` beside `IInv`: the newest sample is a reading
the register's history has seen (`SampleInv`), the energy a sweep has decided on
and not yet written is measured (`SettledInv`), and a row that does not exist has
neither energy nor samples (`BlankInv`, so that a new transaction inherits
nothing). The history only grows while the start stays, so what was measured once
stays measured (`MeasuredIsStable`); that is why a sweep may write an energy it
computed before other handlers changed the row.

`StopEventsProofs` adds `EventsInv`. What a sweep breaks is that a transaction ends once; what is
left is one end of a kind at most, and a row that agrees with the orphan's if there is one.
The invariant follows the rows under a sweep: none of them has an orphan's end yet, so
one that has been stopped since the sweep read it was stopped by its
charger. That is why a sweep may overwrite a charger's stop (finding 1) but an orphan stays as it was
settled, and why the charger itself is never credited with two ends. Nothing is said of the order
of two ends in the outbox, which is open; the lemma `StopInserted` is about an end inserted before others.
`SweepsCorrectOnce` draws the limit of finding 1 from the same invariant: a transaction has at
most two ends, and if it has two, one is its charger's and one a sweep's.

### RowOrder

The rank of a row is below the size of the set, grows with the row, and each rank is
taken (an injection into an interval of the same size is a surjection);
hence `InOrder` lists each row once, in order, and `FirstRows` is closed
downwards. `HeadAndTail` is the worker that takes the first of a list.

### Outbox

`EventFeed` orders an event behind what was *committed* when its id was drawn; the worker
orders by *id*. `IInv` connects the two: ids are drawn without gaps (`DrawnInv`),
what was committed when an id was drawn has a lower id and stays committed
(`BeforeInv`), and everything that precedes an event of the batch is settled or
earlier in the batch (`FrontInv`). A fetch establishes `FrontInv` because the first rows
of the PENDING ones are closed downwards, and a lower id that commits later cannot have
been committed when the event of the batch was drawn. In `OutboxFeeds` a `Post`
the core processes for the first time is the feed's `Feed`, `SettleFailed` its `Refuse`, and
all else a stutter: a post the core has met before (the hub crashed or lost the answer)
and the commits, replays and deletions of rows.

### Commands

The bound on executions is not inductive: an execution can be on its way, and
its answer lost. `WireInv` says that for every command
`executions[i] + Cardinality(OnWire(i)) <= attempts[i]`, so every execution, done or to
come, is one of the counted attempts; `AttemptsInv` that what is PENDING or
still ahead in the batch has an attempt left. `BatchInv` makes the batch exactly the SENT rows
that were not lost, each once, which needs the lemmas of `RowOrder` at the claim.
`LateInv` is the argument for one late Call: what was sent late is overdue for
ever, and a tick expires before it claims. `ResultInv` is the one for `DoneAsAnswered`: an answer the
worker has is what the charger said to its current Call, which is true because that Call is
unanswered as long as it is on its way, and because a late answer finds no Future.

### Sessions

The four invariants are inductive together with `WorkerInv` (a Call in progress has a
connection and an id). The arguments are about steps that close a connection: what was
registered is replaced, what waited on it is failed, in one step. `ParseIsTotal`
is the lemma behind `OnlyLossEndsSession`: on every frame but those of `Breaking` `parse` returns or
raises `OcppProtocolError`, since the length checks come before the indices they guard, and what is
repeated in the reply can be sent. `RegistryIsExact` is
the converse of `LiveIsRegistered` and the limit of finding 3: nothing else is ever
registered than connections nobody closed, whose session is still to unregister them or was
failed before its `try`. Its own `RegistryInv` knows that a connection which has not
registered yet was never closed.

### RemoteStart

`RemoteIsCommand` shows that each step of the composition is a step or a stutter of `Commands`, so
all that is proved of the queue holds of it. `StartsAtMostMax` then needs
a budget (`CountInv`): attempts of the charger that have not asked yet,
StartTransactions on the link and transactions of the hub together are at most
`MaxAttempts`; each step moves one unit on or loses it. `NoMeterAfterStop` needs
`OrderInv`: no reading is behind its stop on the link, readings on the link are of
RUNNING transactions, and the transaction in `tx_id` is one nobody has begun to stop. The last
is what `stop_tx` gets by clearing `tx_id` before its first `await`. `GrantInv` says
that the idTag's grant is as old as the last attempt.

### What stays with TLC

- Liveness (`RunningEnds`, `CallComesBack`, `GoneIsForgotten`, `OverdueSettles`,
  `RemoteStartRuns`, `RemoteStopEnds`, `EventsArrive`): under fairness, hence with ENABLED.
- That `ParseMeterValues` equals `RowIsLastWord`: an induction over the items of a message.
- The properties of the six runs of section 6 are false, and `Deploy` has no other.

## 8. Not modelled

- The text of frames (JSON, UTF-8) but for what `Breaking` has of it, action names and payload fields but for
  meter values; time stamps; a register value that is NaN or infinite, whose
  `int(round())` raises (an `Abort`, as any exception of a handler).
- SoC, power, log rows, the columns of BootNotification and Heartbeat, names and
  models of chargers: nothing the properties speak of reads them.
- A StopTransaction for an id the hub does not know: it writes no row, only an event.
- The encryption of passwords, the reading of the Authorization header, and a
  database that fails during the handshake (the connection is not accepted).
- The batched deletion of logs and samples by age, and lists of the API.
- `config.py`, `db.py`, `config_profile.py`: constants. The isolation level and
  the time limits are the assumptions of `Transactions`.
- `install.sh`, the proxy, the copy of its configuration, and `evctl`'s other commands.
- In `RemoteStart`: the expiry of the command, the boot, heartbeats and status
  notifications of the simulator (but for the waiting they cause), and the sweeper.
- PostgreSQL, uvicorn, the chargers and the core: external, modelled from how
  the code uses them. A deadlock the database breaks, a timeout and a value
  `int()` refuses are all `Abort`.
