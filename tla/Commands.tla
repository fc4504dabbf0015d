------------------------------ MODULE Commands ------------------------------
(***************************************************************************)
(* The queue of commands for the chargers: table charger_commands,         *)
(* hub/queue.py (the one worker of the process), the enqueueing in         *)
(* hub/admin_api.py and in _enqueue_boot_config of hub/main.py, and the    *)
(* deletion in hub/retention.py.                                           *)
(*                                                                         *)
(* A step of the worker is what it does up to a commit or an await; the    *)
(* API and the boot handler commit in between, from other threads.  The    *)
(* worker claims a batch and then works through it, one Call after the     *)
(* other, each up to its answer, an error, or the timeout.  What it knows  *)
(* of a batch is lost when the process restarts, or when an exception      *)
(* nobody catches ends its tick.                                           *)
(*                                                                         *)
(* An operator XMutant is a plausible slip in the code X models; nothing   *)
(* uses it.                                                                *)
(***************************************************************************)
EXTENDS RowOrder

CONSTANTS
  Chargers,     \* rows of chargers
  MaxCommands,  \* bound: commands ever enqueued
  BatchLimit,   \* how many commands a tick claims
  MaxAttempts,  \* ChargerCommand.max_attempts
  None          \* no row yet

ASSUME CommandsAssumption ==
  /\ MaxCommands \in Nat
  /\ BatchLimit \in Nat \ {0}
  /\ MaxAttempts \in Nat \ {0}
  /\ None \notin Chargers

\* Commands are numbered by their created_at.
Ids == 1 .. MaxCommands

\* ChangeConfiguration of a boot (requested_by is hub-boot) or of the core, any
\* other action of _SENDABLE, and one that is not in it.
Kinds == {"bootConfig", "config", "remote", "unknown"}

VARIABLES
  created,     \* how many commands were enqueued
  charger,     \* ChargerCommand.charger_id
  kind,        \* ChargerCommand.action
  status,      \* ChargerCommand.status, "NONE" before and "DELETED" after the row
  attempts,    \* ChargerCommand.attempts
  result,      \* ChargerCommand.result: the status of the charger's answer, or an error
  overdue,     \* utcnow() is past ChargerCommand.expires_at
  at,          \* where the worker is
  batch,       \* the ids it claimed and has not finished, the current one first
  online,      \* chargers with a connection registry.get returns
  wire,        \* Calls on the way to a charger: <<command, attempt>>
  answer,      \* what came back for the current Call
  said,        \* history: what the charger answered to the current Call
  executions,  \* history: how often the charger carried the command out
  stranded,    \* history: commands the worker lost while they were SENT
  late         \* history: how many Calls were sent past expires_at

fixed == <<created, charger, kind>>
worker == <<at, batch, answer, said>>
history == <<executions, stranded, late>>
vars == <<fixed, status, attempts, result, overdue, worker, online, wire, history>>

Init ==
  /\ created = 0
  /\ charger = [i \in Ids |-> None]
  /\ kind = [i \in Ids |-> "none"]
  /\ status = [i \in Ids |-> "NONE"]
  /\ attempts = [i \in Ids |-> 0]
  /\ result = [i \in Ids |-> "none"]
  /\ overdue = {}
  /\ at = "idle"
  /\ batch = <<>>
  /\ online = {}
  /\ wire = {}
  /\ answer = "none"
  /\ said = "none"
  /\ executions = [i \in Ids |-> 0]
  /\ stranded = {}
  /\ late = [i \in Ids |-> 0]

Pending == {i \in Ids : status[i] = "PENDING"}
Terminal == {"DONE", "FAILED", "EXPIRED"}

\* The status in the payload of a charger's CALLRESULT.
Answers == {"Accepted", "Rejected"}

-----------------------------------------------------------------------------
\* A new row of the table, PENDING.
Insert(c, k) ==
  /\ created < MaxCommands
  /\ created' = created + 1
  /\ charger' = [charger EXCEPT ![created + 1] = c]
  /\ kind' = [kind EXCEPT ![created + 1] = k]
  /\ UNCHANGED <<attempts, result, overdue, worker, online, wire, history>>

\* POST /internal/chargers/{cp_id}/commands: any action, also one nobody may send.
Enqueue(c, k) ==
  /\ Insert(c, k)
  /\ status' = [status EXCEPT ![created + 1] = "PENDING"]

ReplacedByBootMutant(c) ==
  {i \in Ids : kind[i] \in {"bootConfig", "config"} /\ charger[i] = c
                /\ status[i] \in {"PENDING", "SENT"}}

\* The configuration commands a boot replaces, the core's among them.
ReplacedByBoot(c) == {i \in Pending : kind[i] \in {"bootConfig", "config"} /\ charger[i] = c}

\* _enqueue_boot_config, committed with the BootNotification.  One item stands
\* for the eight of boot_config_items.
Boot(c) ==
  /\ Insert(c, "bootConfig")
  /\ status' = [i \in Ids |->
                  IF i = created + 1 THEN "PENDING"
                  ELSE IF i \in ReplacedByBoot(c) THEN "EXPIRED" ELSE status[i]]

\* retention._cleanup_done_rows, after 14 days.
Delete(i) ==
  /\ status[i] \in Terminal
  /\ status' = [status EXCEPT ![i] = "DELETED"]
  /\ result' = [result EXCEPT ![i] = "none"]
  /\ UNCHANGED <<fixed, attempts, overdue, worker, online, wire, history>>

-----------------------------------------------------------------------------
ExpirableMutant == overdue

ExpirableUntriedMutant == {i \in Pending \cap overdue : attempts[i] = 0}

\* What a tick turns EXPIRED before it claims.
Expirable == Pending \cap overdue

\* The first half of _tick.
ExpirePending ==
  /\ at = "idle"
  /\ at' = "claiming"
  /\ status' = [i \in Ids |-> IF i \in Expirable THEN "EXPIRED" ELSE status[i]]
  /\ UNCHANGED <<fixed, attempts, result, overdue, batch, answer, said, online, wire, history>>

\* _claim_commands: the oldest PENDING ones, at most BatchLimit.
Claim ==
  LET claimed == FirstRows(Pending, BatchLimit)
  IN /\ at = "claiming"
     /\ at' = IF claimed = {} THEN "idle" ELSE "batch"
     /\ status' = [i \in Ids |-> IF i \in claimed THEN "SENT" ELSE status[i]]
     /\ batch' = InOrder(claimed)
     /\ UNCHANGED <<fixed, attempts, result, overdue, answer, said, online, wire, history>>

\* The current command gets the status s and the result r, and the worker takes
\* the next one.
Finish(s, r) ==
  /\ status' = [status EXCEPT ![Head(batch)] = s]
  /\ result' = [result EXCEPT ![Head(batch)] = r]
  /\ batch' = Tail(batch)
  /\ at' = IF Len(batch) = 1 THEN "idle" ELSE "batch"
  /\ answer' = "none"
  /\ said' = "none"

\* _execute of a command nobody may send, or whose charger is offline.
Refuse ==
  /\ at = "batch"
  /\ kind[Head(batch)] = "unknown"
  /\ Finish("FAILED", "error")
  /\ UNCHANGED <<fixed, attempts, overdue, online, wire, history>>

PutBack ==
  /\ at = "batch"
  /\ kind[Head(batch)] # "unknown"
  /\ charger[Head(batch)] \notin online
  /\ Finish("PENDING", result[Head(batch)])
  /\ UNCHANGED <<fixed, attempts, overdue, online, wire, history>>

\* attempts += 1 is committed.  Nothing looks at expires_at again.
Attempt ==
  /\ attempts' = [attempts EXCEPT ![Head(batch)] = @ + 1]
  /\ late' = [late EXCEPT ![Head(batch)] = IF Head(batch) \in overdue THEN @ + 1 ELSE @]

\* Then send_call sends.
Call ==
  /\ at = "batch"
  /\ kind[Head(batch)] # "unknown"
  /\ charger[Head(batch)] \in online
  /\ Attempt
  /\ at' = "waiting"
  /\ wire' = wire \cup {<<Head(batch), attempts'[Head(batch)]>>}
  /\ UNCHANGED <<fixed, status, result, overdue, batch, answer, said, online, executions,
                 stranded>>

\* It sends on a connection that breaks at this moment: a WebSocketDisconnect is
\* none of the exceptions _execute catches, and ends the whole tick.
CallAborts ==
  /\ at = "batch"
  /\ kind[Head(batch)] # "unknown"
  /\ charger[Head(batch)] \in online
  /\ Attempt
  /\ at' = "idle"
  /\ batch' = <<>>
  /\ stranded' = stranded \cup {batch[n] : n \in DOMAIN batch}
  /\ UNCHANGED <<fixed, status, result, overdue, answer, said, online, wire, executions>>

\* The answer is a CALLRESULT: whatever it says, the command is DONE, also when
\* the charger refuses it.
Complete ==
  /\ at = "waiting"
  /\ answer \in Answers
  /\ Finish("DONE", answer)
  /\ UNCHANGED <<fixed, attempts, overdue, online, wire, history>>

GivesUpMutant(i) == attempts[i] > MaxAttempts

\* A failed attempt was the last one.
GivesUp(i) == attempts[i] >= MaxAttempts

\* A CALLERROR, the timeout, or the end of the connection.
Fail ==
  /\ at = "waiting"
  /\ answer \notin Answers
  /\ Finish(IF GivesUp(Head(batch)) THEN "FAILED" ELSE "PENDING", "error")
  /\ UNCHANGED <<fixed, attempts, overdue, online, wire, history>>

\* A restart of the process: the table stays, the batch does not.
Crash ==
  /\ at # "idle"
  /\ at' = "idle"
  /\ batch' = <<>>
  /\ answer' = "none"
  /\ said' = "none"
  /\ online' = {}
  /\ stranded' = stranded \cup {batch[n] : n \in DOMAIN batch}
  /\ UNCHANGED <<fixed, status, attempts, result, overdue, wire, executions, late>>

-----------------------------------------------------------------------------
\* Outside: a charger carries a Call out or refuses it and answers, or the Call or
\* its answer is lost.  The last Call the worker has sent is the current one.
IsCurrent(i, n) == at = "waiting" /\ Head(batch) = i /\ attempts[i] = n

IsAwaitedMutant(i, n) == at = "waiting" /\ Head(batch) = i

\* Every attempt has a uniqueId of its own: only the answer to the Call the worker
\* is waiting for still finds its Future.
IsAwaited(i, n) == IsCurrent(i, n)

\* A CALLRESULT with the status a goes back, and gets there or does not.
Answered(i, n, a) ==
  /\ <<i, n>> \in wire
  /\ wire' = wire \ {<<i, n>>}
  /\ said' = IF IsCurrent(i, n) THEN a ELSE said
  /\ answer' \in IF IsAwaited(i, n) THEN {answer, a} ELSE {answer}
  /\ UNCHANGED <<fixed, status, attempts, result, overdue, at, batch, online, stranded, late>>

CarryOut(i, n) ==
  /\ Answered(i, n, "Accepted")
  /\ executions' = [executions EXCEPT ![i] = @ + 1]

Decline(i, n) ==
  /\ Answered(i, n, "Rejected")
  /\ UNCHANGED executions

\* A CALLERROR: the Future gets an exception.
Reject(i, n) ==
  /\ <<i, n>> \in wire
  /\ wire' = wire \ {<<i, n>>}
  /\ answer' = IF IsAwaited(i, n) THEN "error" ELSE answer
  /\ UNCHANGED <<fixed, status, attempts, result, overdue, at, batch, said, online, history>>

GoesOnline(c) ==
  /\ c \notin online
  /\ online' = online \cup {c}
  /\ UNCHANGED <<fixed, status, attempts, result, overdue, worker, wire, history>>

GoesOffline(c) ==
  /\ c \in online
  /\ online' = online \ {c}
  /\ UNCHANGED <<fixed, status, attempts, result, overdue, worker, wire, history>>

Expires(i) ==
  /\ status[i] \in {"PENDING", "SENT"}
  /\ i \notin overdue
  /\ overdue' = overdue \cup {i}
  /\ UNCHANGED <<fixed, status, attempts, result, worker, online, wire, history>>

Execute == Refuse \/ PutBack \/ Call \/ CallAborts
Environment ==
  \/ \E m \in wire : CarryOut(m[1], m[2]) \/ Decline(m[1], m[2]) \/ Reject(m[1], m[2])
  \/ \E c \in Chargers : GoesOnline(c) \/ GoesOffline(c)
  \/ \E i \in Ids : Expires(i)

Next ==
  \/ \E c \in Chargers : (\E k \in Kinds \ {"bootConfig"} : Enqueue(c, k)) \/ Boot(c)
  \/ \E i \in Ids : Delete(i)
  \/ ExpirePending \/ Claim \/ Execute \/ Complete \/ Fail \/ Crash
  \/ Environment

Spec == Init /\ [][Next]_vars

\* The worker's loop goes on: it is polled every second, and wait_for ends.
Fairness ==
  /\ WF_vars(ExpirePending) /\ WF_vars(Claim) /\ WF_vars(Execute)
  /\ WF_vars(Complete \/ Fail)

FairSpec == Spec /\ Fairness

\* The same without restarts for ever.
CalmSpec == FairSpec /\ <>[][~Crash]_vars

-----------------------------------------------------------------------------
TypeOK ==
  /\ created \in 0 .. MaxCommands
  /\ charger \in [Ids -> Chargers \cup {None}]
  /\ kind \in [Ids -> Kinds \cup {"none"}]
  /\ status \in [Ids -> {"NONE", "PENDING", "SENT", "DELETED"} \cup Terminal]
  /\ attempts \in [Ids -> 0 .. MaxAttempts]
  /\ result \in [Ids -> Answers \cup {"none", "error"}]
  /\ overdue \subseteq Ids
  /\ at \in {"idle", "claiming", "batch", "waiting"}
  /\ batch \in Seq(Ids)
  /\ online \subseteq Chargers
  /\ wire \subseteq Ids \X (1 .. MaxAttempts)
  /\ answer \in Answers \cup {"none", "error"}
  /\ said \in Answers \cup {"none"}
  /\ executions \in [Ids -> Nat]
  /\ stranded \subseteq Ids
  /\ late \in [Ids -> 0 .. MaxAttempts]

\* A charger is not made to do a thing more often than max_attempts, however
\* the answers, timeouts, lost links and restarts fall (hub/queue.py:119-125).
ExecutedAtMostMax == \A i \in Ids : executions[i] <= MaxAttempts

\* A command its charger may still get although it has expired gets there once at
\* most: the worker looks at expires_at when its tick begins only, and works up to
\* BatchLimit timeouts long through what it claimed (hub/queue.py:62-78).
SentLateAtMostOnce == \A i \in Ids : late[i] <= 1

\* What the worker works on is SENT and nobody else's: only the rows of its
\* batch, each once, and those it lost, are SENT (hub/queue.py:29-47).
SentIsClaimed ==
  \A i \in Ids :
    Cardinality({n \in DOMAIN batch : batch[n] = i}) =
      IF status[i] = "SENT" /\ i \notin stranded THEN 1 ELSE 0

\* With DONE the core gets what the charger answered to the last attempt, never a
\* late answer to an earlier one, to another command, or an error; if that is
\* Accepted, the charger has carried the command out (hub/queue.py:115-119).  DONE
\* alone does not say so: a command the charger refuses is DONE as well.
DoneAsAnswered ==
  [][\A i \in Ids : status[i] # "DONE" /\ status'[i] = "DONE" =>
       /\ said \in Answers /\ result'[i] = said
       /\ said = "Accepted" => executions[i] > 0]_vars

\* What the core was told of a command stays: a boot, an expiry and a late
\* answer do not touch a finished command (hub/models.py:131).
TerminalIsFinal ==
  [][\A i \in Ids : status[i] \in Terminal =>
       \/ status'[i] = "DELETED"
       \/ status'[i] = status[i] /\ result'[i] = result[i]]_vars

\* A command does not hang: past its expires_at it is soon finished, unless the
\* worker lost it (hub/queue.py:4-6).
OverdueSettles ==
  \A i \in Ids :
    (status[i] \in {"PENDING", "SENT"} /\ i \in overdue) ~>
      (status[i] \in Terminal \/ i \in stranded)

\* "expires_at: once it is past, EXPIRED" (hub/models.py:137), of every command.
AllOverdueSettle ==
  \A i \in Ids :
    (status[i] \in {"PENDING", "SENT"} /\ i \in overdue) ~> status[i] \in Terminal

\* "The earlier PENDING config commands are not duplicated" (hub/main.py:67-68):
\* of the boots' configuration commands, a charger has one PENDING per item.
OneConfigPending ==
  \A c \in Chargers :
    Cardinality({i \in Pending : kind[i] = "bootConfig" /\ charger[i] = c}) <= 1
=============================================================================
