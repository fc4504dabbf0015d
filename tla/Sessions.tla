------------------------------ MODULE Sessions ------------------------------
(***************************************************************************)
(* The WebSocket sessions of the chargers and the registry of live         *)
(* connections: hub/ocpp/registry.py and _ocpp_session of hub/main.py.     *)
(*                                                                         *)
(* One asyncio event loop runs every session and the command worker; a     *)
(* step is the code between two awaits.  The registry's lock is only held  *)
(* over code without an await, so it never makes anybody wait.  A charger  *)
(* whose link broke may connect again before the hub notices: the new      *)
(* session takes the registration over and closes the old one, whose own   *)
(* cleanup comes later.  The command worker sends one Call at a time and   *)
(* waits for the answer, which the session's loop hands to it.             *)
(*                                                                         *)
(* Before all that a session is authenticated: hub/auth.py, and the        *)
(* update_charger of hub/admin_api.py that runs beside it.                 *)
(*                                                                         *)
(* An operator XMutant is a plausible slip in the code X models; nothing   *)
(* uses it.                                                                *)
(***************************************************************************)
EXTENDS Frames

CONSTANTS
  Chargers,   \* cp_ids
  Sessions,   \* WebSocket connections a charger ever makes
  ChargerOf,  \* the cp_id each of them is for
  Calls,      \* message ids of the Calls the hub sends
  MaxInbox,   \* bound: messages of a charger the hub has not read yet
  Garbling,   \* bound: connections a charger sends a Breaking frame on
  Strange,    \* the message id of a frame no Call of the hub belongs to
  None        \* no session

ASSUME SessionsAssumption ==
  /\ ChargerOf \in [Sessions -> Chargers]
  /\ None \notin Sessions
  /\ Garbling \subseteq Sessions
  /\ None \notin Calls
  /\ {"other", "breaking"} \cap Calls = {}
  /\ Strange \notin Calls \cup {Surrogate}
  /\ Surrogate \notin Calls
  /\ MaxInbox \in Nat

VARIABLES
  row,      \* the row of chargers: "none", "open" to the charger's password or "shut"
  pc,       \* where each _ocpp_session is
  socket,   \* its link: "stalled" lets nothing through until it is "gone"
  inbox,    \* frames not read yet: the id of an answered Call, "other" or "breaking"
  byCp,     \* Registry._by_cp
  closed,   \* Connection.closed
  pending,  \* Connection.pending: ids whose Future waits for an answer
  current,  \* the Call the command worker is in, and the state of its Future
  sent,     \* Calls that reached a charger which has not answered yet
  unused    \* message ids not drawn yet: protocol.call makes a new one each time

link == <<socket, inbox>>
registry == <<byCp, closed, pending>>
worker == <<current, sent, unused>>
vars == <<row, pc, link, registry, worker>>

NoCall == [at |-> "idle", id |-> None, conn |-> None, fut |-> "pending"]

Init ==
  /\ row \in [Chargers -> {"none", "open"}]
  /\ pc = [s \in Sessions |-> "new"]
  /\ socket = [s \in Sessions |-> "open"]
  /\ inbox = [s \in Sessions |-> <<>>]
  /\ byCp = [c \in Chargers |-> None]
  /\ closed = [s \in Sessions |-> FALSE]
  /\ pending = [s \in Sessions |-> {}]
  /\ current = NoCall
  /\ sent = {}
  /\ unused = Calls

-----------------------------------------------------------------------------
\* Registry.get: a connection that is registered and not closed.
Get(c) == IF byCp[c] # None /\ ~closed[byCp[c]] THEN byCp[c] ELSE None

FailPendingMutant(S) == current

\* fut.cancel(): the command worker itself would be cancelled.
CancelPendingMutant(S) ==
  IF current.at # "idle" /\ current.conn \in S THEN [current EXCEPT !.fut = "cancelled"] ELSE current

\* fail_all_pending of the connections S: their Futures get a ConnectionError.
FailPending(S) ==
  IF current.at # "idle" /\ current.conn \in S /\ current.id \in pending[current.conn]
     /\ current.fut = "pending"
  THEN [current EXCEPT !.fut = "failed"] ELSE current

\* closed = True and fail_all_pending, together.
Close(S) ==
  /\ closed' = [s \in Sessions |-> s \in S \/ closed[s]]
  /\ pending' = [s \in Sessions |-> IF s \in S THEN {} ELSE pending[s]]
  /\ current' = FailPending(S)

SupersededMutant(c) == {}

\* The connection a new one of the same charger closes.
Superseded(c) == {Get(c)} \ {None}

AfterUnregisterMutant(s) == None

StaysRegisteredMutant(s) == byCp[ChargerOf[s]]

\* What unregister leaves registered: it only removes the connection's own entry.
AfterUnregister(s) ==
  IF byCp[ChargerOf[s]] = s THEN None ELSE byCp[ChargerOf[s]]

AfterErrorMutant == "over"

\* Where an exception in the loop leads: _ocpp_session's finally.
AfterError == "finally"

-----------------------------------------------------------------------------
Goes(s, from, to) == pc[s] = from /\ pc' = [pc EXCEPT ![s] = to]

\* check_charger_auth: the charger's password is compared with that of its row;
\* without a row, the provision password lets a charger register itself.
CheckAuth(s) ==
  /\ Goes(s, "new", CASE row[ChargerOf[s]] = "open" -> "admitted"
                      [] row[ChargerOf[s]] = "none" -> "inserting"
                      [] row[ChargerOf[s]] = "shut" -> "refused")
  /\ UNCHANGED <<row, link, registry, worker>>

AfterLostInsertMutant == "admitted"

\* The UNIQUE cp_id makes the INSERT fail: nobody catches it, the handshake ends.
AfterLostInsert == "refused"

\* The INSERT of check_charger_auth, which another session may have done meanwhile.
AutoRegister(s) ==
  /\ Goes(s, "inserting", IF row[ChargerOf[s]] = "none" THEN "admitted" ELSE AfterLostInsert)
  /\ row' = [row EXCEPT ![ChargerOf[s]] = IF @ = "none" THEN "open" ELSE @]
  /\ UNCHANGED <<link, registry, worker>>

\* update_charger: DISABLED or another password shuts a charger out, ACTIVE or the
\* charger's password lets it in again.  A session it has does not notice.
UpdateCharger(c) ==
  /\ row[c] # "none"
  /\ row' = [row EXCEPT ![c] = IF @ = "open" THEN "shut" ELSE "open"]
  /\ UNCHANGED <<pc, link, registry, worker>>

\* Registry.register, up to its await of the old socket's close handshake.
Register(s) ==
  /\ Goes(s, "admitted", "opening")
  /\ Close(Superseded(ChargerOf[s]))
  /\ byCp' = [byCp EXCEPT ![ChargerOf[s]] = s]
  /\ UNCHANGED <<row, link, sent, unused>>

\* last_connect_at is committed and the loop begins.
Open(s) ==
  /\ Goes(s, "opening", "loop")
  /\ UNCHANGED <<row, link, registry, worker>>

\* The database refuses last_connect_at: the exception leaves _ocpp_session
\* before its try, and the server closes the socket.
OpenFails(s) ==
  /\ Goes(s, "opening", "leaked")
  /\ socket' = [socket EXCEPT ![s] = "gone"]
  /\ UNCHANGED <<row, inbox, registry, worker>>

\* What a frame in the inbox may look like when the loop reads it.
Looks(frame) ==
  CASE frame \in Calls -> {call_result(frame), call_error(frame)}
    [] frame = "other" -> {call(Strange), call_result(Strange)} \cup Odd(Strange) \cup NotAList
    [] frame = "breaking" -> Breaking(Strange)

IsAnswer(raw) == receive(raw).type \in {CALLRESULT, CALLERROR}

\* A CALL is handed to a thread, an OcppProtocolError is answered by a CALLERROR:
\* the next frame waits until the reply is sent.  No other exception is caught; and
\* a reply may be one that cannot be sent.
AfterFrame(raw) ==
  CASE receive(raw).type \notin {CALL, "OcppProtocolError"} -> AfterError
    [] receive(raw).type \in {CALL, "OcppProtocolError"} ->
         IF CanReply(raw) THEN "handling" ELSE "mute"

TakeCall(s) ==
  /\ inbox[s] # <<>>
  /\ \E raw \in Looks(Head(inbox[s])) : ~IsAnswer(raw) /\ Goes(s, "loop", AfterFrame(raw))
  /\ inbox' = [inbox EXCEPT ![s] = Tail(@)]
  /\ UNCHANGED <<row, socket, registry, worker>>

\* The handler is done and its reply is sent.
Reply(s) ==
  /\ Goes(s, "handling", "loop")
  /\ socket[s] = "open"
  /\ ~closed[s]
  /\ UNCHANGED <<row, link, registry, worker>>

\* It cannot be sent: the link is gone, the hub closed the socket meanwhile, or it
\* cannot be encoded.
ReplyFails(s) ==
  /\ \/ Goes(s, "handling", AfterError) /\ (socket[s] = "gone" \/ closed[s])
     \/ Goes(s, "mute", AfterError)
  /\ UNCHANGED <<row, link, registry, worker>>

\* Connection.resolve: a CALLRESULT or CALLERROR completes the Future that waits
\* under its message id; a late or unknown one completes nothing.
TakeAnswer(s) ==
  /\ pc[s] = "loop"
  /\ inbox[s] # <<>>
  /\ inbox' = [inbox EXCEPT ![s] = Tail(@)]
  /\ \E raw \in Looks(Head(inbox[s])) :
       /\ IsAnswer(raw)
       /\ current' = IF receive(raw).id \in pending[s] /\ current.fut = "pending"
                     THEN [current EXCEPT !.fut = IF receive(raw).type = CALLRESULT
                                                  THEN "answered" ELSE "refused"]
                     ELSE current
  /\ UNCHANGED <<row, pc, socket, registry, sent, unused>>

\* receive_text raises WebSocketDisconnect; frames nobody read are lost with it.
LoopEnds(s) ==
  /\ Goes(s, "loop", "finally")
  /\ socket[s] = "gone"
  /\ UNCHANGED <<row, link, registry, worker>>

\* Registry.unregister.
Unregister(s) ==
  /\ Goes(s, "finally", "marking")
  /\ Close({s})
  /\ byCp' = [byCp EXCEPT ![ChargerOf[s]] = AfterUnregister(s)]
  /\ UNCHANGED <<row, link, sent, unused>>

\* _mark_disconnect (whose errors are swallowed) and the close of the socket.
MarkDisconnect(s) ==
  /\ Goes(s, "marking", "over")
  /\ socket' = [socket EXCEPT ![s] = "gone"]
  /\ UNCHANGED <<row, inbox, registry, worker>>

-----------------------------------------------------------------------------
\* Connection.send_call of the command worker: the Future is there before the send.
CallBegin(m, c) ==
  LET s == Get(c)
  IN /\ current.at = "idle"
     /\ s # None
     /\ m \in unused
     /\ unused' = unused \ {m}
     /\ pending' = [pending EXCEPT ![s] = @ \cup {m}]
     /\ current' = [at |-> "sending", id |-> m, conn |-> s, fut |-> "pending"]
     /\ UNCHANGED <<row, pc, link, byCp, closed, sent>>

CallSent ==
  /\ current.at = "sending"
  /\ socket[current.conn] = "open"
  /\ ~closed[current.conn]
  /\ sent' = sent \cup {current.id}
  /\ current' = [current EXCEPT !.at = "waiting"]
  /\ UNCHANGED <<row, pc, link, registry, unused>>

\* send_call returns or raises: the Future is popped in its finally.
CallEnds ==
  /\ pending' = [pending EXCEPT ![current.conn] = @ \ {current.id}]
  /\ current' = NoCall
  /\ UNCHANGED <<row, pc, link, byCp, closed, sent, unused>>

CallSendFails ==
  /\ current.at = "sending"
  /\ socket[current.conn] = "gone" \/ closed[current.conn]
  /\ CallEnds

CallReturns ==
  /\ current.at = "waiting"
  /\ current.fut # "pending"
  /\ CallEnds

WaitExpiresMutant == FALSE

\* wait_for gives up only on a Future nobody has completed.
WaitExpires == current.fut = "pending"

CallTimeout ==
  /\ current.at = "waiting"
  /\ WaitExpires
  /\ CallEnds

-----------------------------------------------------------------------------
\* The charger and the network, as the hub's code meets them.  A link that breaks
\* before it is accepted never was one.
Accepted(s) == pc[s] \in {"opening", "loop", "handling", "mute", "finally", "marking"}

ChargerSends(s, frame) ==
  /\ frame = "breaking" => s \in Garbling
  /\ Accepted(s)
  /\ socket[s] = "open"
  /\ Len(inbox[s]) < MaxInbox
  /\ inbox' = [inbox EXCEPT ![s] = Append(@, frame)]
  /\ UNCHANGED <<row, pc, socket, registry, worker>>

\* A charger answers on the connection the Call came by, or late, or never.
ChargerAnswers(s, m) ==
  /\ m \in sent
  /\ m \in pending[s] \/ \A o \in Sessions : m \notin pending[o]  \* in time, or late
  /\ Accepted(s)
  /\ socket[s] = "open"
  /\ Len(inbox[s]) < MaxInbox
  /\ inbox' = [inbox EXCEPT ![s] = Append(@, m)]
  /\ sent' = sent \ {m}
  /\ UNCHANGED <<row, pc, socket, registry, current, unused>>

Stall(s) ==
  /\ Accepted(s)
  /\ socket[s] = "open"
  /\ socket' = [socket EXCEPT ![s] = "stalled"]
  /\ UNCHANGED <<row, pc, inbox, registry, worker>>

\* The link breaks; the server's pings and its close handshake find out.
Drop(s) ==
  /\ Accepted(s)
  /\ socket[s] # "gone"
  /\ socket' = [socket EXCEPT ![s] = "gone"]
  /\ UNCHANGED <<row, pc, inbox, registry, worker>>

Session(s) ==
  \/ CheckAuth(s) \/ AutoRegister(s) \/ Register(s) \/ Open(s) \/ OpenFails(s)
  \/ TakeCall(s) \/ Reply(s) \/ ReplyFails(s) \/ TakeAnswer(s) \/ LoopEnds(s)
  \/ Unregister(s) \/ MarkDisconnect(s)

Worker ==
  \/ \E m \in Calls, c \in Chargers : CallBegin(m, c)
  \/ CallSent \/ CallSendFails \/ CallReturns \/ CallTimeout

Environment ==
  \/ \E s \in Sessions, frame \in {"other", "breaking"} : ChargerSends(s, frame)
  \/ \E s \in Sessions : Stall(s) \/ Drop(s)
  \/ \E s \in Sessions, m \in Calls : ChargerAnswers(s, m)

Next ==
  \/ \E s \in Sessions : Session(s)
  \/ \E c \in Chargers : UpdateCharger(c)
  \/ Worker \/ Environment

Spec == Init /\ [][Next]_vars

\* The event loop runs every task that can go on, handlers end (the database's
\* statement_timeout), and pings end a stalled or a closed link.
Fairness ==
  /\ \A s \in Sessions :
       /\ WF_vars(Open(s)) /\ WF_vars(Reply(s) \/ ReplyFails(s)) /\ WF_vars(LoopEnds(s))
       /\ WF_vars(Unregister(s))
       /\ WF_vars(Drop(s) /\ (socket[s] = "stalled" \/ closed[s]))
  /\ WF_vars(CallSent) /\ WF_vars(CallSendFails)
  /\ WF_vars(CallReturns) /\ WF_vars(CallTimeout)

FairSpec == Spec /\ Fairness

-----------------------------------------------------------------------------
TypeOK ==
  /\ row \in [Chargers -> {"none", "open", "shut"}]
  /\ pc \in [Sessions -> {"new", "inserting", "admitted", "refused", "opening", "leaked", "loop",
                          "handling", "mute", "finally", "marking", "over"}]
  /\ socket \in [Sessions -> {"open", "stalled", "gone"}]
  /\ inbox \in [Sessions -> Seq(Calls \cup {"other", "breaking"})]
  /\ byCp \in [Chargers -> Sessions \cup {None}]
  /\ closed \in [Sessions -> BOOLEAN]
  /\ pending \in [Sessions -> SUBSET Calls]
  /\ current \in [at : {"idle", "sending", "waiting"}, id : Calls \cup {None},
                  conn : Sessions \cup {None},
                  fut : {"pending", "answered", "refused", "failed"}]
  /\ sent \cup unused \subseteq Calls

Live(s) ==
  pc[s] \in {"opening", "leaked", "loop", "handling", "mute", "finally"} /\ ~closed[s]

\* The connection commands go to is the charger's newest: every connection that
\* is not closed is the registered one, so that there is at most one of a
\* charger, and no cleanup of an older one makes a connected charger look
\* offline (hub/ocpp/registry.py:4, 83-84).
LiveIsRegistered == \A s \in Sessions : Live(s) => byCp[ChargerOf[s]] = s

\* Nobody waits for an answer that cannot come: a Call still waiting is in the
\* pending table of a connection that is not closed, where resolve finds it and
\* fail_all_pending will (hub/ocpp/registry.py:45-58).
NoCallIsStranded ==
  (current.at # "idle" /\ current.fut = "pending") =>
    ~closed[current.conn] /\ current.id \in pending[current.conn]

\* The registry does not fill up with the dead: a session that ended its loop
\* and its cleanup is registered no more and holds no Future.
FinishedIsForgotten ==
  \A s \in Sessions : pc[s] \in {"marking", "over"} =>
    byCp[ChargerOf[s]] # s /\ closed[s] /\ pending[s] = {}

\* What a session that was opened ends by: its link is gone, a newer one of the charger
\* has taken over, or it has just read one of the Breaking frames.  No other frame,
\* however malformed, and no error in a handler (hub/main.py:82-83) does.  "The WS
\* connection is not broken off" by any bad frame (hub/ocpp/protocol.py:7-8) is more
\* than the code keeps.
OnlyLossEndsSession ==
  [][\A s \in Sessions :
       pc[s] \in {"loop", "handling"} /\ pc'[s] \notin {"loop", "handling"} =>
         \/ socket[s] = "gone" \/ closed[s]
         \/ pc[s] = "loop" /\ inbox[s] # <<>> /\ Head(inbox[s]) = "breaking"]_vars

\* Once an administrator has shut a charger out, no connection is let in that was
\* not before, neither by the old password nor by the provision password, although
\* another one of the charger may be registering it at that moment
\* (hub/admin_api.py:95-98, hub/auth.py:43-61).
ShutStaysOut ==
  [][\A s \in Sessions :
       row[ChargerOf[s]] = "shut" /\ pc'[s] = "admitted" => pc[s] = "admitted"]_vars

\* The command worker, which serves all chargers in turn, always gets its Call
\* back: by an answer, a closed connection, a failed send or the timeout.
CallComesBack == current.at # "idle" ~> current.at = "idle"

\* A charger whose link is gone does not stay online (hub/ocpp/registry.py:5-6).
GoneIsForgotten ==
  \A s \in Sessions :
    (pc[s] \in {"loop", "handling", "mute"} /\ socket[s] = "gone") ~> byCp[ChargerOf[s]] # s

\* "The registration is ALWAYS cleaned up in the finally, no leak"
\* (hub/ocpp/registry.py:5-6, hub/main.py:183): however a session ended, it is
\* not registered afterwards.
NoLeak ==
  \A s \in Sessions : pc[s] \in {"leaked", "over"} => byCp[ChargerOf[s]] # s
=============================================================================
