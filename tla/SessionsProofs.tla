--------------------------- MODULE SessionsProofs ---------------------------
(***************************************************************************)
(* Proofs about Sessions, for any number of chargers, sessions and Calls.  *)
(*                                                                         *)
(* The invariants are inductive together with WorkerInv, which says that a *)
(* Call in progress has a connection and an id, so that the step that      *)
(* closes a connection can be compared with the entry of the pending table *)
(* the Call left there.                                                    *)
(***************************************************************************)
EXTENDS Sessions, SequenceTheorems, TLAPS

LiveAt == {"opening", "leaked", "loop", "handling", "mute", "finally"}
DoneAt == {"marking", "over"}
Places == {"new", "inserting", "admitted", "refused", "opening", "leaked", "loop",
           "handling", "mute", "finally", "marking", "over"}

WorkerInv == current.at # "idle" => current.conn \in Sessions /\ current.id \in Calls

IInv ==
  /\ TypeOK
  /\ WorkerInv
  /\ LiveIsRegistered
  /\ NoCallIsStranded
  /\ FinishedIsForgotten

-----------------------------------------------------------------------------
\* On every frame but the Breaking ones, parse raises nothing but OcppProtocolError,
\* and the reply can be sent: a frame is an answer, a CALL or a violation of the format
\* (hub/ocpp/protocol.py).
LEMMA ParseIsTotal ==
  ASSUME NEW frame \in Calls \cup {"other"}, NEW raw \in Looks(frame)
  PROVE  /\ receive(raw).type \in {CALL, CALLRESULT, CALLERROR, "OcppProtocolError"}
         /\ CanReply(raw)
<1> DEFINE Good == /\ parse(raw).type \in {CALL, CALLRESULT, CALLERROR, "OcppProtocolError"}
                   /\ Surrogate \notin parse(raw).repeats
<1>1. PICK id \in Calls \cup {Strange} :
        raw \in {call_result(id), call_error(id), call(id)} \cup Odd(id) \cup NotAList
  <2>1. CASE frame \in Calls
    BY <2>1, SessionsAssumption DEF Looks
  <2>2. CASE frame = "other"
    <3>1. Looks(frame) = {call(Strange), call_result(Strange)} \cup Odd(Strange) \cup NotAList
      BY <2>2, SessionsAssumption DEF Looks
    <3> QED
      BY <3>1
  <2> QED
    BY <2>1, <2>2
<1>2. raw \notin {HugeInteger, DeepNesting, Binary}
  <2>1. CASE raw \in NotAList
    BY <2>1 DEF NotAList, HugeInteger, DeepNesting, Binary
  <2>2. CASE raw \in Odd(id)
    BY <2>2 DEF Odd, HugeInteger, DeepNesting, Binary, CALL, CALLRESULT, CALLERROR, UnknownType
  <2>3. CASE raw \in {call_result(id), call_error(id), call(id)}
    BY <2>3 DEF call, call_result, call_error, HugeInteger, DeepNesting, Binary
  <2> QED
    BY <1>1, <2>1, <2>2, <2>3
<1>3. ASSUME raw \in NotAList \/ Len(raw) < 3
      PROVE  Good
  <2>1. parse(raw) = OcppProtocolError(NoId, {})
    BY <1>2, <1>3 DEF parse, TooShort
  <2> QED
    BY <2>1, FramesAssumption DEF OcppProtocolError
<1>4. ASSUME raw \notin NotAList, Len(raw) >= 3
      PROVE  Good
  <2>1. Surrogate # raw[2] /\ Surrogate # raw[1]
    BY <1>1, <1>4, FramesAssumption, SessionsAssumption
       DEF Odd, call, call_result, call_error, CALL, CALLRESULT, CALLERROR
  <2>2. CASE raw[1] = CALL /\ NotACall(raw)
    BY <1>2, <1>4, <2>1, <2>2 DEF parse, TooShort, OcppProtocolError, CALL, CALLRESULT, CALLERROR
  <2>3. CASE raw[1] = CALL /\ ~NotACall(raw)
    BY <1>2, <1>4, <2>1, <2>3 DEF parse, TooShort, NotACall, Reaches, Frame
  <2>4. CASE raw[1] # CALL
    BY <1>2, <1>4, <2>1, <2>4 DEF parse, TooShort, Reaches, Frame, OcppProtocolError
  <2> QED
    BY <2>2, <2>3, <2>4
<1>5. raw \notin NotAList => Len(raw) \in Nat
  BY <1>1 DEF Odd, call, call_result, call_error
<1> QED
  BY <1>2, <1>3, <1>4, <1>5 DEF receive, CanReply

\* What the hub answers is no answer itself: after a frame that is none, the loop
\* is busy with its reply.
LEMMA OddIsHandled ==
  ASSUME NEW frame \in Calls \cup {"other"}, NEW raw \in Looks(frame), ~IsAnswer(raw)
  PROVE  AfterFrame(raw) = "handling"
  BY ParseIsTotal DEF IsAnswer, AfterFrame

-----------------------------------------------------------------------------
\* IInv holds initially.
LEMMA InitInv == Init => IInv
<1> SUFFICES ASSUME Init PROVE IInv
  OBVIOUS
<1>1. TypeOK
  <2>1. <<>> \in Seq(Calls \cup {"other", "breaking"})
    BY EmptySeq
  <2> QED
    BY <2>1 DEF Init, TypeOK, NoCall
<1> QED
  BY <1>1 DEF Init, IInv, NoCall, WorkerInv, LiveIsRegistered, Live, NoCallIsStranded,
              FinishedIsForgotten

\* What neither closes nor registers a connection: a session may move about
\* before it is opened, or from there to its end, but opens and ends by other steps.
LEMMA QuietInv ==
  ASSUME IInv, UNCHANGED <<registry, current, unused>>,
         row' \in [Chargers -> {"none", "open", "shut"}],
         socket' \in [Sessions -> {"open", "stalled", "gone"}],
         inbox' \in [Sessions -> Seq(Calls \cup {"other", "breaking"})],
         sent' \subseteq Calls,
         pc' \in [Sessions -> Places],
         \A s \in Sessions : /\ pc'[s] \in LiveAt => pc[s] \in LiveAt
                             /\ pc'[s] \in DoneAt => pc[s] \in DoneAt
  PROVE  IInv'
<1>1. TypeOK'
  BY DEF IInv, TypeOK, registry, Places
<1>2. LiveIsRegistered'
  BY DEF IInv, LiveIsRegistered, Live, LiveAt, registry
<1>3. FinishedIsForgotten'
  BY DEF IInv, FinishedIsForgotten, DoneAt, registry
<1> QED
  BY <1>1, <1>2, <1>3 DEF IInv, WorkerInv, NoCallIsStranded, registry

\* A session moves on without touching the registry or the worker.
LEMMA MoveInv ==
  ASSUME IInv, UNCHANGED <<registry, worker>>,
         NEW s \in Sessions, NEW from, NEW to \in Places, Goes(s, from, to),
         to \in LiveAt => from \in LiveAt,
         to \in DoneAt => from \in DoneAt,
         row' \in [Chargers -> {"none", "open", "shut"}],
         socket' \in [Sessions -> {"open", "stalled", "gone"}],
         inbox' \in [Sessions -> Seq(Calls \cup {"other", "breaking"})]
  PROVE  IInv'
<1>1. pc \in [Sessions -> Places]
  BY DEF IInv, TypeOK, Places
<1>2. pc' \in [Sessions -> Places]
  BY <1>1 DEF Goes
<1>3. \A o \in Sessions : /\ pc'[o] \in LiveAt => pc[o] \in LiveAt
                          /\ pc'[o] \in DoneAt => pc[o] \in DoneAt
  BY <1>1 DEF Goes
<1>4. sent' \subseteq Calls /\ UNCHANGED <<current, unused>>
  BY DEF IInv, TypeOK, worker
<1> QED
  BY <1>2, <1>3, <1>4, QuietInv

\* Connection.closed and fail_all_pending: the Call that waits on one of the closed
\* connections gets its error, any other still has its entry and its connection.
LEMMA CloseInv ==
  ASSUME IInv, NEW S \in SUBSET Sessions, Close(S)
  PROVE  /\ closed' \in [Sessions -> BOOLEAN]
         /\ pending' \in [Sessions -> SUBSET Calls]
         /\ current' \in [at : {"idle", "sending", "waiting"}, id : Calls \cup {None},
                          conn : Sessions \cup {None},
                          fut : {"pending", "answered", "refused", "failed"}]
         /\ WorkerInv'
         /\ NoCallIsStranded'
<1>1. closed' \in [Sessions -> BOOLEAN] /\ pending' \in [Sessions -> SUBSET Calls]
  BY DEF Close, IInv, TypeOK
<1>2. CASE current.at # "idle" /\ current.conn \in S /\ current.fut = "pending"
  <2>1. current' = [current EXCEPT !.fut = "failed"]
    BY <1>2 DEF Close, FailPending, IInv, NoCallIsStranded
  <2> QED
    BY <1>1, <1>2, <2>1 DEF IInv, TypeOK, WorkerInv, NoCallIsStranded
<1>3. CASE ~(current.at # "idle" /\ current.conn \in S /\ current.fut = "pending")
  <2>1. current' = current
    BY <1>3 DEF Close, FailPending
  <2>2. NoCallIsStranded'
    <3> SUFFICES ASSUME current.at # "idle", current.fut = "pending"
                 PROVE  ~closed'[current.conn] /\ current.id \in pending'[current.conn]
      BY <2>1 DEF NoCallIsStranded
    <3>1. current.conn \in Sessions \ S
      BY <1>3 DEF IInv, WorkerInv
    <3> QED
      BY <3>1 DEF Close, IInv, NoCallIsStranded
  <2> QED
    BY <1>1, <2>1, <2>2 DEF IInv, TypeOK, WorkerInv
<1> QED
  BY <1>1, <1>2, <1>3

-----------------------------------------------------------------------------
\* Registry.register: the connection that was live is the one it closes.
LEMMA RegisterInv ==
  ASSUME IInv, NEW s \in Sessions, Register(s)
  PROVE  IInv'
<1> DEFINE c == ChargerOf[s]
           S == Superseded(c)
<1>1. c \in Chargers /\ S \in SUBSET Sessions
  BY SessionsAssumption DEF Superseded, Get, IInv, TypeOK
<1>2. /\ pc[s] = "admitted" /\ pc' = [pc EXCEPT ![s] = "opening"]
      /\ Close(S)
      /\ byCp' = [byCp EXCEPT ![c] = s]
      /\ UNCHANGED <<row, socket, inbox, sent, unused>>
  BY DEF Register, Goes, link
<1>3. /\ closed' = [o \in Sessions |-> o \in S \/ closed[o]]
      /\ pending' = [o \in Sessions |-> IF o \in S THEN {} ELSE pending[o]]
  BY <1>2 DEF Close
<1>4. TypeOK'
  BY <1>1, <1>2, CloseInv DEF IInv, TypeOK
<1>5. LiveIsRegistered'
  <2> SUFFICES ASSUME NEW o \in Sessions, Live(o)'
               PROVE  byCp'[ChargerOf[o]] = o
    BY DEF LiveIsRegistered
  <2>1. ChargerOf[o] \in Chargers
    BY SessionsAssumption
  <2>2. CASE o = s
    BY <1>1, <1>2, <2>2 DEF IInv, TypeOK
  <2>3. CASE o # s
    <3>1. Live(o) /\ o \notin S
      BY <1>2, <1>3, <2>3 DEF Live, IInv, TypeOK
    <3>2. byCp[ChargerOf[o]] = o
      BY <3>1 DEF IInv, LiveIsRegistered
    <3>3. ChargerOf[o] # c
      BY <3>1, <3>2, SessionsAssumption DEF Superseded, Get, Live
    <3> QED
      BY <1>2, <2>1, <3>2, <3>3 DEF IInv, TypeOK
  <2> QED
    BY <2>2, <2>3
<1>6. FinishedIsForgotten'
  <2> SUFFICES ASSUME NEW o \in Sessions, pc'[o] \in DoneAt
               PROVE  byCp'[ChargerOf[o]] # o /\ closed'[o] /\ pending'[o] = {}
    BY DEF FinishedIsForgotten, DoneAt
  <2>1. o # s /\ pc[o] \in DoneAt
    BY <1>2 DEF DoneAt, IInv, TypeOK
  <2>2. byCp[ChargerOf[o]] # o /\ closed[o] /\ pending[o] = {}
    BY <2>1 DEF IInv, FinishedIsForgotten, DoneAt
  <2> QED
    BY <1>2, <1>3, <2>1, <2>2, SessionsAssumption DEF IInv, TypeOK
<1> QED
  BY <1>1, <1>2, <1>4, <1>5, <1>6, CloseInv DEF IInv

\* Registry.unregister: its own entry goes, that of a newer connection stays.
LEMMA UnregisterInv ==
  ASSUME IInv, NEW s \in Sessions, Unregister(s)
  PROVE  IInv'
<1> DEFINE c == ChargerOf[s]
<1>1. c \in Chargers /\ {s} \in SUBSET Sessions
  BY SessionsAssumption
<1>2. /\ pc[s] = "finally" /\ pc' = [pc EXCEPT ![s] = "marking"]
      /\ Close({s})
      /\ byCp' = [byCp EXCEPT ![c] = IF byCp[c] = s THEN None ELSE byCp[c]]
      /\ UNCHANGED <<row, socket, inbox, sent, unused>>
  BY DEF Unregister, AfterUnregister, Goes, link
<1>3. /\ closed' = [o \in Sessions |-> o \in {s} \/ closed[o]]
      /\ pending' = [o \in Sessions |-> IF o \in {s} THEN {} ELSE pending[o]]
  BY <1>2 DEF Close
<1>4. TypeOK'
  BY <1>1, <1>2, CloseInv DEF IInv, TypeOK
<1>5. LiveIsRegistered'
  <2> SUFFICES ASSUME NEW o \in Sessions, Live(o)'
               PROVE  byCp'[ChargerOf[o]] = o
    BY DEF LiveIsRegistered
  <2>1. o # s /\ Live(o)
    BY <1>2, <1>3 DEF Live, IInv, TypeOK
  <2>2. byCp[ChargerOf[o]] = o
    BY <2>1 DEF IInv, LiveIsRegistered
  <2> QED
    BY <1>2, <2>1, <2>2, SessionsAssumption DEF IInv, TypeOK
<1>6. FinishedIsForgotten'
  <2> SUFFICES ASSUME NEW o \in Sessions, pc'[o] \in DoneAt
               PROVE  byCp'[ChargerOf[o]] # o /\ closed'[o] /\ pending'[o] = {}
    BY DEF FinishedIsForgotten, DoneAt
  <2>1. CASE o = s
    BY <1>1, <1>2, <1>3, <2>1, SessionsAssumption DEF IInv, TypeOK
  <2>2. CASE o # s
    <3>1. byCp[ChargerOf[o]] # o /\ closed[o] /\ pending[o] = {}
      BY <1>2, <2>2 DEF IInv, TypeOK, FinishedIsForgotten, DoneAt
    <3> QED
      BY <1>2, <1>3, <2>2, <3>1, SessionsAssumption DEF IInv, TypeOK
  <2> QED
    BY <2>1, <2>2
<1> QED
  BY <1>1, <1>2, <1>4, <1>5, <1>6, CloseInv DEF IInv

\* Connection.resolve.
LEMMA TakeAnswerInv ==
  ASSUME IInv, NEW s \in Sessions, TakeAnswer(s)
  PROVE  IInv'
<1>1. inbox' \in [Sessions -> Seq(Calls \cup {"other", "breaking"})]
  BY DEF TakeAnswer, IInv, TypeOK
<1>2. current' = current \/ current' = [current EXCEPT !.fut = "answered"]
      \/ current' = [current EXCEPT !.fut = "refused"]
  BY DEF TakeAnswer
<1>3. UNCHANGED <<row, pc, socket, byCp, closed, pending, sent, unused>>
  BY DEF TakeAnswer, registry
<1>4. TypeOK' /\ WorkerInv' /\ NoCallIsStranded'
  BY <1>1, <1>2, <1>3 DEF IInv, TypeOK, WorkerInv, NoCallIsStranded
<1> QED
  BY <1>3, <1>4 DEF IInv, LiveIsRegistered, Live, FinishedIsForgotten

\* The command worker's Call, from its Future in the pending table to its return.
LEMMA WorkerKeeps ==
  ASSUME IInv, Worker
  PROVE  IInv'
<1>1. ASSUME NEW m \in Calls, NEW c \in Chargers, CallBegin(m, c)
      PROVE  IInv'
  <2> DEFINE s == Get(c)
  <2>1. s \in Sessions /\ ~closed[s]
    BY <1>1 DEF CallBegin, Get, IInv, TypeOK
  <2>2. /\ unused' = unused \ {m}
        /\ pending' = [pending EXCEPT ![s] = @ \cup {m}]
        /\ current' = [at |-> "sending", id |-> m, conn |-> s, fut |-> "pending"]
        /\ UNCHANGED <<row, pc, socket, inbox, byCp, closed, sent>>
    BY <1>1 DEF CallBegin, link
  <2> HIDE DEF s
  <2>3. TypeOK' /\ WorkerInv' /\ NoCallIsStranded'
    BY <2>1, <2>2 DEF IInv, TypeOK, WorkerInv, NoCallIsStranded
  <2>4. FinishedIsForgotten'
    BY <2>1, <2>2 DEF IInv, TypeOK, FinishedIsForgotten
  <2> QED
    BY <2>2, <2>3, <2>4 DEF IInv, LiveIsRegistered, Live
<1>2. CASE CallSent
  <2>1. /\ current' = [current EXCEPT !.at = "waiting"] /\ current.at = "sending"
        /\ UNCHANGED <<row, pc, socket, inbox, byCp, closed, pending, unused>>
    BY <1>2 DEF CallSent, link, registry
  <2>2. sent' \subseteq Calls
    BY <1>2, <2>1 DEF CallSent, IInv, WorkerInv, TypeOK
  <2>3. TypeOK' /\ WorkerInv' /\ NoCallIsStranded'
    BY <2>1, <2>2 DEF IInv, TypeOK, WorkerInv, NoCallIsStranded
  <2> QED
    BY <2>1, <2>3 DEF IInv, LiveIsRegistered, Live, FinishedIsForgotten
<1>3. CASE CallEnds
  <2>1. /\ pending' = [pending EXCEPT ![current.conn] = @ \ {current.id}]
        /\ current' = NoCall
        /\ UNCHANGED <<row, pc, socket, inbox, byCp, closed, sent, unused>>
    BY <1>3 DEF CallEnds, link
  <2>2. TypeOK' /\ WorkerInv' /\ NoCallIsStranded'
    BY <2>1 DEF IInv, TypeOK, WorkerInv, NoCallIsStranded, NoCall
  <2>3. FinishedIsForgotten'
    BY <2>1 DEF IInv, TypeOK, FinishedIsForgotten
  <2> QED
    BY <2>1, <2>2, <2>3 DEF IInv, LiveIsRegistered, Live
<1> QED
  BY <1>1, <1>2, <1>3 DEF Worker, CallSendFails, CallReturns, CallTimeout

\* The charger and the network.
LEMMA EnvironmentKeeps ==
  ASSUME IInv, Environment
  PROVE  IInv'
<1>1. UNCHANGED <<row, pc, registry, current, unused>>
  BY DEF Environment, ChargerSends, ChargerAnswers, Stall, Drop, worker
<1>2. socket' \in [Sessions -> {"open", "stalled", "gone"}]
  <2>1. \/ socket' = socket
        \/ \E s \in Sessions, to \in {"stalled", "gone"} : socket' = [socket EXCEPT ![s] = to]
    BY DEF Environment, ChargerSends, ChargerAnswers, Stall, Drop
  <2> QED
    BY <2>1 DEF IInv, TypeOK
<1>3. inbox' \in [Sessions -> Seq(Calls \cup {"other", "breaking"})]
  <2>1. ASSUME NEW s \in Sessions, NEW m \in Calls \cup {"other", "breaking"},
               inbox' = [inbox EXCEPT ![s] = Append(@, m)]
        PROVE  inbox' \in [Sessions -> Seq(Calls \cup {"other", "breaking"})]
    BY <2>1, AppendProperties DEF IInv, TypeOK
  <2> QED
    BY <2>1 DEF Environment, ChargerSends, ChargerAnswers, Stall, Drop, IInv, TypeOK
<1>4. sent' \subseteq Calls
  BY DEF Environment, ChargerSends, ChargerAnswers, Stall, Drop, worker, IInv, TypeOK
<1>5. pc' \in [Sessions -> Places] /\ row' \in [Chargers -> {"none", "open", "shut"}]
  BY <1>1 DEF IInv, TypeOK, Places
<1> QED
  BY <1>1, <1>2, <1>3, <1>4, <1>5, QuietInv

\* A session of a charger, from its handshake to its end.
LEMMA SessionKeeps ==
  ASSUME IInv, NEW s \in Sessions, Session(s)
  PROVE  IInv'
<1> USE DEF Places, LiveAt, DoneAt
<1>1. /\ row \in [Chargers -> {"none", "open", "shut"}]
      /\ socket \in [Sessions -> {"open", "stalled", "gone"}]
      /\ inbox \in [Sessions -> Seq(Calls \cup {"other", "breaking"})]
      /\ ChargerOf[s] \in Chargers
  BY SessionsAssumption DEF IInv, TypeOK
<1>2. CASE CheckAuth(s)
  <2>1. \E to \in {"admitted", "inserting", "refused"} : Goes(s, "new", to)
    BY <1>1, <1>2 DEF CheckAuth
  <2> QED
    BY <1>1, <1>2, <2>1, MoveInv DEF CheckAuth, link
<1>3. CASE AutoRegister(s)
  <2>1. \E to \in {"admitted", "refused"} : Goes(s, "inserting", to)
    BY <1>3 DEF AutoRegister, AfterLostInsert
  <2>2. row' \in [Chargers -> {"none", "open", "shut"}]
    BY <1>1, <1>3 DEF AutoRegister
  <2> QED
    BY <1>1, <1>3, <2>1, <2>2, MoveInv DEF AutoRegister, link
<1>4. CASE Open(s) \/ Reply(s) \/ ReplyFails(s) \/ LoopEnds(s)
  <2>1. /\ UNCHANGED <<row, socket, inbox, registry, worker>>
        /\ \E from \in {"opening", "loop", "handling", "mute"}, to \in {"loop", "finally"} :
             Goes(s, from, to)
    BY <1>4 DEF Open, Reply, ReplyFails, LoopEnds, AfterError, link
  <2> QED
    BY <1>1, <2>1, MoveInv
<1>5. CASE OpenFails(s)
  <2>1. Goes(s, "opening", "leaked") /\ socket' \in [Sessions -> {"open", "stalled", "gone"}]
    BY <1>1, <1>5 DEF OpenFails
  <2> QED
    BY <1>1, <1>5, <2>1, MoveInv DEF OpenFails
<1>6. CASE TakeCall(s)
  <2>1. \E to \in {"handling", "mute", "finally"} : Goes(s, "loop", to)
    BY <1>6 DEF TakeCall, AfterFrame, AfterError
  <2>2. inbox' \in [Sessions -> Seq(Calls \cup {"other", "breaking"})]
    BY <1>1, <1>6 DEF TakeCall
  <2> QED
    BY <1>1, <1>6, <2>1, <2>2, MoveInv DEF TakeCall
<1>7. CASE MarkDisconnect(s)
  <2>1. Goes(s, "marking", "over") /\ socket' \in [Sessions -> {"open", "stalled", "gone"}]
    BY <1>1, <1>7 DEF MarkDisconnect
  <2> QED
    BY <1>1, <1>7, <2>1, MoveInv DEF MarkDisconnect
<1> QED
  BY <1>2, <1>3, <1>4, <1>5, <1>6, <1>7, RegisterInv, UnregisterInv, TakeAnswerInv DEF Session

\* IInv is kept by every step.
LEMMA StepInv == IInv /\ [Next]_vars => IInv'
<1> SUFFICES ASSUME IInv, [Next]_vars
             PROVE  IInv'
  OBVIOUS
<1>1. ASSUME NEW c \in Chargers, UpdateCharger(c)
      PROVE  IInv'
  <2>1. /\ row' \in [Chargers -> {"none", "open", "shut"}]
        /\ UNCHANGED <<pc, socket, inbox, registry, sent, current, unused>>
    BY <1>1 DEF UpdateCharger, link, worker, IInv, TypeOK
  <2> QED
    BY <2>1, QuietInv DEF IInv, TypeOK, Places
<1>2. CASE UNCHANGED vars
  <2>1. UNCHANGED <<row, pc, socket, inbox, registry, sent, current, unused>>
    BY <1>2 DEF vars, link, worker
  <2> QED
    BY <2>1, QuietInv DEF IInv, TypeOK, Places
<1> QED
  BY <1>1, <1>2, SessionKeeps, WorkerKeeps, EnvironmentKeeps DEF Next

\* Registry, sessions and the worker's Call agree in every state.
THEOREM Invariance == Spec => []IInv
<1> QED
  BY InitInv, StepInv, PTL DEF Spec

\* Every variable keeps its type: in particular a Call in progress has one of the
\* four states of a Future, and the registry holds sessions of the hub.
THEOREM TypeCorrect == Spec => []TypeOK
<1>1. IInv => TypeOK
  BY DEF IInv
<1> QED
  BY <1>1, Invariance, PTL

\* However many connections a charger makes and however late the old ones clean
\* up, the one that is not closed is the one commands go to.
THEOREM NewestIsRegistered == Spec => []LiveIsRegistered
<1>1. IInv => LiveIsRegistered
  BY DEF IInv
<1> QED
  BY <1>1, Invariance, PTL

\* A Call that still waits can be answered and will be failed: its Future is in the
\* table of a connection that is not closed.
THEOREM CallsAreReachable == Spec => []NoCallIsStranded
<1>1. IInv => NoCallIsStranded
  BY DEF IInv
<1> QED
  BY <1>1, Invariance, PTL

\* A session that has cleaned up is not registered and holds no Future.
THEOREM DeadAreForgotten == Spec => []FinishedIsForgotten
<1>1. IInv => FinishedIsForgotten
  BY DEF IInv
<1> QED
  BY <1>1, Invariance, PTL

-----------------------------------------------------------------------------
\* Only the Breaking frames take a session out of its loop.
LEMMA FramesAreHandled ==
  ASSUME TypeOK, NEW s \in Sessions, TakeCall(s), Head(inbox[s]) # "breaking"
  PROVE  pc' = [pc EXCEPT ![s] = "handling"]
<1>1. PICK raw \in Looks(Head(inbox[s])) :
        ~IsAnswer(raw) /\ pc' = [pc EXCEPT ![s] = AfterFrame(raw)]
  BY DEF TakeCall, Goes
<1>2. Head(inbox[s]) \in Calls \cup {"other"}
  <2>1. inbox[s] \in Seq(Calls \cup {"other", "breaking"}) /\ inbox[s] # <<>>
    BY DEF TakeCall, TypeOK
  <2> QED
    BY <2>1, HeadTailProperties, ElementOfSeq
<1> QED
  BY <1>1, <1>2, OddIsHandled

\* An open session ends only when its link is gone, a newer connection of the charger
\* has closed it, or it has just read one of the frames of Breaking.
THEOREM SessionsEndByLoss == Spec => OnlyLossEndsSession
<1> DEFINE Ends(s) == pc[s] \in {"loop", "handling"} /\ pc'[s] \notin {"loop", "handling"}
           Cause(s) == \/ socket[s] = "gone" \/ closed[s]
                       \/ pc[s] = "loop" /\ inbox[s] # <<>> /\ Head(inbox[s]) = "breaking"
           Step == \A s \in Sessions : Ends(s) => Cause(s)
<1>1. TypeOK /\ [Next]_vars => Step
  <2> SUFFICES ASSUME TypeOK, [Next]_vars, NEW s \in Sessions, Ends(s)
               PROVE  Cause(s)
    OBVIOUS
  <2>1. PICK o \in Sessions : Session(o)
    BY DEF Next, UpdateCharger, Worker, CallBegin, CallSent, CallSendFails, CallReturns,
           CallTimeout, CallEnds, Environment, ChargerSends, ChargerAnswers, Stall, Drop, vars
  <2>2. CASE TakeCall(o)
    <3>1. pc[o] = "loop" /\ o = s
      BY <2>2 DEF TakeCall, Goes, TypeOK
    <3>2. inbox[s] # <<>> /\ Head(inbox[s]) = "breaking"
      BY <2>2, <3>1, FramesAreHandled DEF TakeCall, TypeOK
    <3> QED
      BY <3>1, <3>2
  <2>3. CASE ~TakeCall(o)
    <3>1. ReplyFails(o) \/ LoopEnds(o)
      BY <2>1, <2>3 DEF Session, CheckAuth, AutoRegister, Register, Open, OpenFails, Reply,
                        TakeAnswer, Unregister, MarkDisconnect, Goes, TypeOK
    <3>2. o = s
      BY <3>1 DEF ReplyFails, LoopEnds, Goes, TypeOK
    <3> QED
      BY <3>1, <3>2 DEF ReplyFails, LoopEnds, Goes
  <2> QED
    BY <2>2, <2>3
<1>2. TypeOK /\ [Next]_vars => [Step]_vars
  BY <1>1
<1> QED
  BY <1>2, TypeCorrect, PTL DEF Spec, OnlyLossEndsSession

\* Nobody is let in while the charger is shut out, not even the loser of the race
\* for the row of a charger that registers itself.
THEOREM ShutStaysShut == Spec => ShutStaysOut
<1> DEFINE Step == \A s \in Sessions :
                     row[ChargerOf[s]] = "shut" /\ pc'[s] = "admitted" => pc[s] = "admitted"
<1>1. TypeOK /\ [Next]_vars => Step
  <2> SUFFICES ASSUME TypeOK, [Next]_vars, NEW s \in Sessions,
                      row[ChargerOf[s]] = "shut", pc'[s] = "admitted", pc[s] # "admitted"
               PROVE  FALSE
    OBVIOUS
  <2>1. PICK o \in Sessions : Session(o)
    BY DEF Next, UpdateCharger, Worker, CallBegin, CallSent, CallSendFails, CallReturns,
           CallTimeout, CallEnds, Environment, ChargerSends, ChargerAnswers, Stall, Drop, vars
  <2>2. CheckAuth(o) \/ AutoRegister(o)
    BY <2>1 DEF Session, Register, Open, OpenFails, TakeCall, AfterFrame, Reply, ReplyFails,
                LoopEnds, TakeAnswer, Unregister, MarkDisconnect, Goes, AfterError, TypeOK
  <2>3. o = s
    BY <2>2 DEF CheckAuth, AutoRegister, Goes, TypeOK
  <2> QED
    BY <2>2, <2>3 DEF CheckAuth, AutoRegister, AfterLostInsert, Goes, TypeOK
<1>2. TypeOK /\ [Next]_vars => [Step]_vars
  BY <1>1
<1> QED
  BY <1>2, TypeCorrect, PTL DEF Spec, ShutStaysOut

-----------------------------------------------------------------------------
\* What the code keeps of NoLeak: whatever is registered is a connection of that
\* charger which nobody has closed, and whose session has not ended, but for one the
\* database failed (hub/main.py:149-160).
RegisteredIsLive == \A c \in Chargers : byCp[c] # None => ChargerOf[byCp[c]] = c /\ Live(byCp[c])

RegistryInv ==
  /\ RegisteredIsLive
  /\ \A s \in Sessions : closed[s] => pc[s] \in LiveAt \cup DoneAt

\* Steps that leave the registry alone and take no session out of its life.
LEMMA RegistryKeeps ==
  ASSUME TypeOK, RegistryInv, UNCHANGED <<byCp, closed>>,
         \A s \in Sessions : /\ pc[s] \in LiveAt => pc'[s] \in LiveAt
                             /\ pc[s] \in DoneAt => pc'[s] \in DoneAt
  PROVE  RegistryInv'
<1>1. \A c \in Chargers : byCp[c] # None => byCp[c] \in Sessions
  BY DEF TypeOK
<1> QED
  BY <1>1 DEF RegistryInv, RegisteredIsLive, Live, LiveAt

\* register puts a connection that was never closed in the place of the one it closes.
LEMMA RegisterExactly ==
  ASSUME TypeOK, RegistryInv, NEW s \in Sessions, Register(s)
  PROVE  RegistryInv'
<1> DEFINE c == ChargerOf[s]
           S == Superseded(c)
<1>1. /\ c \in Chargers /\ pc[s] = "admitted"
      /\ pc' = [pc EXCEPT ![s] = "opening"]
      /\ byCp' = [byCp EXCEPT ![c] = s]
      /\ closed' = [o \in Sessions |-> o \in S \/ closed[o]]
  BY SessionsAssumption DEF Register, Goes, Close
<1>2. ~closed[s]
  BY <1>1 DEF RegistryInv, LiveAt, DoneAt
<1>3. \A o \in S : o = byCp[c] /\ o \in Sessions /\ ChargerOf[o] = c /\ pc[o] \in LiveAt
  BY <1>1 DEF Superseded, Get, RegistryInv, RegisteredIsLive, Live, LiveAt, TypeOK
<1>4. s \notin S
  BY <1>1, <1>3 DEF LiveAt
<1> HIDE DEF S
<1>5. RegisteredIsLive'
  <2> SUFFICES ASSUME NEW d \in Chargers, byCp'[d] # None
               PROVE  /\ ChargerOf[byCp'[d]] = d
                      /\ pc'[byCp'[d]] \in LiveAt /\ ~closed'[byCp'[d]]
    BY DEF RegisteredIsLive, Live, LiveAt
  <2>1. CASE d = c
    BY <1>1, <1>2, <1>4, <2>1 DEF TypeOK, LiveAt
  <2>2. CASE d # c
    <3>1. /\ byCp'[d] = byCp[d] /\ byCp[d] \in Sessions
          /\ ChargerOf[byCp[d]] = d /\ Live(byCp[d])
      BY <1>1, <2>2 DEF TypeOK, RegistryInv, RegisteredIsLive
    <3>2. byCp[d] \notin S /\ byCp[d] # s
      BY <1>1, <1>3, <2>2, <3>1
    <3> QED
      BY <1>1, <3>1, <3>2 DEF TypeOK, Live, LiveAt
  <2> QED
    BY <2>1, <2>2
<1>6. \A o \in Sessions : closed'[o] => pc'[o] \in LiveAt \cup DoneAt
  BY <1>1, <1>3 DEF RegistryInv, LiveAt, DoneAt, TypeOK
<1> QED
  BY <1>5, <1>6 DEF RegistryInv

\* unregister closes one connection, which is registered nowhere afterwards.
LEMMA UnregisterExactly ==
  ASSUME TypeOK, RegistryInv, NEW s \in Sessions, Unregister(s)
  PROVE  RegistryInv'
<1> DEFINE c == ChargerOf[s]
<1>1. /\ c \in Chargers
      /\ pc' = [pc EXCEPT ![s] = "marking"]
      /\ byCp' = [byCp EXCEPT ![c] = IF byCp[c] = s THEN None ELSE byCp[c]]
      /\ closed' = [o \in Sessions |-> o \in {s} \/ closed[o]]
  BY SessionsAssumption DEF Unregister, AfterUnregister, Goes, Close
<1>2. RegisteredIsLive'
  <2> SUFFICES ASSUME NEW d \in Chargers, byCp'[d] # None
               PROVE  /\ ChargerOf[byCp'[d]] = d
                      /\ pc'[byCp'[d]] \in LiveAt /\ ~closed'[byCp'[d]]
    BY DEF RegisteredIsLive, Live, LiveAt
  <2>1. /\ byCp'[d] = byCp[d] /\ byCp[d] \in Sessions
        /\ ChargerOf[byCp[d]] = d /\ Live(byCp[d])
    BY <1>1 DEF TypeOK, RegistryInv, RegisteredIsLive
  <2>2. byCp[d] # s
    BY <1>1, <2>1 DEF TypeOK
  <2> QED
    BY <1>1, <2>1, <2>2 DEF TypeOK, Live, LiveAt
<1>3. \A o \in Sessions : closed'[o] => pc'[o] \in LiveAt \cup DoneAt
  BY <1>1 DEF RegistryInv, LiveAt, DoneAt, TypeOK
<1> QED
  BY <1>2, <1>3 DEF RegistryInv

\* RegistryInv is kept by every step.
LEMMA RegistryStep == TypeOK /\ RegistryInv /\ [Next]_vars => RegistryInv'
<1> SUFFICES ASSUME TypeOK, RegistryInv, [Next]_vars
             PROVE  RegistryInv'
  OBVIOUS
<1>1. ASSUME NEW s \in Sessions, NEW from, NEW to, Goes(s, from, to), UNCHANGED <<byCp, closed>>,
             from \in LiveAt => to \in LiveAt, from \in DoneAt => to \in DoneAt
      PROVE  RegistryInv'
  BY <1>1, RegistryKeeps DEF Goes, TypeOK
<1>2. ASSUME NEW s \in Sessions, Session(s)
      PROVE  RegistryInv'
  <2>1. CASE CheckAuth(s) \/ AutoRegister(s)
    <3>1. /\ UNCHANGED <<byCp, closed>>
          /\ \E from \in {"new", "inserting"}, to \in {"inserting", "admitted", "refused"} :
               Goes(s, from, to)
      BY <2>1, SessionsAssumption DEF CheckAuth, AutoRegister, AfterLostInsert, registry, TypeOK
    <3> QED
      BY <1>1, <3>1 DEF LiveAt, DoneAt
  <2>2. CASE Open(s) \/ OpenFails(s) \/ TakeCall(s) \/ Reply(s) \/ ReplyFails(s) \/ LoopEnds(s)
    <3>1. /\ UNCHANGED <<byCp, closed>>
          /\ \E from \in {"opening", "loop", "handling", "mute"},
                to \in {"loop", "leaked", "handling", "mute", "finally"} : Goes(s, from, to)
      BY <2>2 DEF Open, OpenFails, TakeCall, AfterFrame, Reply, ReplyFails, LoopEnds, AfterError,
                  registry
    <3> QED
      BY <1>1, <3>1 DEF LiveAt, DoneAt
  <2>3. CASE MarkDisconnect(s)
    BY <1>1, <2>3 DEF MarkDisconnect, registry, LiveAt, DoneAt
  <2>4. CASE TakeAnswer(s)
    BY <2>4, RegistryKeeps DEF TakeAnswer, registry
  <2> QED
    BY <1>2, <2>1, <2>2, <2>3, <2>4, RegisterExactly, UnregisterExactly DEF Session
<1>3. CASE Worker \/ Environment \/ (\E c \in Chargers : UpdateCharger(c)) \/ UNCHANGED vars
  <2>1. UNCHANGED <<pc, byCp, closed>>
    BY <1>3 DEF Worker, CallBegin, CallSent, CallSendFails, CallReturns, CallTimeout, CallEnds,
                Environment, ChargerSends, ChargerAnswers, Stall, Drop, UpdateCharger, vars,
                registry
  <2> QED
    BY <2>1, RegistryKeeps
<1> QED
  BY <1>2, <1>3 DEF Next

\* The registry holds what LiveIsRegistered says it must, and nothing else.
THEOREM RegistryIsExact == Spec => []RegisteredIsLive
<1>1. Init => RegistryInv
  BY DEF Init, RegistryInv, RegisteredIsLive
<1>2. RegistryInv => RegisteredIsLive
  BY DEF RegistryInv
<1> QED
  BY <1>1, <1>2, RegistryStep, TypeCorrect, PTL DEF Spec
=============================================================================
