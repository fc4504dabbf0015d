------------------------------- MODULE Frames -------------------------------
(***************************************************************************)
(* hub/ocpp/protocol.py: the frames of OCPP-J, as the lists of JSON values *)
(* they are.  Of a value only what parse asks about it is kept: a message  *)
(* type, a message id, or whether it is a string, an object or something   *)
(* else.  Frames that are no such list have one element, which says why.   *)
(***************************************************************************)
EXTENDS Naturals, Sequences

CONSTANTS
  NoId,      \* the id of the message cannot be told
  Surrogate  \* a string no UTF-8 stands for: JSON may escape one half of a pair

CALL == "2"
CALLRESULT == "3"
CALLERROR == "4"
UnknownType == "9"

ASSUME FramesAssumption == Surrogate \notin {CALL, CALLRESULT, CALLERROR, UnknownType, NoId}

call(id) == <<CALL, id, "string", "object">>
call_result(id) == <<CALLRESULT, id, "object">>
call_error(id) == <<CALLERROR, id, "string", "string", "object">>

\* No JSON at all, and JSON that is no list.
NotAList == {<<"noJSON">>, <<"noList">>}

\* What else a charger may send: too short, an unknown type, a CALL without a
\* payload, with an action that is no string, with a payload that is no object.
Odd(id) == {<<>>, <<CALL>>, <<CALLRESULT, id>>, <<UnknownType, id, "object">>, <<CALL, id, "string">>,
            <<CALL, id, "number", "object">>, <<CALL, id, "string", "number">>,
            <<CALLERROR, id, "string">>}

\* JSON json.loads gives up on: an integer of more digits than Python converts, and
\* lists in lists beyond the recursion limit.
HugeInteger == <<"hugeInteger">>
DeepNesting == <<"deepNesting">>

\* A frame that is no text.
Binary == <<"binary">>

\* What a charger may send that ends its session: json.loads gives up on it, it is no
\* text, or the reply to it would repeat what cannot be sent.
Breaking(id) == {HugeInteger, DeepNesting, Binary, call(Surrogate), <<CALL, Surrogate, "string">>,
                 <<Surrogate, id, "object">>}

\* What parse returns or raises: the id, and what a reply repeats of the frame.
Frame(type, id) == [type |-> type, id |-> id, repeats |-> {id}]
OcppProtocolError(id, repeats) ==
  [type |-> "OcppProtocolError", id |-> id, repeats |-> {id} \cup repeats]
Raises(exception) == [type |-> exception, id |-> NoId, repeats |-> {}]

TooShortMutant(frame) == Len(frame) < 2

TooShort(frame) == Len(frame) < 3

NotACallMutant(frame) == frame[3] # "string"

\* The payload is looked at only if it is there.
NotACall(frame) == Len(frame) < 4 \/ frame[3] # "string"

\* An index beyond the end raises what nobody expects of parse.
Reaches(frame, n) ==
  IF Len(frame) >= n THEN Frame(frame[1], frame[2]) ELSE Raises("IndexError")

\* parse: only a JSONDecodeError is turned into an OcppProtocolError.
parse(frame) ==
  CASE frame = HugeInteger -> Raises("ValueError")
    [] frame = DeepNesting -> Raises("RecursionError")
    [] frame \notin {HugeInteger, DeepNesting} /\ (frame \in NotAList \/ TooShort(frame)) ->
         OcppProtocolError(NoId, {})
    [] OTHER ->
         CASE frame[1] = CALL /\ NotACall(frame) -> OcppProtocolError(frame[2], {})
           [] frame[1] = CALL /\ ~NotACall(frame) -> Reaches(frame, 4)
           [] frame[1] \in {CALLRESULT, CALLERROR} -> Reaches(frame, 3)
           [] OTHER -> OcppProtocolError(frame[2], {frame[1]})

\* receive_text looks for a text and finds none, or parse gets it.
receive(frame) == IF frame = Binary THEN Raises("KeyError") ELSE parse(frame)

\* A reply is sent as UTF-8.
CanReply(frame) == Surrogate \notin receive(frame).repeats
=============================================================================
