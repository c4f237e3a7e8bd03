--------------------------- MODULE UniverseBroadcast ---------------------------
(***************************************************************************)
(* A broadcast RDM request on a universe (Universe::SendRDMRequest,        *)
(* olad/plugin_api/Universe.cpp): a copy is sent to every output port, the *)
(* ports reply in any order, some within the call, and the replies are     *)
(* combined in a broadcast_request_tracker, which answers the client once. *)
(* Requests do not share a tracker, so the model follows one at a time.    *)
(***************************************************************************)
EXTENDS Naturals, Sequences, FiniteSets

CONSTANTS
  OutputPort,        \* the output ports there are
  MaxRequests        \* bound: requests

ASSUME BroadcastAssumption == IsFiniteSet(OutputPort) /\ MaxRequests \in Nat

\* The codes a port may reply with; FAILED stands for any other error.
DUBStatus == {"DUB_RESPONSE", "TIMEOUT", "NOT_SUPPORTED", "FAILED"}
AckStatus == {"WAS_BROADCAST", "NOT_SUPPORTED", "TIMEOUT", "FAILED"}
Status == DUBStatus \cup AckStatus
NoReply == "none"

VARIABLES
  requests,          \* requests sent
  is_dub,            \* IsDUB() of the request
  m_output_ports,    \* the universe's ports when it was sent
  todo,              \* those it has not been sent to yet
  expected_count, current_count, status_code,
  frames,            \* the ports whose frames the tracker has
  replies,           \* history: what each port replied
  answers            \* history: the statuses its callback was given

tracker == <<expected_count, current_count, status_code, frames>>
broadcastVars == <<requests, is_dub, m_output_ports, todo, tracker, replies, answers>>

BroadcastInit ==
  /\ requests = 0
  /\ is_dub = FALSE
  /\ m_output_ports = {}
  /\ todo = {}
  /\ expected_count = 0
  /\ current_count = 0
  /\ status_code = "WAS_BROADCAST"
  /\ frames = {}
  /\ replies = [p \in OutputPort |-> NoReply]
  /\ answers = <<"WAS_BROADCAST">>

Replied == {p \in OutputPort : replies[p] # NoReply}
Waiting == (m_output_ports \ todo) \ Replied

InitialStatus(dub) == IF dub THEN "NOT_SUPPORTED" ELSE "WAS_BROADCAST"

\* The previous request has been answered; without ports this one is at once.
SendRDMRequest(dub, ports) ==
  /\ answers # <<>>
  /\ requests < MaxRequests
  /\ requests' = requests + 1
  /\ is_dub' = dub
  /\ m_output_ports' = ports
  /\ todo' = ports
  /\ expected_count' = Cardinality(ports)
  /\ current_count' = 0
  /\ status_code' = InitialStatus(dub)
  /\ frames' = {}
  /\ replies' = [p \in OutputPort |-> NoReply]
  /\ answers' = IF ports # {} THEN <<>>
              ELSE IF dub THEN <<"TIMEOUT">> ELSE <<"WAS_BROADCAST">>

\* Mutant: the last reply counts.
CombineLast(status, reply) == reply

\* HandleBroadcastDiscovery: the status after a reply.
CombineDiscovery(status, reply) ==
  IF reply = "DUB_RESPONSE" THEN "DUB_RESPONSE"
  ELSE IF reply = "TIMEOUT" /\ status # "DUB_RESPONSE" THEN reply
  ELSE IF status # "DUB_RESPONSE" /\ status # "TIMEOUT" THEN reply
  ELSE status

\* HandleBroadcastAck: errors are propagated.
CombineAck(status, reply) == IF reply # "WAS_BROADCAST" THEN reply ELSE status

\* Mutant: the client is answered one port early.
AnsweredEarly(count) == count + 1 >= expected_count

\* Mutant: the client is answered one port late.
AnsweredLate(count) == count > expected_count

\* All ports have completed.
Answered(count) == count = expected_count

\* Port p replies.  HandleBroadcastDiscovery appends the frames of any reply:
\* some widgets attach frames to a timeout or an invalid response too.
HandleReply(p, reply) ==
  /\ reply \in (IF is_dub THEN DUBStatus ELSE AckStatus)
  /\ current_count' = current_count + 1
  /\ status_code' = IF is_dub THEN CombineDiscovery(status_code, reply)
                    ELSE CombineAck(status_code, reply)
  /\ \/ is_dub /\ frames' = frames \cup {p}
     \/ UNCHANGED frames
  /\ replies' = [replies EXCEPT ![p] = reply]
  /\ answers' = IF Answered(current_count') THEN Append(answers, status_code') ELSE answers
  /\ UNCHANGED <<requests, is_dub, m_output_ports, expected_count>>

\* The loop of SendRDMRequest: the port replies within the call, or later.
SendToPort(p) ==
  /\ p \in todo
  /\ todo' = todo \ {p}
  /\ UNCHANGED <<requests, is_dub, m_output_ports, tracker, replies, answers>>

SendToPortAnswered(p, reply) ==
  /\ p \in todo
  /\ todo' = todo \ {p}
  /\ HandleReply(p, reply)

Reply(p, reply) ==
  /\ todo = {}
  /\ p \in Waiting
  /\ HandleReply(p, reply)
  /\ UNCHANGED todo

BroadcastNext ==
  \/ \E dub \in BOOLEAN, ports \in SUBSET OutputPort : SendRDMRequest(dub, ports)
  \/ \E p \in OutputPort : SendToPort(p)
  \/ \E p \in OutputPort, reply \in Status : SendToPortAnswered(p, reply)
  \/ \E p \in OutputPort, reply \in Status : Reply(p, reply)

BroadcastSpec == BroadcastInit /\ [][BroadcastNext]_broadcastVars

\* SendRDMRequest runs its loop, and every port replies.
FairBroadcastSpec ==
  /\ BroadcastSpec
  /\ \A p \in OutputPort :
       WF_broadcastVars(SendToPort(p) \/ \E reply \in Status : SendToPortAnswered(p, reply))
  /\ \A p \in OutputPort : WF_broadcastVars(\E reply \in Status : Reply(p, reply))

-----------------------------------------------------------------------------
(* Properties.                                                              *)

\* Every variable has its type; the code is one of the kind of request sent.
BroadcastTypeOK ==
  /\ requests \in 0..MaxRequests
  /\ is_dub \in BOOLEAN
  /\ m_output_ports \subseteq OutputPort
  /\ todo \subseteq m_output_ports
  /\ expected_count \in Nat /\ current_count \in Nat
  /\ status_code \in (IF is_dub THEN DUBStatus ELSE AckStatus)
  /\ frames \subseteq OutputPort
  /\ replies \in [OutputPort -> Status \cup {NoReply}]
  /\ answers \in Seq(Status)

\* The codes, from the highest precedence to the lowest, as documented at
\* HandleBroadcastDiscovery: any DUB response overrides whatever was and will
\* be replied, then any timeout.
DiscoveryPrecedence ==
  is_dub =>
    /\ status_code = "DUB_RESPONSE" <=> \E p \in Replied : replies[p] = "DUB_RESPONSE"
    /\ status_code = "TIMEOUT" <=> /\ \E p \in Replied : replies[p] = "TIMEOUT"
                                   /\ \A p \in Replied : replies[p] # "DUB_RESPONSE"

\* A broadcast that one port failed is not reported as sent, whatever the
\* others reply after it ("propagate errors though").
ErrorsPropagate ==
  ~is_dub => (status_code = "WAS_BROADCAST"
                <=> \A p \in Replied : replies[p] = "WAS_BROADCAST")

\* The callback runs with the last port's reply and not before, also when the
\* first ports reply while the request has not been sent to the others, and
\* with the status that all of them combine to.
AnsweredOnce ==
  m_output_ports # {} =>
    answers = (IF Replied = m_output_ports THEN <<status_code>> ELSE <<>>)

\* Every request is answered.
AllAnswered == answers = <<>> ~> answers # <<>>
=============================================================================
