------------------------ MODULE QueueingRDMController ------------------------
(***************************************************************************)
(* The RDM request serializer of OLA: QueueingRDMController and its only   *)
(* production subclass DiscoverableQueueingRDMController                   *)
(* (common/rdm/QueueingRDMController.cpp).  It sits between the callers    *)
(* that issue RDM requests and discovery runs and one underlying           *)
(* controller (a widget or an Art-Net port) that handles one thing at a    *)
(* time.                                                                   *)
(*                                                                         *)
(* Everything runs in one thread, so the interleavings are those of        *)
(* callbacks: an on_complete callback runs INSIDE HandleRDMResponse (or    *)
(* DiscoveryComplete), may call the controller again, and the underlying   *)
(* controller may answer such a nested call before it returns.  "stack"    *)
(* holds the rest of each handler that is suspended in a callback and      *)
(* "control" says whose code runs on top of it.                            *)
(*                                                                         *)
(* A request is the number of its acceptance (the k-th request pushed on   *)
(* m_pending_requests is k), a discovery callback the number of the call   *)
(* that registered it.  A response or a frame is the request it answers.   *)
(***************************************************************************)
EXTENDS Naturals, Sequences

CONSTANTS
  m_max_queue_size,   \* constructor argument: length at which requests drop
  ReplyKinds,         \* what the underlying controller may answer
  CanResume,          \* TRUE: the owner also calls Resume(), not just Pause()
  MaxRequests,        \* bound: requests accepted
  MaxDiscoveries,     \* bound: discovery runs asked for
  MaxParts,           \* bound: parts of one ACK_OVERFLOW sequence
  MaxCopies           \* bound: copies of one request that Resume() sends

ASSUME ConstantsAssumption ==
  /\ m_max_queue_size \in Nat
  /\ ReplyKinds \subseteq {"ack", "overflow", "fail"}
  /\ CanResume \in BOOLEAN
  /\ MaxRequests \in Nat
  /\ MaxDiscoveries \in Nat
  /\ MaxParts \in Nat
  /\ MaxCopies \in Nat

VARIABLES
  m_pending_requests,            \* queue; its front is the one being sent
  m_rdm_request_pending,
  m_active,
  m_response,                    \* parts combined so far, <<>> is NULL
  m_frames,                      \* frames of the parts
  m_discovery_callbacks,         \* callbacks the running discovery serves
  m_pending_discovery_callbacks, \* <<full, callback>> not yet started
  alive,                         \* FALSE once the destructor has run
  outstanding,                   \* per request, the copies handed to the
                                 \* underlying controller and not answered
  discovery,                     \* kind of the discovery being served
  iter,                          \* callbacks of m_discovery_callbacks that
                                 \* DiscoveryComplete has run, 0: not there yet
  stack,                         \* handlers suspended in a callback
  control,                       \* whose code is running
  accepted,                      \* history: requests pushed so far
  completed,                     \* history: what each callback was given
  asked,                         \* history: full flag of each discovery call
  discovered,                    \* history: discovery callbacks run
  overlapped                     \* history: an ACK_OVERFLOW sequence, or a
                                 \* Resume(), overlaps something else

requestVars == <<m_pending_requests, m_rdm_request_pending, outstanding>>
overflowVars == <<m_response, m_frames>>
discoveryVars == <<m_discovery_callbacks, m_pending_discovery_callbacks,
                   discovery, iter>>
historyVars == <<accepted, completed, asked, discovered>>
vars == <<requestVars, m_active, overflowVars, discoveryVars, alive, stack,
          control, historyVars, overlapped>>

Request == 1..MaxRequests
Callback == 1..MaxDiscoveries
Status == {"ok", "fail", "invalid", "failed_to_send"}
\* What is left to do when the callback a handler runs returns.
Frame == {"passed", "reset", "clear", "discovery"}
Completion == [req : Request, status : Status, response : Seq(Request),
               frames : Seq(Request)]

Init ==
  /\ m_pending_requests = <<>>
  /\ m_rdm_request_pending = FALSE
  /\ m_active = TRUE
  /\ m_response = <<>>
  /\ m_frames = <<>>
  /\ m_discovery_callbacks = <<>>
  /\ m_pending_discovery_callbacks = <<>>
  /\ alive = TRUE
  /\ outstanding = [r \in Request |-> 0]
  /\ discovery = "none"
  /\ iter = 0
  /\ stack = <<>>
  /\ control = "user"
  /\ accepted = 0
  /\ completed = <<>>
  /\ asked = <<>>
  /\ discovered = <<>>
  /\ overlapped = FALSE

-----------------------------------------------------------------------------
(* The internal methods.  Each takes the values its caller has already      *)
(* assigned: the queue, the stack and, for discovery, the callback lists.   *)

\* Control passes to the underlying controller.  At the bottom of the stack
\* every dispatch is the last thing the handler does, so an answer given
\* before the call returns is the same as one given right after it.
EnterController(what, stk) ==
  control' = IF stk = <<>> THEN "user" ELSE what

\* A copy of the front request goes to the underlying controller.
DispatchNextRequest(queue, sent, stk) ==
  /\ outstanding' = [sent EXCEPT ![Head(queue)] = @ + 1]
  /\ EnterController("request", stk)

MaybeSendRDMRequest(queue, stk) ==
  IF queue = <<>>
  THEN UNCHANGED <<m_rdm_request_pending, outstanding>> /\ control' = "user"
  ELSE m_rdm_request_pending' = TRUE /\ DispatchNextRequest(queue, outstanding, stk)

\* Mutant: the request in flight is forgotten.
CheckForBlockingConditionNoPending(running) == ~m_active \/ running # <<>>

CheckForBlockingCondition(running) ==
  ~m_active \/ m_rdm_request_pending \/ running # <<>>

\* Mutant: full only when every caller asked for it (full &= iter->first).
StartRDMDiscoveryAllFull(running, waiting, stk) ==
  /\ m_discovery_callbacks' = running \o [i \in DOMAIN waiting |-> waiting[i].cb]
  /\ m_pending_discovery_callbacks' = <<>>
  /\ discovery' = IF \A i \in DOMAIN waiting : waiting[i].full
                  THEN "full" ELSE "incremental"
  /\ iter' = 0
  /\ EnterController("discovery", stk)

\* All the pending discovery calls are served by one run, a full one if any
\* of them asked for it.
StartRDMDiscovery(running, waiting, stk) ==
  /\ m_discovery_callbacks' = running \o [i \in DOMAIN waiting |-> waiting[i].cb]
  /\ m_pending_discovery_callbacks' = <<>>
  /\ discovery' = IF \E i \in DOMAIN waiting : waiting[i].full
                  THEN "full" ELSE "incremental"
  /\ iter' = 0
  /\ EnterController("discovery", stk)

\* What TakeNextAction leaves of the discovery in progress when it starts no
\* other: running is empty once DiscoveryComplete has cleared the list.
KeepDiscovery(running, waiting) ==
  /\ m_discovery_callbacks' = running
  /\ m_pending_discovery_callbacks' = waiting
  /\ discovery' = IF running = <<>> THEN "none" ELSE discovery
  /\ iter' = IF running = <<>> THEN 0 ELSE iter

\* Nothing is started; the handler returns to its caller.
Blocked == control' = "user" /\ UNCHANGED <<m_rdm_request_pending, outstanding>>

\* DiscoverableQueueingRDMController's override: discovery goes first.
TakeNextAction(queue, running, waiting, stk) ==
  IF CheckForBlockingCondition(running)
  THEN KeepDiscovery(running, waiting) /\ Blocked
  ELSE IF waiting # <<>>
  THEN /\ StartRDMDiscovery(running, waiting, stk)
       /\ UNCHANGED <<m_rdm_request_pending, outstanding>>
  ELSE /\ KeepDiscovery(running, waiting)
       /\ MaybeSendRDMRequest(queue, stk)

-----------------------------------------------------------------------------
(* What the code does not exclude, recorded for the properties.  During an  *)
(* ACK_OVERFLOW sequence m_rdm_request_pending is false, m_response is      *)
(* shared by the handlers on the stack, and Resume() tests nothing.         *)

\* Nothing is in flight, no sequence is under way and no handler is suspended.
AtRest ==
  /\ \A r \in Request : outstanding[r] = 0
  /\ ~m_rdm_request_pending
  /\ m_discovery_callbacks = <<>>
  /\ m_response = <<>>
  /\ stack = <<>>

\* An overlap begins with its cause and is over when the controller has come
\* to rest.
Overlap(cause) == overlapped' = (cause \/ (overlapped /\ ~AtRest'))

\* The front request is in flight for its next part, without the flag.
BetweenParts == m_response # <<>> /\ stack = <<>>

\* A call starts the next action although a sequence is under way.
CallOverlaps ==
  Overlap(BetweenParts /\ ~CheckForBlockingCondition(m_discovery_callbacks))

\* Resume() sends although something is in flight.
ResumeOverlaps ==
  Overlap(/\ m_pending_requests # <<>>
          /\ m_rdm_request_pending \/ m_discovery_callbacks # <<>> \/ BetweenParts)

\* A reply to a call made by a callback begins a sequence that the suspended
\* handler will cut short, or finds the m_response the handler has not reset.
ReplyOverlaps(kind) ==
  Overlap(stack # <<>> /\ (kind = "overflow" \/ m_response # <<>>))

-----------------------------------------------------------------------------
(* The public interface, called from the event loop or from a callback.     *)

\* User code runs: the event loop, or the callback on top of the stack.
MayCall ==
  /\ alive
  /\ control = "user"

SendRDMRequest ==
  /\ MayCall
  /\ Len(m_pending_requests) < m_max_queue_size
  /\ accepted < MaxRequests
  /\ accepted' = accepted + 1
  /\ m_pending_requests' = Append(m_pending_requests, accepted + 1)
  /\ TakeNextAction(m_pending_requests', m_discovery_callbacks,
                    m_pending_discovery_callbacks, stack)
  /\ UNCHANGED <<m_active, overflowVars, alive, stack, completed,
                 asked, discovered>>
  /\ CallOverlaps

\* The queue is full: the callback runs at once with RDM_FAILED_TO_SEND.
DropRDMRequest ==
  /\ MayCall
  /\ Len(m_pending_requests) >= m_max_queue_size
  /\ UNCHANGED vars

Pause ==
  /\ MayCall
  /\ m_active
  /\ m_active' = FALSE
  /\ UNCHANGED <<requestVars, overflowVars, discoveryVars, alive, stack,
                 control, historyVars, overlapped>>

\* Resume() does not look at the blocking condition.
Resume ==
  /\ MayCall
  /\ CanResume
  /\ m_pending_requests # <<>> => outstanding[Head(m_pending_requests)] < MaxCopies
  /\ m_active' = TRUE
  /\ MaybeSendRDMRequest(m_pending_requests, stack)
  /\ UNCHANGED <<m_pending_requests, overflowVars, discoveryVars, alive,
                 stack, historyVars>>
  /\ ResumeOverlaps

\* RunFullDiscovery (full) and RunIncrementalDiscovery (not full).
GenericDiscovery(full) ==
  /\ MayCall
  /\ Len(asked) < MaxDiscoveries
  /\ asked' = Append(asked, full)
  /\ LET entry == [full |-> full, cb |-> Len(asked) + 1]
     IN  TakeNextAction(m_pending_requests, m_discovery_callbacks,
                        Append(m_pending_discovery_callbacks, entry), stack)
  /\ UNCHANGED <<m_pending_requests, m_active, overflowVars, alive, stack,
                 accepted, completed, discovered>>
  /\ CallOverlaps

\* ~QueueingRDMController: every queued request fails.  The owner destroys
\* the underlying controller first, which answers what it still holds (see
\* JaRulePortHandle::~JaRulePortHandle).
Destroy ==
  /\ MayCall
  /\ stack = <<>>
  /\ \A r \in Request : outstanding[r] = 0
  /\ discovery = "none"
  /\ alive' = FALSE
  /\ completed' = completed \o
       [i \in DOMAIN m_pending_requests |->
          [req |-> m_pending_requests[i], status |-> "failed_to_send",
           response |-> <<>>, frames |-> <<>>]]
  /\ m_pending_requests' = <<>>
  /\ UNCHANGED <<m_rdm_request_pending, outstanding, m_active, overflowVars,
                 discoveryVars, stack, control, accepted, asked,
                 discovered, overlapped>>

-----------------------------------------------------------------------------
(* The underlying controller answers.                                       *)

\* Mutant: the request stays at the front of the queue.
RunCallbackNoPop(frame, status, response, frames) ==
  /\ UNCHANGED m_pending_requests
  /\ completed' = Append(completed,
       [req |-> Head(m_pending_requests), status |-> status,
        response |-> response, frames |-> frames])
  /\ stack' = Append(stack, frame)
  /\ control' = "user"

\* RunCallback: pop the front request and run its callback, which suspends
\* the handler; frame is what the handler does afterwards.
RunCallback(frame, status, response, frames) ==
  /\ m_pending_requests' = Tail(m_pending_requests)
  /\ completed' = Append(completed,
       [req |-> Head(m_pending_requests), status |-> status,
        response |-> response, frames |-> frames])
  /\ stack' = Append(stack, frame)
  /\ control' = "user"

\* The reply is removed from what the underlying controller still owes.
Answered(r) == [outstanding EXCEPT ![r] = @ - 1]

\* HandleRDMResponse outside an ACK_OVERFLOW sequence.
PassReplyOn(r, kind) ==
  /\ RunCallback("passed", IF kind = "ack" THEN "ok" ELSE "fail",
                 IF kind = "ack" THEN <<r>> ELSE <<>>, <<r>>)
  /\ outstanding' = Answered(r)
  /\ UNCHANGED overflowVars

\* The first part of an ACK_OVERFLOW sequence: ask for the next part.
BeginOverflow(r) ==
  /\ m_response' = <<r>>
  /\ m_frames' = <<r>>
  /\ DispatchNextRequest(m_pending_requests, Answered(r), stack)
  /\ UNCHANGED <<m_pending_requests, stack, completed>>

\* We failed part way through the sequence.
FailOverflow(r) ==
  /\ m_frames' = Append(m_frames, r)
  /\ RunCallback("reset", "fail", <<>>, m_frames')
  /\ outstanding' = Answered(r)
  /\ UNCHANGED m_response

\* CombineResponses returned NULL: the parts do not belong together.
RejectPart(r) ==
  /\ m_response' = <<>>
  /\ m_frames' = Append(m_frames, r)
  /\ RunCallback("clear", "invalid", <<>>, m_frames')
  /\ outstanding' = Answered(r)

\* The last part: the callback gets the combined response.
FinishOverflow(r) ==
  /\ m_response' = <<>>
  /\ m_frames' = Append(m_frames, r)
  /\ RunCallback("reset", "ok", Append(m_response, r), m_frames')
  /\ outstanding' = Answered(r)

\* One more part: ask for the next.
ContinueOverflow(r) ==
  /\ m_response' = Append(m_response, r)
  /\ m_frames' = Append(m_frames, r)
  /\ DispatchNextRequest(m_pending_requests, Answered(r), stack)
  /\ UNCHANGED <<m_pending_requests, stack, completed>>

\* The underlying controller may answer r now: at the bottom of the stack
\* anything it owes, from within a nested call what it was just handed.
MayAnswer(r) ==
  /\ alive
  /\ outstanding[r] > 0
  /\ \/ control = "user" /\ stack = <<>>
     \/ control = "request" /\ r = Head(m_pending_requests)

HandleRDMResponse(r, kind) ==
  /\ MayAnswer(r)
  /\ kind = "overflow" => Len(m_response) < MaxParts
  /\ m_rdm_request_pending' = FALSE
  /\ IF m_pending_requests = <<>>
     THEN \* "Received a response but the queue was empty!"
          /\ outstanding' = Answered(r)
          /\ control' = "user"
          /\ UNCHANGED <<m_pending_requests, overflowVars, stack, completed>>
     ELSE IF m_response = <<>>
     THEN IF kind = "overflow" THEN BeginOverflow(r) ELSE PassReplyOn(r, kind)
     ELSE \/ kind = "fail" /\ FailOverflow(r)
          \/ kind # "fail" /\ RejectPart(r)
          \/ kind = "ack" /\ FinishOverflow(r)
          \/ kind = "overflow" /\ ContinueOverflow(r)
  /\ UNCHANGED <<m_active, discoveryVars, alive, accepted, asked,
                 discovered>>
  /\ ReplyOverlaps(kind)

\* Mutant: m_response.reset() is missing.
FinishHandleRDMResponseNoReset ==
  /\ alive /\ stack # <<>> /\ control = "user"
  /\ stack[Len(stack)] # "discovery"
  /\ m_frames' = <<>>
  /\ stack' = SubSeq(stack, 1, Len(stack) - 1)
  /\ TakeNextAction(m_pending_requests, m_discovery_callbacks,
                    m_pending_discovery_callbacks, stack')
  /\ UNCHANGED <<m_response, m_pending_requests, m_active, alive, historyVars>>
  /\ Overlap(FALSE)

\* Mutant: the trailing TakeNextAction() is missing.
FinishHandleRDMResponseNoNext ==
  /\ alive /\ stack # <<>> /\ control = "user"
  /\ stack[Len(stack)] # "discovery"
  /\ m_response' = <<>>
  /\ m_frames' = <<>>
  /\ stack' = SubSeq(stack, 1, Len(stack) - 1)
  /\ UNCHANGED <<requestVars, discoveryVars, control, m_active, alive, historyVars>>
  /\ Overlap(FALSE)

\* The callback of a request returns and HandleRDMResponse runs to its end.
FinishHandleRDMResponse ==
  /\ alive /\ stack # <<>> /\ control = "user"
  /\ LET frame == stack[Len(stack)]
     IN  /\ frame # "discovery"
         /\ m_response' = IF frame = "reset" THEN <<>> ELSE m_response
         /\ m_frames' = IF frame = "passed" THEN m_frames ELSE <<>>
  /\ stack' = SubSeq(stack, 1, Len(stack) - 1)
  /\ TakeNextAction(m_pending_requests, m_discovery_callbacks,
                    m_pending_discovery_callbacks, stack')
  /\ UNCHANGED <<m_pending_requests, m_active, alive, historyVars>>
  /\ Overlap(FALSE)

\* Run the next callback that the finished discovery serves.
RunDiscoveryCallback ==
  /\ iter' = iter + 1
  /\ discovered' = Append(discovered,
       [cb |-> m_discovery_callbacks[iter + 1], kind |-> discovery])

\* The underlying controller reports the end of a discovery run.
DiscoveryComplete ==
  /\ alive
  /\ discovery # "none" /\ iter = 0
  /\ control = "discovery" \/ (control = "user" /\ stack = <<>>)
  /\ RunDiscoveryCallback
  /\ stack' = Append(stack, "discovery")
  /\ control' = "user"
  /\ UNCHANGED <<requestVars, m_active, overflowVars, m_discovery_callbacks,
                 m_pending_discovery_callbacks, discovery, alive, accepted,
                 completed, asked, overlapped>>

\* A discovery callback returns: run the next, or finish the handler.
NextDiscoveryCallback ==
  /\ alive /\ stack # <<>> /\ control = "user"
  /\ stack[Len(stack)] = "discovery"
  /\ iter < Len(m_discovery_callbacks)
  /\ RunDiscoveryCallback
  /\ UNCHANGED <<requestVars, m_active, overflowVars, m_discovery_callbacks,
                 m_pending_discovery_callbacks, discovery, alive, stack,
                 control, accepted, completed, asked, overlapped>>

FinishDiscoveryComplete ==
  /\ alive /\ stack # <<>> /\ control = "user"
  /\ stack[Len(stack)] = "discovery"
  /\ iter = Len(m_discovery_callbacks)
  /\ stack' = SubSeq(stack, 1, Len(stack) - 1)
  /\ TakeNextAction(m_pending_requests, <<>>, m_pending_discovery_callbacks, stack')
  /\ UNCHANGED <<m_pending_requests, m_active, overflowVars, alive, historyVars>>
  /\ Overlap(FALSE)

\* A nested call of the underlying controller returns without an answer.
ControllerReturns ==
  /\ control # "user"
  /\ control' = "user"
  /\ UNCHANGED <<requestVars, m_active, overflowVars, discoveryVars, alive,
                 stack, historyVars, overlapped>>

-----------------------------------------------------------------------------
Reply == \E r \in Request, kind \in ReplyKinds : HandleRDMResponse(r, kind)
Discover == \E full \in BOOLEAN : GenericDiscovery(full)

Next ==
  \/ SendRDMRequest
  \/ DropRDMRequest
  \/ Pause
  \/ Resume
  \/ Discover
  \/ Destroy
  \/ Reply
  \/ FinishHandleRDMResponse
  \/ DiscoveryComplete
  \/ NextDiscoveryCallback
  \/ FinishDiscoveryComplete
  \/ ControllerReturns

Spec == Init /\ [][Next]_vars

\* The call on top of the stack returns.
Return ==
  \/ ControllerReturns
  \/ FinishHandleRDMResponse
  \/ NextDiscoveryCallback
  \/ FinishDiscoveryComplete

\* Callbacks return, and "Implementers much ensure that the callback is
\* always run at some point" (include/ola/rdm/RDMControllerInterface.h): the
\* underlying controller answers every request and ends every discovery.
Fairness ==
  /\ WF_vars(Reply)
  /\ WF_vars(DiscoveryComplete)
  /\ WF_vars(Return)

FairSpec == Spec /\ Fairness

-----------------------------------------------------------------------------
(* Properties.                                                              *)

\* Every variable holds a value of its C++ type.
TypeOK ==
  /\ m_pending_requests \in Seq(Request)
  /\ m_rdm_request_pending \in BOOLEAN
  /\ m_active \in BOOLEAN
  /\ m_response \in Seq(Request)
  /\ m_frames \in Seq(Request)
  /\ m_discovery_callbacks \in Seq(Callback)
  /\ m_pending_discovery_callbacks \in Seq([full : BOOLEAN, cb : Callback])
  /\ alive \in BOOLEAN
  /\ outstanding \in [Request -> Nat]
  /\ discovery \in {"none", "full", "incremental"}
  /\ iter \in Nat
  /\ stack \in Seq(Frame)
  /\ control \in {"user", "request", "discovery"}
  /\ accepted \in Nat
  /\ completed \in Seq(Completion)
  /\ asked \in Seq(BOOLEAN)
  /\ discovered \in Seq([cb : Callback, kind : {"full", "incremental"}])
  /\ overlapped \in BOOLEAN

\* SendRDMRequest, RunCallback and the destructor: whatever the nesting of
\* callbacks, and even when replies are duplicated, the callbacks of the
\* accepted requests run in the order of acceptance, each once, and what has
\* not been completed is still queued, within the limit on the queue.
FifoExactlyOnce ==
  /\ accepted = Len(completed) + Len(m_pending_requests)
  /\ \A i \in DOMAIN completed : completed[i].req = i
  /\ \A i \in DOMAIN m_pending_requests :
        m_pending_requests[i] = Len(completed) + i
  /\ Len(m_pending_requests) <= m_max_queue_size

\* The discovery that the underlying controller is running.
Discovering == discovery # "none" /\ iter = 0

\* "ensures that we only send one request at a time" (QueueingRDMController
\* .cpp:46), "only a single discovery or RDM request sequence occurs at once"
\* (QueueingRDMController.h): the underlying controller never holds two
\* requests, two copies of one, or a request while it runs discovery.  The
\* code does not keep this promise.
SingleInFlight ==
  /\ \A r \in Request : outstanding[r] <= 1
  /\ \A r, s \in Request : outstanding[r] > 0 /\ outstanding[s] > 0 => r = s
  /\ \A r \in Request : outstanding[r] > 0 => ~Discovering

\* What TakeNextAction, HandleRDMResponse and CheckForBlockingCondition do keep
\* of that promise: the underlying controller holds one thing at a time,
\* whatever callbacks call and however early the answers come, except from
\* - a call of SendRDMRequest or of discovery that comes between two parts of
\*   an ACK_OVERFLOW sequence, with the controller not paused,
\* - a reply to a call made by a callback that is itself an ACK_OVERFLOW, or
\*   that comes while the callback of a sequence that failed half way runs,
\* - or a Resume() with something in flight,
\* until the controller has come to rest.
SingleUnlessOverlapped == SingleInFlight \/ overlapped

\* A completion that is its request's own: the response and the frames are
\* those of the request, and a successful reply is made of all the parts that
\* arrived, in order.
Own(c) ==
  /\ \A k \in DOMAIN c.response : c.response[k] = c.req
  /\ \A k \in DOMAIN c.frames : c.frames[k] = c.req
  /\ c.status = "ok" => c.response = c.frames
  /\ c.status = "failed_to_send" => c.frames = <<>>

\* HandleRDMResponse and the destructor: outside the overlaps that
\* SingleUnlessOverlapped lists, and again once they are over, no step gives a
\* callback a response or a frame of another request, or part of a sequence.
OwnReply ==
  [][\A i \in DOMAIN completed' \ DOMAIN completed :
        Own(completed'[i]) \/ overlapped']_vars

\* GenericDiscovery, StartRDMDiscovery and DiscoveryComplete: each discovery
\* callback runs once, in the order of the calls, although callbacks that
\* run inside DiscoveryComplete's iteration may ask for discovery again; a
\* caller that asked for full discovery is served by a full one, also when
\* its call was merged with incremental ones.
DiscoveryExactlyOnce ==
  LET done == Len(discovered)
      left == Len(m_discovery_callbacks) - iter
  IN  /\ Len(asked) = done + left + Len(m_pending_discovery_callbacks)
      /\ \A i \in DOMAIN discovered :
           /\ discovered[i].cb = i
           /\ asked[i] => discovered[i].kind = "full"
      /\ \A i \in (iter + 1)..Len(m_discovery_callbacks) :
           /\ m_discovery_callbacks[i] = done + i - iter
           /\ asked[m_discovery_callbacks[i]] => discovery = "full"
      /\ \A i \in DOMAIN m_pending_discovery_callbacks :
           LET entry == m_pending_discovery_callbacks[i]
           IN  entry.cb = done + left + i /\ entry.full = asked[entry.cb]

\* "This will either run immediately or after the current request completes"
\* (QueueingRDMController.cpp:248): unless the owner pauses the controller, the
\* callback of every accepted request and of every discovery runs; every path
\* through HandleRDMResponse and DiscoveryComplete ends in the next action.
EverythingCompletes ==
  []m_active =>
    /\ \A r \in Request : accepted >= r ~> Len(completed) >= r
    /\ \A i \in Callback : Len(asked) >= i ~> Len(discovered) >= i
=============================================================================
