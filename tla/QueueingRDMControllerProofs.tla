--------------------- MODULE QueueingRDMControllerProofs ---------------------
(***************************************************************************)
(* Proofs about QueueingRDMController, for every queue limit and without   *)
(* any of the bounds that the model-checked instances put on the           *)
(* histories.                                                              *)
(***************************************************************************)
EXTENDS QueueingRDMController, SequenceTheorems, TLAPS

Entry == [full : BOOLEAN, cb : Callback]

\* A discovery is in progress exactly while there are callbacks it serves.
DiscoveryState == discovery = "none" <=> m_discovery_callbacks = <<>>

TypeInv == TypeOK /\ DiscoveryState

\* What TakeNextAction and the methods it calls assign.
ActionType ==
  /\ m_rdm_request_pending' \in BOOLEAN
  /\ outstanding' \in [Request -> Nat]
  /\ control' \in {"user", "request", "discovery"}
  /\ m_discovery_callbacks' \in Seq(Callback)
  /\ m_pending_discovery_callbacks' \in Seq(Entry)
  /\ discovery' \in {"none", "full", "incremental"}
  /\ iter' \in Nat
  /\ DiscoveryState'

\* The callbacks that StartRDMDiscovery copies form a sequence of callbacks.
LEMMA CallbacksOf ==
  ASSUME NEW waiting \in Seq(Entry)
  PROVE  /\ [i \in DOMAIN waiting |-> waiting[i].cb] \in Seq(Callback)
         /\ Len([i \in DOMAIN waiting |-> waiting[i].cb]) = Len(waiting)
<1>1. DOMAIN waiting = 1..Len(waiting) /\ Len(waiting) \in Nat
  OBVIOUS
<1>2. \A i \in DOMAIN waiting : waiting[i].cb \in Callback
  <2>1. \A i \in DOMAIN waiting : waiting[i] \in Entry
    BY <1>1
  <2> QED
    BY <2>1 DEF Entry
<1> QED
  BY <1>1, <1>2

\* Counting one more copy of a request, or one less, keeps the type.
LEMMA SendCount ==
  ASSUME NEW sent \in [Request -> Nat], NEW r \in Request
  PROVE  [sent EXCEPT ![r] = @ + 1] \in [Request -> Nat]
<1>1. sent[r] + 1 \in Nat
  OBVIOUS
<1> QED
  BY <1>1

LEMMA AnswerCount ==
  ASSUME TypeOK, NEW r \in Request, outstanding[r] > 0
  PROVE  Answered(r) \in [Request -> Nat]
<1>1. outstanding[r] - 1 \in Nat
  BY DEF TypeOK
<1> QED
  BY <1>1 DEF TypeOK, Answered

\* TakeNextAction assigns values of the right types, whoever calls it.
LEMMA TakeNextActionType ==
  ASSUME TypeInv,
         NEW queue \in Seq(Request), NEW running \in Seq(Callback),
         NEW waiting \in Seq(Entry), NEW stk \in Seq(Frame),
         running = <<>> \/ running = m_discovery_callbacks,
         TakeNextAction(queue, running, waiting, stk)
  PROVE  ActionType
<1> USE DEF ActionType, TypeInv, TypeOK, DiscoveryState
<1>1. CASE CheckForBlockingCondition(running)
  BY <1>1, SMTT(30) DEF TakeNextAction, KeepDiscovery, Blocked, Entry
<1>2. CASE ~CheckForBlockingCondition(running) /\ waiting # <<>>
  <2>1. StartRDMDiscovery(running, waiting, stk)
        /\ UNCHANGED <<m_rdm_request_pending, outstanding>>
    BY <1>2 DEF TakeNextAction
  <2> DEFINE cbs == [i \in DOMAIN waiting |-> waiting[i].cb]
  <2>2. cbs \in Seq(Callback) /\ Len(cbs) = Len(waiting)
    BY CallbacksOf
  <2>3. Len(waiting) # 0
    BY <1>2
  <2>4. m_discovery_callbacks' = running \o cbs
    BY <2>1 DEF StartRDMDiscovery
  <2> HIDE DEF cbs
  <2>5. m_discovery_callbacks' \in Seq(Callback) /\ m_discovery_callbacks' # <<>>
    BY <2>2, <2>3, <2>4
  <2>6. discovery' \in {"full", "incremental"}
    BY <2>1 DEF StartRDMDiscovery
  <2> QED
    BY <2>1, <2>5, <2>6 DEF StartRDMDiscovery, EnterController, Entry
<1>3. CASE ~CheckForBlockingCondition(running) /\ waiting = <<>>
  <2>1. KeepDiscovery(running, waiting) /\ MaybeSendRDMRequest(queue, stk)
    BY <1>3 DEF TakeNextAction
  <2>2. queue # <<>> => Head(queue) \in Request
    OBVIOUS
  <2>3. /\ m_rdm_request_pending' \in BOOLEAN
        /\ outstanding' \in [Request -> Nat]
        /\ control' \in {"user", "request", "discovery"}
    <3>1. CASE queue = <<>>
      BY <2>1, <3>1 DEF MaybeSendRDMRequest
    <3>2. CASE queue # <<>>
      <4>1. /\ m_rdm_request_pending' = TRUE
            /\ outstanding' = [outstanding EXCEPT ![Head(queue)] = @ + 1]
            /\ control' = IF stk = <<>> THEN "user" ELSE "request"
        BY <2>1, <3>2 DEF MaybeSendRDMRequest, DispatchNextRequest, EnterController
      <4>2. outstanding' \in [Request -> Nat]
        BY <2>2, <3>2, <4>1, SendCount
      <4>3. control' \in {"user", "request", "discovery"}
        BY <4>1
      <4> QED
        BY <4>1, <4>2, <4>3
    <3> QED
      BY <3>1, <3>2
  <2> QED
    BY <2>1, <2>3 DEF KeepDiscovery
<1> QED
  BY <1>1, <1>2, <1>3

\* The stack without its top is a stack.
LEMMA PopType ==
  ASSUME NEW stk \in Seq(Frame), stk # <<>>
  PROVE  SubSeq(stk, 1, Len(stk) - 1) \in Seq(Frame)
<1>1. Len(stk) - 1 \in Nat /\ Len(stk) - 1 <= Len(stk)
  OBVIOUS
<1> QED
  BY <1>1

\* Recording an overlap keeps the type.
LEMMA OverlapType ==
  ASSUME \/ CallOverlaps \/ ResumeOverlaps \/ Overlap(FALSE)
         \/ \E kind \in ReplyKinds : ReplyOverlaps(kind)
  PROVE  overlapped' \in BOOLEAN
BY DEF CallOverlaps, ResumeOverlaps, ReplyOverlaps, Overlap

\* Each operation of the public interface keeps the types.
LEMMA CallType ==
  ASSUME TypeInv,
         \/ SendRDMRequest \/ DropRDMRequest \/ Pause \/ Resume \/ Discover
         \/ Destroy
  PROVE  TypeInv'
<1> USE DEF TypeInv
<1>1. CASE SendRDMRequest
  <2>1. accepted + 1 \in Request
    BY <1>1, ConstantsAssumption DEF SendRDMRequest, TypeOK, Request
  <2>2. m_pending_requests' \in Seq(Request) /\ accepted' \in Nat
    BY <1>1, <2>1 DEF SendRDMRequest, TypeOK
  <2>3. ActionType
    BY <1>1, <2>2, TakeNextActionType DEF SendRDMRequest, TypeOK, Entry
  <2>4. overlapped' \in BOOLEAN
    BY <1>1, OverlapType DEF SendRDMRequest
  <2> QED
    BY <1>1, <2>2, <2>3, <2>4
    DEF SendRDMRequest, TypeOK, ActionType, Entry, overflowVars
<1>2. CASE DropRDMRequest
  BY <1>2 DEF DropRDMRequest, TypeOK, DiscoveryState, vars, requestVars,
              overflowVars, discoveryVars, historyVars
<1>3. CASE Pause
  BY <1>3 DEF Pause, TypeOK, DiscoveryState, requestVars, overflowVars,
              discoveryVars, historyVars
<1>4. CASE Resume
  <2>1. MaybeSendRDMRequest(m_pending_requests, stack)
    BY <1>4 DEF Resume
  <2>2. /\ m_rdm_request_pending' \in BOOLEAN
        /\ outstanding' \in [Request -> Nat]
        /\ control' \in {"user", "request", "discovery"}
    <3>1. CASE m_pending_requests = <<>>
      BY <2>1, <3>1 DEF MaybeSendRDMRequest, TypeOK
    <3>2. CASE m_pending_requests # <<>>
      <4>1. /\ m_rdm_request_pending' = TRUE
            /\ outstanding' = [outstanding EXCEPT ![Head(m_pending_requests)] = @ + 1]
            /\ control' = IF stack = <<>> THEN "user" ELSE "request"
        BY <2>1, <3>2 DEF MaybeSendRDMRequest, DispatchNextRequest, EnterController
      <4>2. Head(m_pending_requests) \in Request
        BY <3>2 DEF TypeOK
      <4>3. outstanding' \in [Request -> Nat]
        BY <4>1, <4>2, SendCount DEF TypeOK
      <4>4. control' \in {"user", "request", "discovery"}
        BY <4>1
      <4> QED
        BY <4>1, <4>3, <4>4
    <3> QED
      BY <3>1, <3>2
  <2>3. overlapped' \in BOOLEAN
    BY <1>4, OverlapType DEF Resume
  <2> QED
    BY <1>4, <2>2, <2>3 DEF Resume, TypeOK, DiscoveryState, overflowVars,
                      discoveryVars, historyVars
<1>5. CASE Discover
  <2>1. PICK full \in BOOLEAN : GenericDiscovery(full)
    BY <1>5 DEF Discover
  <2> DEFINE entry == [full |-> full, cb |-> Len(asked) + 1]
  <2>2. entry \in Entry
    BY <2>1, ConstantsAssumption
    DEF GenericDiscovery, TypeOK, Entry, Callback
  <2>3. TakeNextAction(m_pending_requests, m_discovery_callbacks,
                       Append(m_pending_discovery_callbacks, entry), stack)
    BY <2>1 DEF GenericDiscovery
  <2> HIDE DEF entry
  <2>4. Append(m_pending_discovery_callbacks, entry) \in Seq(Entry)
    BY <2>2 DEF TypeOK, Entry
  <2>5. ActionType
    BY <2>3, <2>4, TakeNextActionType DEF TypeOK
  <2>6. asked' \in Seq(BOOLEAN)
    BY <2>1 DEF GenericDiscovery, TypeOK
  <2>7. overlapped' \in BOOLEAN
    BY <2>1, OverlapType DEF GenericDiscovery
  <2> QED
    BY <2>1, <2>5, <2>6, <2>7
    DEF GenericDiscovery, TypeOK, ActionType, Entry, overflowVars
<1>6. CASE Destroy
  <2> DEFINE failed == [i \in DOMAIN m_pending_requests |->
          [req |-> m_pending_requests[i], status |-> "failed_to_send",
           response |-> <<>>, frames |-> <<>>]]
  <2>1. /\ Len(m_pending_requests) \in Nat
        /\ DOMAIN m_pending_requests = 1..Len(m_pending_requests)
        /\ \A i \in DOMAIN m_pending_requests : m_pending_requests[i] \in Request
    BY DEF TypeOK
  <2>2. <<>> \in Seq(Request)
    OBVIOUS
  <2>3. \A i \in DOMAIN m_pending_requests : failed[i] \in Completion
    BY <2>1, <2>2 DEF Completion, Status
  <2>4. failed \in Seq(Completion)
    BY <2>1, <2>3
  <2>5. completed' = completed \o failed
    BY <1>6 DEF Destroy
  <2> HIDE DEF failed
  <2>6. completed' \in Seq(Completion)
    BY <2>4, <2>5 DEF TypeOK
  <2> QED
    BY <1>6, <2>2, <2>6
    DEF Destroy, TypeOK, DiscoveryState, overflowVars, discoveryVars
<1> QED
  BY <1>1, <1>2, <1>3, <1>4, <1>5, <1>6

\* RunCallback keeps the types of what it assigns.
LEMMA RunCallbackType ==
  ASSUME TypeOK, m_pending_requests # <<>>,
         NEW frame \in Frame, NEW status \in Status,
         NEW response \in Seq(Request), NEW frames \in Seq(Request),
         RunCallback(frame, status, response, frames)
  PROVE  /\ m_pending_requests' \in Seq(Request)
         /\ completed' \in Seq(Completion)
         /\ stack' \in Seq(Frame)
         /\ control' = "user"
<1> DEFINE c == [req |-> Head(m_pending_requests), status |-> status,
                 response |-> response, frames |-> frames]
<1>1. Head(m_pending_requests) \in Request /\ Tail(m_pending_requests) \in Seq(Request)
  BY DEF TypeOK
<1>2. c \in Completion
  BY <1>1 DEF Completion
<1>3. completed' = Append(completed, c)
  BY DEF RunCallback
<1> HIDE DEF c
<1>4. completed' \in Seq(Completion)
  BY <1>2, <1>3 DEF TypeOK
<1> QED
  BY <1>1, <1>4 DEF TypeOK, RunCallback

\* Asking for the next part of an ACK_OVERFLOW sequence keeps the types.
LEMMA AskAgainType ==
  ASSUME TypeOK, m_pending_requests # <<>>, NEW r \in Request,
         outstanding[r] > 0,
         DispatchNextRequest(m_pending_requests, Answered(r), stack)
  PROVE  /\ outstanding' \in [Request -> Nat]
         /\ control' \in {"user", "request", "discovery"}
<1>1. Answered(r) \in [Request -> Nat]
  BY AnswerCount
<1>2. Head(m_pending_requests) \in Request
  BY DEF TypeOK
<1>3. outstanding' \in [Request -> Nat]
  BY <1>1, <1>2, SendCount DEF DispatchNextRequest
<1> QED
  BY <1>3 DEF DispatchNextRequest, EnterController

\* Every reply keeps the types.
LEMMA ReplyType ==
  ASSUME TypeInv, Reply
  PROVE  TypeInv'
<1> USE DEF TypeInv
<1>1. PICK r \in Request, kind \in ReplyKinds : HandleRDMResponse(r, kind)
  BY DEF Reply
<1>2. outstanding[r] > 0
  BY <1>1 DEF HandleRDMResponse, MayAnswer
<1>3. Answered(r) \in [Request -> Nat]
  BY <1>2, AnswerCount
<1>4. <<r>> \in Seq(Request) /\ <<>> \in Seq(Request)
  OBVIOUS
<1>5. Append(m_response, r) \in Seq(Request) /\ Append(m_frames, r) \in Seq(Request)
  BY DEF TypeOK
<1>9. overlapped' \in BOOLEAN
  BY <1>1, OverlapType DEF HandleRDMResponse
<1>6. SUFFICES /\ m_pending_requests' \in Seq(Request)
               /\ outstanding' \in [Request -> Nat]
               /\ m_response' \in Seq(Request)
               /\ m_frames' \in Seq(Request)
               /\ completed' \in Seq(Completion)
               /\ stack' \in Seq(Frame)
               /\ control' \in {"user", "request", "discovery"}
  BY <1>1, <1>6, <1>9 DEF HandleRDMResponse, TypeOK, DiscoveryState, discoveryVars
<1>7. CASE m_pending_requests = <<>>
  BY <1>1, <1>3, <1>7 DEF HandleRDMResponse, TypeOK, overflowVars
<1>8. CASE m_pending_requests # <<>>
  <2>1. CASE BeginOverflow(r)
    BY <1>2, <1>4, <1>8, <2>1, AskAgainType DEF BeginOverflow, TypeOK
  <2>2. CASE PassReplyOn(r, kind)
    <3>1. /\ (IF kind = "ack" THEN "ok" ELSE "fail") \in Status
          /\ (IF kind = "ack" THEN <<r>> ELSE <<>>) \in Seq(Request)
          /\ "passed" \in Frame
      BY DEF Status, Frame
    <3> QED
      BY <1>3, <1>4, <1>8, <2>2, <3>1, RunCallbackType
      DEF PassReplyOn, TypeOK, overflowVars
  <2>3. CASE FailOverflow(r)
    BY <1>3, <1>4, <1>5, <1>8, <2>3, RunCallbackType
    DEF FailOverflow, TypeOK, Status, Frame
  <2>4. CASE RejectPart(r)
    BY <1>3, <1>4, <1>5, <1>8, <2>4, RunCallbackType
    DEF RejectPart, TypeOK, Status, Frame
  <2>5. CASE FinishOverflow(r)
    BY <1>3, <1>4, <1>5, <1>8, <2>5, RunCallbackType
    DEF FinishOverflow, TypeOK, Status, Frame
  <2>6. CASE ContinueOverflow(r)
    BY <1>2, <1>5, <1>8, <2>6, AskAgainType DEF ContinueOverflow, TypeOK
  <2> QED
    BY <1>1, <1>8, <2>1, <2>2, <2>3, <2>4, <2>5, <2>6 DEF HandleRDMResponse
<1> QED
  BY <1>7, <1>8

\* So does every step that goes on when a callback, or the underlying
\* controller, returns.
LEMMA ReturnType ==
  ASSUME TypeInv,
         \/ FinishHandleRDMResponse \/ DiscoveryComplete
         \/ NextDiscoveryCallback \/ FinishDiscoveryComplete
         \/ ControllerReturns
  PROVE  TypeInv'
<1> USE DEF TypeInv
<1>1. CASE FinishHandleRDMResponse
  <2>1. stack' \in Seq(Frame)
    BY <1>1, PopType DEF FinishHandleRDMResponse, TypeOK
  <2>2. ActionType
    BY <1>1, <2>1, TakeNextActionType DEF FinishHandleRDMResponse, TypeOK, Entry
  <2>3. m_response' \in Seq(Request) /\ m_frames' \in Seq(Request)
    BY <1>1 DEF FinishHandleRDMResponse, TypeOK
  <2>4. overlapped' \in BOOLEAN
    BY <1>1, OverlapType DEF FinishHandleRDMResponse
  <2> QED
    BY <1>1, <2>1, <2>2, <2>3, <2>4
    DEF FinishHandleRDMResponse, TypeOK, ActionType, Entry, historyVars
<1> DEFINE run == [cb |-> m_discovery_callbacks[iter + 1], kind |-> discovery]
<1>2. ASSUME RunDiscoveryCallback, iter < Len(m_discovery_callbacks)
      PROVE  /\ iter' \in Nat
             /\ discovered' \in Seq([cb : Callback, kind : {"full", "incremental"}])
  <2>1. m_discovery_callbacks[iter + 1] \in Callback
    BY <1>2 DEF TypeOK
  <2>2. discovery \in {"full", "incremental"}
    BY <1>2 DEF TypeOK, DiscoveryState
  <2>3. run \in [cb : Callback, kind : {"full", "incremental"}]
    BY <2>1, <2>2
  <2>4. discovered' = Append(discovered, run) /\ iter' = iter + 1
    BY <1>2 DEF RunDiscoveryCallback
  <2> HIDE DEF run
  <2> QED
    BY <2>3, <2>4 DEF TypeOK
<1>3. CASE DiscoveryComplete
  <2>1. iter < Len(m_discovery_callbacks)
    BY <1>3 DEF DiscoveryComplete, TypeOK, DiscoveryState
  <2>2. stack' \in Seq(Frame)
    BY <1>3 DEF DiscoveryComplete, TypeOK, Frame
  <2> QED
    BY <1>2, <1>3, <2>1, <2>2
    DEF DiscoveryComplete, TypeOK, DiscoveryState, requestVars, overflowVars
<1>4. CASE NextDiscoveryCallback
  BY <1>2, <1>4 DEF NextDiscoveryCallback, TypeOK, DiscoveryState,
                    requestVars, overflowVars
<1>5. CASE FinishDiscoveryComplete
  <2>1. stack' \in Seq(Frame)
    BY <1>5, PopType DEF FinishDiscoveryComplete, TypeOK
  <2>2. <<>> \in Seq(Callback)
    OBVIOUS
  <2>3. ActionType
    BY <1>5, <2>1, <2>2, TakeNextActionType
    DEF FinishDiscoveryComplete, TypeOK, Entry
  <2>4. overlapped' \in BOOLEAN
    BY <1>5, OverlapType DEF FinishDiscoveryComplete
  <2> QED
    BY <1>5, <2>1, <2>3, <2>4
    DEF FinishDiscoveryComplete, TypeOK, ActionType, Entry, overflowVars, historyVars
<1>6. CASE ControllerReturns
  BY <1>6 DEF ControllerReturns, TypeOK, DiscoveryState, requestVars,
              overflowVars, discoveryVars, historyVars
<1> QED
  BY <1>1, <1>3, <1>4, <1>5, <1>6

\* The controller starts well typed, with no discovery in progress.
LEMMA InitType == Init => TypeInv
<1> SUFFICES ASSUME Init PROVE TypeInv
  OBVIOUS
<1>1. /\ <<>> \in Seq(Request) /\ <<>> \in Seq(Callback)
      /\ <<>> \in Seq([full : BOOLEAN, cb : Callback])
      /\ <<>> \in Seq(Frame) /\ <<>> \in Seq(Completion)
      /\ <<>> \in Seq(BOOLEAN)
      /\ <<>> \in Seq([cb : Callback, kind : {"full", "incremental"}])
  OBVIOUS
<1>2. outstanding \in [Request -> Nat]
  BY DEF Init
<1> QED
  BY <1>1, <1>2 DEF Init, TypeInv, TypeOK, DiscoveryState

\* A step that changes nothing keeps the types.
LEMMA StutterType ==
  ASSUME TypeInv, UNCHANGED vars
  PROVE  TypeInv'
BY DEF TypeInv, TypeOK, DiscoveryState, vars, requestVars, overflowVars,
       discoveryVars, historyVars

LEMMA TypeStep == TypeInv /\ [Next]_vars => TypeInv'
BY CallType, ReplyType, ReturnType, StutterType DEF Next

\* Type correctness of the queueing controller, with the fact about
\* m_discovery_callbacks that it needs.
THEOREM TypeCorrect == Spec => [](TypeOK /\ DiscoveryState)
<1> QED
  BY TypeStep, InitType, PTL DEF Spec, TypeInv

-----------------------------------------------------------------------------
(* Requests complete in order, each once.                                   *)

\* The steps that neither accept nor complete a request leave the queue and
\* the histories that FifoExactlyOnce is about alone.
LEMMA FifoFrame ==
  ASSUME FifoExactlyOnce,
         UNCHANGED <<accepted, completed, m_pending_requests>>
  PROVE  FifoExactlyOnce'
BY DEF FifoExactlyOnce

\* Accepting a request appends the next number to the queue.
LEMMA FifoSend ==
  ASSUME TypeOK, FifoExactlyOnce, SendRDMRequest
  PROVE  FifoExactlyOnce'
<1>1. /\ Len(m_pending_requests) < m_max_queue_size
      /\ accepted' = accepted + 1
      /\ m_pending_requests' = Append(m_pending_requests, accepted + 1)
      /\ completed' = completed
  BY DEF SendRDMRequest
<1>2. /\ Len(completed) \in Nat /\ Len(m_pending_requests) \in Nat
      /\ m_pending_requests \in Seq(Request) /\ accepted \in Nat
  BY DEF TypeOK
<1>3. accepted + 1 \in Request
  BY <1>2, ConstantsAssumption DEF SendRDMRequest, Request
<1>4. /\ Len(m_pending_requests') = Len(m_pending_requests) + 1
      /\ DOMAIN m_pending_requests' = 1..(Len(m_pending_requests) + 1)
  BY <1>1, <1>2, <1>3
<1>5. ASSUME NEW i \in DOMAIN m_pending_requests'
      PROVE  m_pending_requests'[i] = Len(completed') + i
  <2>1. CASE i = Len(m_pending_requests) + 1
    <3>1. m_pending_requests'[i] = accepted + 1
      BY <1>1, <1>2, <1>3, <2>1
    <3> QED
      BY <1>1, <1>2, <2>1, <3>1 DEF FifoExactlyOnce
  <2>2. CASE i \in DOMAIN m_pending_requests
    <3>1. m_pending_requests'[i] = m_pending_requests[i]
      BY <1>1, <1>2, <1>3, <2>2
    <3> QED
      BY <1>1, <2>2, <3>1 DEF FifoExactlyOnce
  <2> QED
    BY <1>2, <1>4, <2>1, <2>2
<1>6. /\ accepted' = Len(completed') + Len(m_pending_requests')
      /\ Len(m_pending_requests') <= m_max_queue_size
  BY <1>1, <1>2, <1>4, ConstantsAssumption DEF FifoExactlyOnce
<1> QED
  BY <1>1, <1>5, <1>6 DEF FifoExactlyOnce

\* RunCallback moves the front of the queue to the end of the history.
LEMMA FifoRunCallback ==
  ASSUME TypeOK, FifoExactlyOnce, m_pending_requests # <<>>,
         NEW frame, NEW status, NEW response, NEW frames,
         RunCallback(frame, status, response, frames),
         accepted' = accepted
  PROVE  FifoExactlyOnce'
<1> DEFINE c == [req |-> Head(m_pending_requests), status |-> status,
                 response |-> response, frames |-> frames]
<1>1. completed' = Append(completed, c) /\ m_pending_requests' = Tail(m_pending_requests)
  BY DEF RunCallback
<1>2. c.req = Len(completed) + 1
  BY DEF TypeOK, FifoExactlyOnce
<1> HIDE DEF c
<1>3. /\ Len(completed') = Len(completed) + 1
      /\ Len(m_pending_requests') = Len(m_pending_requests) - 1
  BY <1>1 DEF TypeOK
<1>4. ASSUME NEW i \in DOMAIN completed'
      PROVE  completed'[i].req = i
  <2>1. completed \in Seq(Completion) /\ Len(completed) \in Nat
    BY DEF TypeOK
  <2>2. /\ i \in 1..(Len(completed) + 1)
        /\ completed'[i] = IF i <= Len(completed) THEN completed[i] ELSE c
    BY <1>1, <2>1
  <2> QED
    BY <1>2, <2>1, <2>2 DEF FifoExactlyOnce
<1>5. /\ Len(completed) \in Nat /\ Len(m_pending_requests) \in Nat
      /\ m_pending_requests \in Seq(Request)
  BY DEF TypeOK
<1>6. ASSUME NEW i \in DOMAIN m_pending_requests'
      PROVE  m_pending_requests'[i] = Len(completed') + i
  <2>1. /\ i + 1 \in DOMAIN m_pending_requests
        /\ m_pending_requests'[i] = m_pending_requests[i + 1]
        /\ i \in Nat
    BY <1>1, <1>5
  <2>2. m_pending_requests[i + 1] = Len(completed) + (i + 1)
    BY <2>1 DEF FifoExactlyOnce
  <2> QED
    BY <1>3, <1>5, <2>1, <2>2
<1>7. /\ accepted' = Len(completed') + Len(m_pending_requests')
      /\ Len(m_pending_requests') <= m_max_queue_size
  BY <1>3, <1>5, ConstantsAssumption DEF FifoExactlyOnce
<1> QED
  BY <1>4, <1>6, <1>7 DEF FifoExactlyOnce

\* The destructor completes the whole queue, in order.
LEMMA FifoDestroy ==
  ASSUME TypeOK, FifoExactlyOnce, Destroy
  PROVE  FifoExactlyOnce'
<1> DEFINE n == Len(m_pending_requests)
           failed == [i \in DOMAIN m_pending_requests |->
             [req |-> m_pending_requests[i], status |-> "failed_to_send",
              response |-> <<>>, frames |-> <<>>]]
<1>1. /\ completed' = completed \o failed
      /\ m_pending_requests' = <<>>
      /\ accepted' = accepted
  BY DEF Destroy
<1>2. n \in Nat /\ DOMAIN m_pending_requests = 1..n
  BY DEF TypeOK
<1>3. \A i \in 1..n : failed[i].req = Len(completed) + i
  BY <1>2 DEF FifoExactlyOnce
<1>4. failed \in Seq(Completion) /\ Len(failed) = n
  <2>1. <<>> \in Seq(Request)
    OBVIOUS
  <2>2. \A i \in 1..n : m_pending_requests[i] \in Request
    BY DEF TypeOK
  <2>3. \A i \in 1..n : failed[i] \in Completion
    BY <1>2, <2>1, <2>2 DEF Completion, Status
  <2> QED
    BY <1>2, <2>3
<1> HIDE DEF failed
<1>5. /\ Len(completed') = Len(completed) + n
      /\ DOMAIN completed' = 1..Len(completed')
      /\ \A i \in DOMAIN completed' : completed'[i] =
           IF i <= Len(completed) THEN completed[i] ELSE failed[i - Len(completed)]
  <2>1. completed \in Seq(Completion)
    BY DEF TypeOK
  <2>2. /\ completed' \in Seq(Completion)
        /\ Len(completed') = Len(completed) + n
        /\ \A i \in 1..(Len(completed) + n) : completed'[i] =
             IF i <= Len(completed) THEN completed[i] ELSE failed[i - Len(completed)]
    <3>1. failed \in Seq(Completion)
      BY <1>4
    <3>2. /\ completed \o failed \in Seq(Completion)
          /\ Len(completed \o failed) = Len(completed) + Len(failed)
          /\ \A i \in 1..(Len(completed) + Len(failed)) :
               (completed \o failed)[i] = IF i <= Len(completed)
                 THEN completed[i] ELSE failed[i - Len(completed)]
      BY ONLY <2>1, <3>1, ConcatProperties
    <3> QED
      BY <1>1, <1>4, <3>2, Zenon
  <2>3. DOMAIN completed' = 1..Len(completed')
    BY <2>2
  <2> QED
    BY <2>2, <2>3
<1>6. ASSUME NEW i \in DOMAIN completed'
      PROVE  completed'[i].req = i
  <2>1. completed \in Seq(Completion) /\ Len(completed) \in Nat
    BY DEF TypeOK
  <2>2. CASE i <= Len(completed)
    BY <1>2, <1>5, <2>1, <2>2 DEF FifoExactlyOnce
  <2>3. CASE i > Len(completed)
    <3>1. i - Len(completed) \in 1..n
      BY <1>2, <1>5, <2>1, <2>3
    <3> QED
      BY <1>2, <1>3, <1>5, <2>1, <2>3, <3>1
  <2> QED
    BY <1>2, <1>5, <2>1, <2>2, <2>3
<1> QED
  BY <1>1, <1>2, <1>5, <1>6, ConstantsAssumption, SMTT(30) DEF TypeOK, FifoExactlyOnce

\* Every reply either leaves the queue alone or runs the front's callback.
LEMMA FifoReply ==
  ASSUME TypeOK, FifoExactlyOnce, Reply
  PROVE  FifoExactlyOnce'
<1>1. PICK r \in Request, kind \in ReplyKinds : HandleRDMResponse(r, kind)
  BY DEF Reply
<1>2. accepted' = accepted
  BY <1>1 DEF HandleRDMResponse
<1>3. CASE UNCHANGED <<m_pending_requests, completed>>
  BY <1>2, <1>3, FifoFrame
<1>4. CASE /\ m_pending_requests # <<>>
           /\ PassReplyOn(r, kind) \/ FailOverflow(r) \/ RejectPart(r)
              \/ FinishOverflow(r)
  <2>1. \E frame, status, response, frames :
          RunCallback(frame, status, response, frames)
    BY <1>4 DEF PassReplyOn, FailOverflow, RejectPart, FinishOverflow
  <2> QED
    BY <1>2, <1>4, <2>1, FifoRunCallback
<1> QED
  BY <1>1, <1>3, <1>4 DEF HandleRDMResponse, BeginOverflow, ContinueOverflow

\* Whatever calls, replies and callbacks are nested or duplicated, the
\* requests that QueueingRDMController accepts complete once, in order.
THEOREM FifoHolds == Spec => []FifoExactlyOnce
<1>1. Init => FifoExactlyOnce
  BY ConstantsAssumption DEF Init, FifoExactlyOnce
<1>2. TypeOK /\ FifoExactlyOnce /\ [Next]_vars => FifoExactlyOnce'
  <2> SUFFICES ASSUME TypeOK, FifoExactlyOnce, [Next]_vars
               PROVE  FifoExactlyOnce'
    OBVIOUS
  <2>1. CASE UNCHANGED <<accepted, completed, m_pending_requests>>
    BY <2>1, FifoFrame
  <2>2. \/ SendRDMRequest \/ Destroy \/ Reply
        \/ UNCHANGED <<accepted, completed, m_pending_requests>>
    BY DEF Next, DropRDMRequest, Pause, Resume, Discover, GenericDiscovery,
           FinishHandleRDMResponse, DiscoveryComplete, NextDiscoveryCallback,
           FinishDiscoveryComplete, ControllerReturns, requestVars,
           historyVars, vars
  <2> QED
    BY <2>1, <2>2, FifoSend, FifoDestroy, FifoReply
<1> QED
  BY <1>1, <1>2, TypeCorrect, PTL DEF Spec

-----------------------------------------------------------------------------
(* One thing in flight, except while an overlap lasts.                      *)

\* Only the front of the queue is in flight, once, and the flag says so.
Flagged(queue) ==
  /\ \A r \in Request : outstanding[r] > 0 =>
       m_rdm_request_pending /\ queue # <<>> /\ r = Head(queue) /\ outstanding[r] = 1
  /\ m_rdm_request_pending => queue # <<>> /\ outstanding[Head(queue)] = 1

\* Between the parts of a sequence the front is in flight without the flag.
NextPartInFlight ==
  /\ BetweenParts
  /\ m_pending_requests # <<>>
  /\ \A r \in Request :
       outstanding[r] = IF r = Head(m_pending_requests) THEN 1 ELSE 0
  /\ ~m_rdm_request_pending
  /\ m_discovery_callbacks = <<>>

FlightInv ==
  /\ NextPartInFlight \/ Flagged(m_pending_requests)
  /\ m_response # <<>> => NextPartInFlight \/ (stack # <<>> /\ stack[1] = "reset")
  /\ m_discovery_callbacks # <<>> => ~m_rdm_request_pending

\* TakeNextAction starts nothing when something is in flight and flagged.
LEMMA TakeNextActionFlight ==
  ASSUME TypeInv,
         NEW queue \in Seq(Request), NEW running \in Seq(Callback),
         NEW waiting \in Seq(Entry), NEW stk \in Seq(Frame),
         Flagged(queue), running # <<>> => ~m_rdm_request_pending,
         m_pending_requests' = queue,
         TakeNextAction(queue, running, waiting, stk)
  PROVE  /\ Flagged(m_pending_requests)'
         /\ m_discovery_callbacks' # <<>> => ~m_rdm_request_pending'
<1>1. CASE CheckForBlockingCondition(running)
  BY <1>1 DEF TakeNextAction, KeepDiscovery, Blocked, Flagged
<1>2. CASE ~CheckForBlockingCondition(running) /\ waiting # <<>>
  BY <1>2 DEF TakeNextAction, CheckForBlockingCondition, Flagged
<1>3. CASE ~CheckForBlockingCondition(running) /\ waiting = <<>>
  <2>1. KeepDiscovery(running, waiting) /\ MaybeSendRDMRequest(queue, stk)
    BY <1>3 DEF TakeNextAction
  <2>2. running = <<>> /\ ~m_rdm_request_pending
    BY <1>3 DEF CheckForBlockingCondition
  <2>3. \A r \in Request : outstanding[r] = 0
    BY <2>2 DEF Flagged, TypeInv, TypeOK
  <2>4. m_discovery_callbacks' = <<>>
    BY <2>1, <2>2 DEF KeepDiscovery
  <2>5. CASE queue = <<>>
    BY <2>1, <2>4, <2>5 DEF MaybeSendRDMRequest, Flagged
  <2>6. CASE queue # <<>>
    <3>1. /\ m_rdm_request_pending' = TRUE
          /\ outstanding' = [outstanding EXCEPT ![Head(queue)] = @ + 1]
      BY <2>1, <2>6 DEF MaybeSendRDMRequest, DispatchNextRequest
    <3>2. Head(queue) \in Request
      BY <2>6
    <3>3. /\ outstanding'[Head(queue)] = 1
          /\ \A r \in Request : r # Head(queue) => outstanding'[r] = 0
      BY <2>3, <3>1, <3>2 DEF TypeInv, TypeOK
    <3> QED
      BY <2>4, <2>6, <3>1, <3>2, <3>3 DEF Flagged
  <2> QED
    BY <2>5, <2>6
<1> QED
  BY <1>1, <1>2, <1>3

\* A call that does not come between two parts.
LEMMA CallFlight ==
  ASSUME FlightInv, ~BetweenParts
  PROVE  /\ Flagged(m_pending_requests)
         /\ m_response # <<>> => stack # <<>> /\ stack[1] = "reset"
BY DEF FlightInv, NextPartInFlight, BetweenParts

\* A call between two parts that overlaps nothing, because the controller is
\* paused, leaves the part in flight alone.
LEMMA PausedFlight ==
  ASSUME TypeInv, FlightInv, BetweenParts, CallOverlaps, ~overlapped',
         NEW queue \in Seq(Request), NEW waiting,
         m_pending_requests # <<>> =>
           queue # <<>> /\ Head(queue) = Head(m_pending_requests),
         m_pending_requests' = queue, UNCHANGED <<m_response, stack>>,
         TakeNextAction(queue, m_discovery_callbacks, waiting, stack)
  PROVE  FlightInv'
<1>1. NextPartInFlight
  BY DEF FlightInv, BetweenParts
<1>2. CheckForBlockingCondition(m_discovery_callbacks)
  BY DEF CallOverlaps, Overlap
<1>3. UNCHANGED <<m_rdm_request_pending, outstanding, m_discovery_callbacks>>
  BY <1>2 DEF TakeNextAction, KeepDiscovery, Blocked
<1> QED
  BY <1>1, <1>3 DEF FlightInv, NextPartInFlight, BetweenParts

LEMMA SendFlight ==
  ASSUME TypeInv, FlightInv, SendRDMRequest, ~overlapped'
  PROVE  FlightInv'
<1>2. accepted + 1 \in Request /\ m_pending_requests \in Seq(Request)
  BY ConstantsAssumption DEF SendRDMRequest, TypeInv, TypeOK, Request
<1>3. /\ m_pending_requests' = Append(m_pending_requests, accepted + 1)
      /\ TakeNextAction(m_pending_requests', m_discovery_callbacks,
                        m_pending_discovery_callbacks, stack)
      /\ UNCHANGED <<m_response, stack>>
  BY DEF SendRDMRequest, overflowVars
<1>4. /\ m_pending_requests' \in Seq(Request) /\ m_pending_requests' # <<>>
      /\ m_pending_requests # <<>> =>
           Head(m_pending_requests') = Head(m_pending_requests)
  BY <1>2, <1>3
<1> DEFINE queue == m_pending_requests'
<1>7. CASE BetweenParts
  <2>1. queue \in Seq(Request) /\ m_pending_requests' = queue
    BY <1>4
  <2>2. CallOverlaps
    BY DEF SendRDMRequest
  <2> HIDE DEF queue
  <2> QED
    BY <1>3, <1>4, <1>7, <2>1, <2>2, PausedFlight DEF queue
<1> SUFFICES ASSUME ~BetweenParts PROVE FlightInv'
  BY <1>7
<1>1. /\ Flagged(m_pending_requests)
      /\ m_response # <<>> => stack # <<>> /\ stack[1] = "reset"
  BY CallFlight
<1>5. Flagged(queue)
  BY <1>1, <1>4 DEF Flagged
<1> HIDE DEF queue
<1>6. /\ Flagged(m_pending_requests)'
      /\ m_discovery_callbacks' # <<>> => ~m_rdm_request_pending'
  <2>1. queue \in Seq(Request) /\ m_pending_requests' = queue
    BY <1>4 DEF queue
  <2>2. m_discovery_callbacks # <<>> => ~m_rdm_request_pending
    BY DEF FlightInv
  <2>3. /\ m_discovery_callbacks \in Seq(Callback) /\ stack \in Seq(Frame)
        /\ m_pending_discovery_callbacks \in Seq(Entry)
    BY DEF TypeInv, TypeOK, Entry
  <2>4. TakeNextAction(queue, m_discovery_callbacks,
                       m_pending_discovery_callbacks, stack)
    BY <1>3 DEF queue
  <2> QED
    BY <1>5, <2>1, <2>2, <2>3, <2>4, TakeNextActionFlight
<1> QED
  BY <1>1, <1>3, <1>6 DEF FlightInv

LEMMA DiscoverFlight ==
  ASSUME TypeInv, FlightInv, Discover, ~overlapped'
  PROVE  FlightInv'
<1>1. PICK full \in BOOLEAN : GenericDiscovery(full)
  BY DEF Discover
<1> DEFINE entry == [full |-> full, cb |-> Len(asked) + 1]
<1>3. entry \in Entry
  BY <1>1, ConstantsAssumption DEF GenericDiscovery, TypeInv, TypeOK, Entry, Callback
<1>4. /\ TakeNextAction(m_pending_requests, m_discovery_callbacks,
                        Append(m_pending_discovery_callbacks, entry), stack)
      /\ UNCHANGED <<m_pending_requests, m_response, stack>>
  BY <1>1 DEF GenericDiscovery, overflowVars
<1> HIDE DEF entry
<1>9. CASE BetweenParts
  <2>1. CallOverlaps /\ m_pending_requests \in Seq(Request)
    BY <1>1 DEF GenericDiscovery, TypeInv, TypeOK
  <2> QED
    BY <1>4, <1>9, <2>1, PausedFlight
<1> SUFFICES ASSUME ~BetweenParts PROVE FlightInv'
  BY <1>9
<1>2. /\ Flagged(m_pending_requests)
      /\ m_response # <<>> => stack # <<>> /\ stack[1] = "reset"
  BY CallFlight
<1>5. Append(m_pending_discovery_callbacks, entry) \in Seq(Entry)
  BY <1>3 DEF TypeInv, TypeOK, Entry
<1>6. m_discovery_callbacks # <<>> => ~m_rdm_request_pending
  BY DEF FlightInv
<1>7. /\ m_discovery_callbacks \in Seq(Callback) /\ stack \in Seq(Frame)
      /\ m_pending_requests \in Seq(Request)
  BY DEF TypeInv, TypeOK
<1>8. /\ Flagged(m_pending_requests)'
      /\ m_discovery_callbacks' # <<>> => ~m_rdm_request_pending'
  BY <1>2, <1>4, <1>5, <1>6, <1>7, TakeNextActionFlight
<1> QED
  BY <1>2, <1>4, <1>8 DEF FlightInv

\* Resume() sends only what TakeNextAction would, unless it overlaps.
LEMMA ResumeFlight ==
  ASSUME TypeInv, FlightInv, Resume, ~overlapped'
  PROVE  FlightInv'
<1> DEFINE queue == m_pending_requests
<1>1. /\ MaybeSendRDMRequest(queue, stack)
      /\ UNCHANGED <<m_pending_requests, m_response, stack, m_discovery_callbacks>>
  BY DEF Resume, overflowVars, discoveryVars
<1>2. queue # <<>> => /\ ~m_rdm_request_pending
                      /\ m_discovery_callbacks = <<>>
                      /\ ~BetweenParts
  BY DEF Resume, ResumeOverlaps, Overlap
<1>3. CASE queue = <<>>
  BY <1>1, <1>3 DEF MaybeSendRDMRequest, FlightInv, Flagged, NextPartInFlight, BetweenParts
<1>4. CASE queue # <<>>
  <2>1. /\ Flagged(m_pending_requests)
        /\ m_response # <<>> => stack # <<>> /\ stack[1] = "reset"
    BY <1>2, <1>4, CallFlight
  <2>2. \A r \in Request : outstanding[r] = 0
    BY <1>2, <1>4, <2>1 DEF Flagged, TypeInv, TypeOK
  <2>3. /\ m_rdm_request_pending' = TRUE
        /\ outstanding' = [outstanding EXCEPT ![Head(queue)] = @ + 1]
    BY <1>1, <1>4 DEF MaybeSendRDMRequest, DispatchNextRequest
  <2>4. Head(queue) \in Request
    BY <1>4 DEF TypeInv, TypeOK
  <2>5. /\ outstanding'[Head(queue)] = 1
        /\ \A r \in Request : r # Head(queue) => outstanding'[r] = 0
    BY <2>2, <2>3, <2>4 DEF TypeInv, TypeOK
  <2>6. Flagged(m_pending_requests)'
    BY <1>1, <1>4, <2>3, <2>4, <2>5 DEF Flagged
  <2> QED
    BY <1>1, <1>2, <1>4, <2>1, <2>6 DEF FlightInv
<1> QED
  BY <1>3, <1>4

LEMMA DestroyFlight ==
  ASSUME TypeInv, FlightInv, Destroy
  PROVE  FlightInv' /\ m_response' = <<>>
<1>5. ~NextPartInFlight
  <2>1. m_pending_requests # <<>> => Head(m_pending_requests) \in Request
    BY DEF TypeInv, TypeOK
  <2>2. \A r \in Request : outstanding[r] = 0
    BY DEF Destroy
  <2> QED
    BY <2>1, <2>2 DEF NextPartInFlight
<1>1. /\ Flagged(m_pending_requests)
      /\ m_response # <<>> => stack # <<>> /\ stack[1] = "reset"
  BY <1>5, CallFlight DEF FlightInv, BetweenParts
<1>2. /\ stack = <<>> /\ \A r \in Request : outstanding[r] = 0
      /\ m_pending_requests' = <<>>
      /\ UNCHANGED <<stack, m_response, outstanding, m_rdm_request_pending,
                     m_discovery_callbacks>>
  BY DEF Destroy, overflowVars, discoveryVars
<1>3. m_pending_requests # <<>> => Head(m_pending_requests) \in Request
  BY DEF TypeInv, TypeOK
<1>4. ~m_rdm_request_pending
  BY <1>1, <1>2, <1>3 DEF Flagged
<1> QED
  BY <1>1, <1>2, <1>4 DEF FlightInv, Flagged

\* A reply answers the only request in flight, and no discovery runs then.
LEMMA AnswerFlight ==
  ASSUME TypeInv, FlightInv, NEW r \in Request, outstanding[r] > 0
  PROVE  /\ m_pending_requests # <<>> /\ r = Head(m_pending_requests)
         /\ \A s \in Request : Answered(r)[s] = 0
         /\ Answered(r) \in [Request -> Nat]
         /\ m_discovery_callbacks = <<>>
<1>1. /\ m_pending_requests # <<>> /\ r = Head(m_pending_requests)
      /\ outstanding[r] = 1 /\ m_discovery_callbacks = <<>>
      /\ \A s \in Request : s # r => outstanding[s] = 0
  <2>1. CASE NextPartInFlight
    BY <2>1 DEF NextPartInFlight, BetweenParts
  <2>2. CASE Flagged(m_pending_requests)
    BY <2>2, SMTT(30) DEF Flagged, FlightInv, TypeInv, TypeOK
  <2> QED
    BY <2>1, <2>2 DEF FlightInv
<1>2. Answered(r) \in [Request -> Nat]
  BY AnswerCount DEF TypeInv
<1> QED
  BY <1>1, <1>2 DEF Answered, TypeInv, TypeOK

LEMMA ReplyFlight ==
  ASSUME TypeInv, FlightInv, Reply, ~overlapped'
  PROVE  FlightInv'
<1>1. PICK r \in Request, kind \in ReplyKinds : HandleRDMResponse(r, kind)
  BY DEF Reply
<1>2. MayAnswer(r) /\ outstanding[r] > 0
  BY <1>1 DEF HandleRDMResponse, MayAnswer
<1>3. /\ m_pending_requests # <<>> /\ r = Head(m_pending_requests)
      /\ \A s \in Request : Answered(r)[s] = 0
      /\ Answered(r) \in [Request -> Nat]
      /\ m_discovery_callbacks = <<>>
  BY <1>2, AnswerFlight
<1>4. /\ ~m_rdm_request_pending' /\ m_discovery_callbacks' = <<>>
      /\ stack # <<>> => kind # "overflow" /\ m_response = <<>>
  BY <1>1, <1>3 DEF HandleRDMResponse, discoveryVars, ReplyOverlaps, Overlap
\* The sequence goes on: the front is in flight again.
<1>5. ASSUME kind = "overflow", m_response' # <<>>,
             DispatchNextRequest(m_pending_requests, Answered(r), stack),
             UNCHANGED <<m_pending_requests, stack>>
      PROVE  FlightInv'
  <2>1. outstanding' = [Answered(r) EXCEPT ![r] = @ + 1]
    BY <1>3, <1>5 DEF DispatchNextRequest
  <2>2. \A s \in Request : outstanding'[s] = IF s = r THEN 1 ELSE 0
    BY <1>3, <2>1
  <2> QED
    BY <1>3, <1>4, <1>5, <2>2 DEF FlightInv, NextPartInFlight, BetweenParts
\* The request completes: nothing is in flight while its callback runs.
<1>6. ASSUME outstanding' = Answered(r),
             m_response' # <<>> => stack' # <<>> /\ stack'[1] = "reset"
      PROVE  FlightInv'
  BY <1>3, <1>4, <1>6 DEF FlightInv, Flagged
<1>7. CASE m_response = <<>> /\ BeginOverflow(r)
  <2>1. kind = "overflow" \/ PassReplyOn(r, kind)
    BY <1>1, <1>3, <1>7 DEF HandleRDMResponse
  <2>2. CASE kind = "overflow"
    BY <1>5, <1>7, <2>2 DEF BeginOverflow
  <2>3. CASE PassReplyOn(r, kind)
    BY <1>6, <1>7, <2>3 DEF PassReplyOn, overflowVars
  <2> QED
    BY <2>1, <2>2, <2>3
<1>8. CASE m_response = <<>> /\ PassReplyOn(r, kind)
  BY <1>6, <1>8 DEF PassReplyOn, overflowVars
<1>9. CASE m_response # <<>>
  <2>1. stack = <<>>
    BY <1>4, <1>9
  <2>2. CASE FailOverflow(r)
    <3>1. stack' = <<"reset">>
      BY <2>1, <2>2 DEF FailOverflow, RunCallback
    <3>2. stack' # <<>> /\ stack'[1] = "reset"
      BY <3>1
    <3> QED
      BY <1>6, <2>2, <3>2 DEF FailOverflow
  <2>3. CASE RejectPart(r)
    BY <1>6, <2>3 DEF RejectPart
  <2>4. CASE FinishOverflow(r)
    BY <1>6, <2>4 DEF FinishOverflow
  <2>5. CASE kind = "overflow" /\ ContinueOverflow(r)
    <3>1. m_response' # <<>>
      <4>1. m_response \in Seq(Request) /\ m_response' = Append(m_response, r)
        BY <2>5 DEF ContinueOverflow, TypeInv, TypeOK
      <4> QED
        BY <4>1, AppendProperties
    <3> QED
      BY <1>5, <2>5, <3>1 DEF ContinueOverflow
  <2> QED
    BY <1>1, <1>3, <1>9, <2>2, <2>3, <2>4, <2>5 DEF HandleRDMResponse
<1> QED
  BY <1>1, <1>3, <1>7, <1>8, <1>9 DEF HandleRDMResponse

\* A callback on the stack returns: the frame at the bottom stays, unless it
\* was the last.
LEMMA PopFlight ==
  ASSUME TypeInv, stack # <<>>, stack' = SubSeq(stack, 1, Len(stack) - 1)
  PROVE  /\ stack' # <<>> => stack'[1] = stack[1]
         /\ stack' = <<>> => stack[Len(stack)] = stack[1]
<1>1. stack \in Seq(Frame) /\ Len(stack) \in Nat /\ Len(stack) # 0
  BY DEF TypeInv, TypeOK
<1>2. /\ Len(stack') = Len(stack) - 1
      /\ \A i \in 1..(Len(stack) - 1) : stack'[i] = stack[i]
  <2> DEFINE m == Len(stack) - 1
  <2>1. m \in 0..Len(stack) /\ stack' = SubSeq(stack, 1, m)
    BY <1>1
  <2> HIDE DEF m
  <2>2. Len(stack') = m /\ \A i \in 1..m : stack'[i] = stack[i]
    BY <1>1, <2>1
  <2> QED
    BY <2>2 DEF m
<1>3. CASE Len(stack) = 1
  BY <1>1, <1>2, <1>3
<1>4. CASE Len(stack) > 1
  <2>1. 1 \in 1..(Len(stack) - 1) /\ Len(stack') # 0
    BY <1>1, <1>2, <1>4
  <2>2. stack' # <<>>
    BY <2>1
  <2> QED
    BY <1>2, <2>1, <2>2
<1> QED
  BY <1>1, <1>3, <1>4

LEMMA ReturnFlight ==
  ASSUME TypeInv, FlightInv,
         \/ FinishHandleRDMResponse \/ DiscoveryComplete
         \/ NextDiscoveryCallback \/ FinishDiscoveryComplete
         \/ ControllerReturns
  PROVE  FlightInv'
<1> DEFINE runs == m_discovery_callbacks
<1>1. /\ runs \in Seq(Callback) /\ m_pending_requests \in Seq(Request)
      /\ m_pending_discovery_callbacks \in Seq(Entry)
      /\ <<>> \in Seq(Callback)
  BY DEF TypeInv, TypeOK, Entry
<1>2. CASE FinishHandleRDMResponse
  <2>1. /\ stack # <<>> /\ stack' = SubSeq(stack, 1, Len(stack) - 1)
        /\ m_response' = IF stack[Len(stack)] = "reset" THEN <<>> ELSE m_response
        /\ UNCHANGED m_pending_requests
        /\ TakeNextAction(m_pending_requests, runs,
                          m_pending_discovery_callbacks, stack')
    BY <1>2 DEF FinishHandleRDMResponse
  <2>2. stack' \in Seq(Frame)
    BY <2>1, PopType DEF TypeInv, TypeOK
  <2>3. /\ Flagged(m_pending_requests)
        /\ runs # <<>> => ~m_rdm_request_pending
        /\ m_response # <<>> => stack[1] = "reset"
    BY <2>1 DEF FlightInv, NextPartInFlight, BetweenParts
  <2>4. /\ Flagged(m_pending_requests)'
        /\ m_discovery_callbacks' # <<>> => ~m_rdm_request_pending'
    BY <1>1, <2>1, <2>2, <2>3, TakeNextActionFlight
  <2>5. m_response' # <<>> => stack' # <<>> /\ stack'[1] = "reset"
    BY <2>1, <2>3, PopFlight
  <2> QED
    BY <2>4, <2>5 DEF FlightInv
<1>3. CASE DiscoveryComplete
  <2>1. /\ stack' = Append(stack, "discovery") /\ runs # <<>>
        /\ UNCHANGED <<m_pending_requests, m_rdm_request_pending, outstanding,
                       m_response, m_discovery_callbacks>>
    BY <1>3 DEF DiscoveryComplete, TypeInv, DiscoveryState, requestVars, overflowVars
  <2>2. ~NextPartInFlight
    BY <2>1 DEF NextPartInFlight, BetweenParts
  <2>3. stack # <<>> => stack' # <<>> /\ stack'[1] = stack[1]
    <3>1. stack \in Seq(Frame) /\ "discovery" \in Frame
      BY DEF TypeInv, TypeOK, Frame
    <3> QED
      BY <2>1, <3>1, AppendProperties
  <2> QED
    BY <2>1, <2>2, <2>3 DEF FlightInv, Flagged
<1>4. CASE FinishDiscoveryComplete
  <2>1. /\ stack # <<>> /\ stack' = SubSeq(stack, 1, Len(stack) - 1)
        /\ stack[Len(stack)] = "discovery"
        /\ UNCHANGED <<m_pending_requests, m_response>>
        /\ TakeNextAction(m_pending_requests, <<>>,
                          m_pending_discovery_callbacks, stack')
    BY <1>4 DEF FinishDiscoveryComplete, overflowVars
  <2>2. stack' \in Seq(Frame)
    BY <2>1, PopType DEF TypeInv, TypeOK
  <2>3. /\ Flagged(m_pending_requests)
        /\ m_response # <<>> => stack[1] = "reset"
    BY <2>1 DEF FlightInv, NextPartInFlight, BetweenParts
  <2>4. /\ Flagged(m_pending_requests)'
        /\ m_discovery_callbacks' # <<>> => ~m_rdm_request_pending'
    BY <1>1, <2>1, <2>2, <2>3, TakeNextActionFlight
  <2>5. m_response' # <<>> => stack' # <<>> /\ stack'[1] = "reset"
    BY <2>1, <2>3, PopFlight
  <2> QED
    BY <2>4, <2>5 DEF FlightInv
<1>5. CASE NextDiscoveryCallback \/ ControllerReturns
  BY <1>5 DEF NextDiscoveryCallback, ControllerReturns, FlightInv, NextPartInFlight, BetweenParts,
              Flagged, requestVars, overflowVars, discoveryVars
<1> QED
  BY <1>2, <1>3, <1>4, <1>5

\* At rest nothing is in flight, whatever came before.
LEMMA RestFlight ==
  ASSUME TypeInv', AtRest'
  PROVE  FlightInv'
BY DEF TypeInv, TypeOK, AtRest, FlightInv, Flagged

\* A step that ends with no overlap began with none, or ends at rest.
LEMMA StillOverlapped ==
  ASSUME [Next]_vars, overlapped, ~overlapped'
  PROVE  AtRest'
BY DEF Next, SendRDMRequest, DropRDMRequest, Pause, Resume, Discover, GenericDiscovery,
       Destroy, Reply, HandleRDMResponse, FinishHandleRDMResponse, DiscoveryComplete,
       NextDiscoveryCallback, FinishDiscoveryComplete, ControllerReturns, vars,
       CallOverlaps, ResumeOverlaps, ReplyOverlaps, Overlap

LEMMA FlightStep ==
  ASSUME TypeInv, FlightInv, [Next]_vars, ~overlapped'
  PROVE  FlightInv'
<1>1. CASE DropRDMRequest \/ Pause \/ UNCHANGED vars
  BY <1>1 DEF DropRDMRequest, Pause, vars, requestVars, overflowVars,
              discoveryVars, FlightInv, NextPartInFlight, BetweenParts, Flagged
<1> QED
  BY <1>1, SendFlight, DiscoverFlight, ResumeFlight, DestroyFlight, ReplyFlight,
     ReturnFlight DEF Next

LEMMA FlightHolds == Spec => [](FlightInv \/ overlapped)
<1>1. Init => FlightInv
  BY DEF Init, FlightInv, Flagged
<1>2. TypeInv /\ (FlightInv \/ overlapped) /\ [Next]_vars => (FlightInv \/ overlapped)'
  <2> SUFFICES ASSUME TypeInv, FlightInv \/ overlapped, [Next]_vars, ~overlapped'
               PROVE  FlightInv'
    OBVIOUS
  <2>1. CASE overlapped
    BY <2>1, StillOverlapped, TypeStep, RestFlight
  <2>2. CASE FlightInv
    BY <2>2, FlightStep
  <2> QED
    BY <2>1, <2>2
<1> QED
  BY <1>1, <1>2, TypeCorrect, PTL DEF Spec, TypeInv

\* "ensures that we only send one request at a time": what the queueing
\* controller keeps of it, for every nesting of calls, replies and callbacks,
\* with ACK_OVERFLOW sequences and Resume().
THEOREM OneInFlight == Spec => []SingleUnlessOverlapped
<1>1. TypeInv /\ (FlightInv \/ overlapped) => SingleUnlessOverlapped
  <2> SUFFICES ASSUME TypeInv, FlightInv PROVE SingleInFlight
    BY DEF SingleUnlessOverlapped
  <2>1. \A r \in Request : outstanding[r] \in Nat
    BY DEF TypeInv, TypeOK
  <2>2. CASE NextPartInFlight
    BY <2>1, <2>2 DEF NextPartInFlight, SingleInFlight, Discovering, TypeInv, DiscoveryState
  <2>3. CASE Flagged(m_pending_requests)
    BY <2>1, <2>3 DEF Flagged, FlightInv, SingleInFlight, Discovering, TypeInv,
                      DiscoveryState
  <2> QED
    BY <2>2, <2>3 DEF FlightInv
<1> QED
  BY <1>1, FlightHolds, TypeCorrect, PTL DEF TypeInv

-----------------------------------------------------------------------------
(* Every callback is given the reply to its own request.                    *)

\* Between the parts of a sequence, what has been combined are the replies to
\* the front of the queue.
CombinedSoFar ==
  m_response # <<>> /\ stack = <<>> =>
    /\ m_pending_requests # <<>>
    /\ m_response = m_frames
    /\ \A k \in DOMAIN m_frames : m_frames[k] = Head(m_pending_requests)

\* What a step adds to completed is its request's own.
OwnAdded == \A i \in DOMAIN completed' \ DOMAIN completed : Own(completed'[i])

ReplyStep == CombinedSoFar' /\ OwnAdded

LEMMA NothingAdded == completed' = completed => OwnAdded
BY DEF OwnAdded

LEMMA RunCallbackOwn ==
  ASSUME TypeOK, m_pending_requests # <<>>,
         NEW frame \in Frame, NEW status \in Status, status # "failed_to_send",
         NEW response \in Seq(Request), NEW frames \in Seq(Request),
         RunCallback(frame, status, response, frames),
         \A k \in DOMAIN response : response[k] = Head(m_pending_requests),
         \A k \in DOMAIN frames : frames[k] = Head(m_pending_requests),
         status = "ok" => response = frames
  PROVE  OwnAdded /\ stack' # <<>>
<1> DEFINE c == [req |-> Head(m_pending_requests), status |-> status,
                 response |-> response, frames |-> frames]
<1>1. completed' = Append(completed, c) /\ stack' = Append(stack, frame)
  BY DEF RunCallback
<1>2. Own(c)
  BY DEF Own
<1>3. completed \in Seq(Completion) /\ Len(completed) \in Nat
  BY DEF TypeOK
<1> HIDE DEF c
<1>5. OwnAdded
  <2>1. \A i \in DOMAIN completed' \ DOMAIN completed : completed'[i] = c
    BY <1>1, <1>3
  <2> QED
    BY <1>2, <2>1 DEF OwnAdded
<1>6. stack' # <<>>
  <2>1. stack \in Seq(Frame)
    BY DEF TypeOK
  <2> QED
    BY <1>1, <2>1, AppendProperties
<1> QED
  BY <1>5, <1>6

LEMMA ReplyOwn ==
  ASSUME TypeInv, FlightInv, CombinedSoFar, Reply, ~overlapped'
  PROVE  ReplyStep
<1>1. PICK r \in Request, kind \in ReplyKinds : HandleRDMResponse(r, kind)
  BY DEF Reply
<1>2. MayAnswer(r) /\ outstanding[r] > 0
  BY <1>1 DEF HandleRDMResponse, MayAnswer
<1>3. m_pending_requests # <<>> /\ r = Head(m_pending_requests)
  BY <1>2, AnswerFlight
<1>4. TypeOK
  BY DEF TypeInv
<1>5. /\ <<r>> \in Seq(Request) /\ <<>> \in Seq(Request)
      /\ \A k \in DOMAIN <<r>> : <<r>>[k] = r
      /\ DOMAIN <<>> = {}
  OBVIOUS
<1>6. ASSUME NEW ps \in Seq(Request), \A k \in DOMAIN ps : ps[k] = r
      PROVE  /\ Append(ps, r) \in Seq(Request)
             /\ \A k \in DOMAIN Append(ps, r) : Append(ps, r)[k] = r
  BY <1>6
<1>7. CASE m_response = <<>> /\ BeginOverflow(r)
  <2>1. /\ m_response' = <<r>> /\ m_frames' = <<r>>
        /\ UNCHANGED <<m_pending_requests, completed>>
    BY <1>7 DEF BeginOverflow
  <2>2. CombinedSoFar'
    BY <1>3, <1>5, <2>1 DEF CombinedSoFar
  <2>3. OwnAdded
    BY <2>1, NothingAdded
  <2> QED
    BY <2>2, <2>3 DEF ReplyStep
<1>8. CASE m_response = <<>> /\ PassReplyOn(r, kind)
  <2> DEFINE status == IF kind = "ack" THEN "ok" ELSE "fail"
             response == IF kind = "ack" THEN <<r>> ELSE <<>>
  <2>1. RunCallback("passed", status, response, <<r>>) /\ m_response' = m_response
    BY <1>8 DEF PassReplyOn, overflowVars
  <2>2. /\ status \in Status /\ status # "failed_to_send" /\ response \in Seq(Request)
        /\ "passed" \in Frame
        /\ \A k \in DOMAIN response : response[k] = r
        /\ status = "ok" => response = <<r>>
    BY <1>5 DEF Status, Frame
  <2> HIDE DEF status, response
  <2>3. OwnAdded /\ stack' # <<>>
    BY <1>3, <1>4, <1>5, <2>1, <2>2, RunCallbackOwn
  <2> QED
    BY <2>3 DEF ReplyStep, CombinedSoFar
<1>9. CASE m_response # <<>>
  <2>1. stack = <<>>
    BY <1>1, <1>9 DEF HandleRDMResponse, ReplyOverlaps, Overlap
  <2>2. m_response = m_frames /\ \A k \in DOMAIN m_frames : m_frames[k] = r
    BY <1>3, <1>4, <1>9, <2>1 DEF CombinedSoFar
  <2> DEFINE fs == Append(m_frames, r)
             ps == Append(m_response, r)
  <2>3. /\ fs \in Seq(Request) /\ (\A k \in DOMAIN fs : fs[k] = r) /\ ps = fs
        /\ ps \in Seq(Request) /\ (\A k \in DOMAIN ps : ps[k] = r)
    BY <1>4, <1>6, <2>2 DEF TypeOK
  <2>4. /\ "invalid" \in Status /\ "fail" \in Status /\ "ok" \in Status
        /\ "reset" \in Frame /\ "clear" \in Frame
    BY DEF Status, Frame
  <2>5. CASE FailOverflow(r)
    <3>1. RunCallback("reset", "fail", <<>>, fs)
      BY <2>5 DEF FailOverflow
    <3> HIDE DEF fs
    <3>2. OwnAdded /\ stack' # <<>>
      BY <1>3, <1>4, <1>5, <2>3, <2>4, <3>1, RunCallbackOwn
    <3> QED
      BY <3>2 DEF ReplyStep, CombinedSoFar
  <2>6. CASE RejectPart(r)
    <3>1. RunCallback("clear", "invalid", <<>>, fs)
      BY <2>6 DEF RejectPart
    <3> HIDE DEF fs
    <3>2. OwnAdded /\ stack' # <<>>
      BY <1>3, <1>4, <1>5, <2>3, <2>4, <3>1, RunCallbackOwn
    <3> QED
      BY <3>2 DEF ReplyStep, CombinedSoFar
  <2>7. CASE FinishOverflow(r)
    <3>1. RunCallback("reset", "ok", ps, fs)
      BY <2>7 DEF FinishOverflow
    <3> HIDE DEF fs, ps
    <3>2. OwnAdded /\ stack' # <<>>
      BY <1>3, <1>4, <1>5, <2>3, <2>4, <3>1, RunCallbackOwn
    <3> QED
      BY <3>2 DEF ReplyStep, CombinedSoFar
  <2>8. CASE ContinueOverflow(r)
    <3>1. /\ m_response' = ps /\ m_frames' = fs
          /\ UNCHANGED <<m_pending_requests, completed>>
      BY <2>8 DEF ContinueOverflow
    <3> HIDE DEF fs, ps
    <3>2. CombinedSoFar'
      BY <1>3, <2>3, <3>1 DEF CombinedSoFar
    <3>3. OwnAdded
      BY <3>1, NothingAdded
    <3> QED
      BY <3>2, <3>3 DEF ReplyStep
  <2> QED
    BY <1>1, <1>3, <1>9, <2>5, <2>6, <2>7, <2>8 DEF HandleRDMResponse
<1> QED
  BY <1>1, <1>3, <1>7, <1>8, <1>9 DEF HandleRDMResponse

LEMMA DestroyOwn ==
  ASSUME TypeInv, Destroy
  PROVE  OwnAdded
<1> DEFINE n == Len(m_pending_requests)
           failed == [i \in DOMAIN m_pending_requests |->
             [req |-> m_pending_requests[i], status |-> "failed_to_send",
              response |-> <<>>, frames |-> <<>>]]
<1>1. completed' = completed \o failed
  BY DEF Destroy
<1>2. /\ n \in Nat /\ DOMAIN m_pending_requests = 1..n
      /\ completed \in Seq(Completion) /\ Len(completed) \in Nat
  BY DEF TypeInv, TypeOK
<1>3. \A i \in 1..n : Own(failed[i])
  BY <1>2 DEF Own
<1>4. failed \in Seq(Completion) /\ Len(failed) = n
  <2>1. <<>> \in Seq(Request)
    OBVIOUS
  <2>2. \A i \in 1..n : m_pending_requests[i] \in Request
    BY DEF TypeInv, TypeOK
  <2>3. \A i \in 1..n : failed[i] \in Completion
    BY <1>2, <2>1, <2>2 DEF Completion, Status
  <2> QED
    BY <1>2, <2>3
<1> HIDE DEF failed
<1>5. /\ completed' \in Seq(Completion)
      /\ Len(completed') = Len(completed) + n
      /\ \A i \in 1..(Len(completed) + n) : completed'[i] =
           IF i <= Len(completed) THEN completed[i] ELSE failed[i - Len(completed)]
  <2>1. /\ completed \o failed \in Seq(Completion)
        /\ Len(completed \o failed) = Len(completed) + Len(failed)
        /\ \A i \in 1..(Len(completed) + Len(failed)) :
             (completed \o failed)[i] = IF i <= Len(completed)
               THEN completed[i] ELSE failed[i - Len(completed)]
    BY ONLY <1>2, <1>4, ConcatProperties
  <2> QED
    BY <1>1, <1>4, <2>1, Zenon
<1>6. ASSUME NEW i \in DOMAIN completed' \ DOMAIN completed PROVE Own(completed'[i])
  <2>1. i \in 1..(Len(completed) + n) /\ ~(i <= Len(completed))
    BY <1>2, <1>5, <1>6
  <2>2. i - Len(completed) \in 1..n
    BY <1>2, <2>1
  <2> QED
    BY <1>3, <1>5, <2>1, <2>2
<1> QED
  BY <1>6 DEF OwnAdded

\* What the other steps do to the parts: they begin and end inside a callback,
\* or find none.
LEMMA OthersCombined ==
  ASSUME TypeInv, FlightInv, CombinedSoFar, [Next]_vars, ~Destroy, ~Reply
  PROVE  CombinedSoFar'
<1>3. ASSUME UNCHANGED <<m_response, m_frames, stack>>,
             m_pending_requests # <<>> =>
               /\ m_pending_requests' # <<>>
               /\ Head(m_pending_requests') = Head(m_pending_requests)
      PROVE  CombinedSoFar'
  BY <1>3 DEF CombinedSoFar
<1>4. CASE SendRDMRequest
  <2>1. /\ m_pending_requests' = Append(m_pending_requests, accepted + 1)
        /\ UNCHANGED <<m_response, m_frames, stack>>
    BY <1>4 DEF SendRDMRequest, overflowVars
  <2>2. accepted + 1 \in Request /\ m_pending_requests \in Seq(Request)
    BY <1>4, ConstantsAssumption DEF SendRDMRequest, TypeInv, TypeOK, Request
  <2>3. m_pending_requests # <<>> =>
          /\ m_pending_requests' # <<>>
          /\ Head(m_pending_requests') = Head(m_pending_requests)
    BY <2>1, <2>2
  <2> QED
    BY <1>3, <2>1, <2>3
<1>5. CASE DropRDMRequest \/ Pause \/ Resume \/ Discover
  BY <1>3, <1>5 DEF DropRDMRequest, Pause, Resume, Discover, GenericDiscovery,
                    vars, requestVars, overflowVars
<1>6. CASE NextDiscoveryCallback \/ ControllerReturns \/ UNCHANGED vars
  BY <1>3, <1>6 DEF NextDiscoveryCallback, ControllerReturns, vars, requestVars, overflowVars
<1>7. CASE DiscoveryComplete
  <2>1. stack' # <<>>
    <3>1. stack \in Seq(Frame) /\ "discovery" \in Frame /\ stack' = Append(stack, "discovery")
      BY <1>7 DEF DiscoveryComplete, TypeInv, TypeOK, Frame
    <3> QED
      BY <3>1, AppendProperties
  <2> QED
    BY <2>1 DEF CombinedSoFar
<1>8. CASE FinishHandleRDMResponse \/ FinishDiscoveryComplete
  <2>1. ASSUME m_response' # <<>>, stack' = <<>> PROVE FALSE
    <3>1. /\ stack # <<>> /\ stack' = SubSeq(stack, 1, Len(stack) - 1)
          /\ \/ stack[Len(stack)] # "reset" /\ m_response' = m_response
             \/ m_response' = <<>>
      BY <1>8 DEF FinishHandleRDMResponse, FinishDiscoveryComplete, overflowVars
    <3>2. stack[Len(stack)] = stack[1] /\ m_response # <<>> /\ stack[1] # "reset"
      BY <2>1, <3>1, PopFlight
    <3> QED
      BY <3>1, <3>2 DEF FlightInv, NextPartInFlight, BetweenParts
  <2> QED
    BY <2>1 DEF CombinedSoFar
<1> QED
  BY <1>4, <1>5, <1>6, <1>7, <1>8 DEF Next

\* Only a reply and the destructor complete requests.
LEMMA OthersAdd ==
  ASSUME [Next]_vars, ~Destroy, ~Reply
  PROVE  completed' = completed
BY DEF Next, SendRDMRequest, DropRDMRequest, Pause, Resume, Discover, GenericDiscovery,
       FinishHandleRDMResponse, DiscoveryComplete, NextDiscoveryCallback,
       FinishDiscoveryComplete, ControllerReturns, historyVars, vars

\* A reply that completes a request leaves its handler suspended, not at rest.
LEMMA ReplySuspends ==
  ASSUME TypeInv, Reply, completed' # completed
  PROVE  ~AtRest'
<1>1. PICK r \in Request, kind \in ReplyKinds : HandleRDMResponse(r, kind)
  BY DEF Reply
<1>2. \E frame \in Frame : stack' = Append(stack, frame)
  BY <1>1 DEF Frame, HandleRDMResponse, BeginOverflow, PassReplyOn, FailOverflow, RejectPart,
              FinishOverflow, ContinueOverflow, RunCallback
<1>3. stack' # <<>>
  <2>1. stack \in Seq(Frame)
    BY DEF TypeInv, TypeOK
  <2> QED
    BY <1>2, <2>1, AppendProperties
<1> QED
  BY <1>3 DEF AtRest

\* The response and the frames a callback is given are those of its own
\* request, and a successful ACK_OVERFLOW reply is made of all its parts, in
\* order, in every step that is not part of an overlap.
THEOREM OwnReplyHolds == Spec => OwnReply
<1> DEFINE Inv == (FlightInv /\ CombinedSoFar) \/ overlapped
<1>1. Init => Inv
  BY DEF Init, FlightInv, Flagged, CombinedSoFar
<1>2. TypeInv /\ Inv /\ [Next]_vars => Inv'
  <2> SUFFICES ASSUME TypeInv, Inv, [Next]_vars, ~overlapped'
               PROVE  FlightInv' /\ CombinedSoFar'
    OBVIOUS
  <2>1. CASE overlapped
    BY <2>1, StillOverlapped, TypeStep, RestFlight DEF AtRest, CombinedSoFar
  <2>2. CASE FlightInv /\ CombinedSoFar
    <3>1. FlightInv'
      BY <2>2, FlightStep
    <3>2. CombinedSoFar'
      BY <2>2, ReplyOwn, DestroyFlight, OthersCombined DEF ReplyStep, CombinedSoFar
    <3> QED
      BY <3>1, <3>2
  <2> QED
    BY <2>1, <2>2
<1>3. TypeInv /\ Inv /\ [Next]_vars => [OwnAdded \/ overlapped']_vars
  <2> SUFFICES ASSUME TypeInv, Inv, [Next]_vars, ~overlapped'
               PROVE  OwnAdded
    OBVIOUS
  <2>1. CASE completed' = completed
    BY <2>1, NothingAdded
  <2>2. CASE Destroy
    BY <2>2, DestroyOwn
  <2>3. CASE Reply /\ completed' # completed
    <3>1. ~overlapped
      BY <2>3, ReplySuspends, StillOverlapped
    <3> QED
      BY <2>3, <3>1, ReplyOwn DEF ReplyStep
  <2> QED
    BY <2>1, <2>2, <2>3, OthersAdd
<1>4. [OwnAdded \/ overlapped']_vars
      => [\A i \in DOMAIN completed' \ DOMAIN completed :
             Own(completed'[i]) \/ overlapped']_vars
  BY DEF OwnAdded
<1> QED
  BY <1>1, <1>2, <1>3, <1>4, TypeCorrect, PTL DEF Spec, TypeInv, OwnReply

-----------------------------------------------------------------------------
(* Discovery callbacks run once, in order, with the discovery they need.    *)

\* The calls that have not been served, in order: those that the running
\* discovery serves from callback it on, and those that wait.
Unserved(done, running, it, waiting, kind, flags) ==
  /\ it <= Len(running)
  /\ Len(flags) = done + (Len(running) - it) + Len(waiting)
  /\ \A i \in (it + 1)..Len(running) :
       running[i] = done + i - it /\ (flags[running[i]] => kind = "full")
  /\ \A i \in DOMAIN waiting :
       /\ waiting[i].cb = done + (Len(running) - it) + i
       /\ waiting[i].full = flags[waiting[i].cb]

Served(ds, flags) ==
  \A i \in DOMAIN ds : ds[i].cb = i /\ (flags[i] => ds[i].kind = "full")

DiscoveryInv ==
  /\ Unserved(Len(discovered), m_discovery_callbacks, iter,
              m_pending_discovery_callbacks, discovery, asked)
  /\ Served(discovered, asked)

LEMMA DiscoveryInvImplies == TypeOK /\ DiscoveryInv => DiscoveryExactlyOnce
BY DEF DiscoveryInv, Unserved, Served, DiscoveryExactlyOnce

\* TakeNextAction starts the calls that wait once no discovery is running.
LEMMA TakeNextActionServes ==
  ASSUME TypeInv,
         NEW queue, NEW running \in Seq(Callback),
         NEW waiting \in Seq(Entry), NEW stk, NEW it \in Nat,
         running = <<>> \/ (running = m_discovery_callbacks /\ it = iter),
         NEW flags \in Seq(BOOLEAN), NEW done \in Nat,
         Unserved(done, running, it, waiting, discovery, flags),
         TakeNextAction(queue, running, waiting, stk)
  PROVE  Unserved(done, m_discovery_callbacks', iter', m_pending_discovery_callbacks',
                  discovery', flags)
<1>1. Len(running) \in Nat /\ Len(waiting) \in Nat /\ DOMAIN waiting = 1..Len(waiting)
  OBVIOUS
<1>2. it <= Len(running) /\ (running = <<>> => it = 0 /\ Len(running) = 0)
  BY <1>1 DEF Unserved
<1>3. CASE KeepDiscovery(running, waiting)
  <2>1. CASE running = <<>>
    <3>1. /\ m_discovery_callbacks' = running /\ m_pending_discovery_callbacks' = waiting
          /\ iter' = it /\ it = 0 /\ Len(running) = 0
      BY <1>2, <1>3, <2>1 DEF KeepDiscovery
    <3>2. (it + 1)..Len(running) = {}
      BY <3>1
    <3> QED
      BY <3>1, <3>2 DEF Unserved
  <2>2. CASE running # <<>>
    BY <1>3, <2>2 DEF KeepDiscovery
  <2> QED
    BY <2>1, <2>2
<1>4. CASE StartRDMDiscovery(running, waiting, stk) /\ running = <<>>
  <2> DEFINE cbs == [i \in DOMAIN waiting |-> waiting[i].cb]
  <2>1. cbs \in Seq(Callback) /\ Len(cbs) = Len(waiting)
    BY CallbacksOf
  <2>2. \A i \in 1..Len(waiting) : cbs[i] = waiting[i].cb
    BY <1>1
  <2>3. /\ m_discovery_callbacks' = <<>> \o cbs /\ m_pending_discovery_callbacks' = <<>>
        /\ iter' = 0
        /\ discovery' = IF \E i \in DOMAIN waiting : waiting[i].full
                        THEN "full" ELSE "incremental"
    BY <1>4 DEF StartRDMDiscovery
  <2> HIDE DEF cbs
  <2>4. m_discovery_callbacks' = cbs
    BY <2>1, <2>3
  <2>5. ASSUME NEW i \in 1..Len(waiting)
        PROVE  cbs[i] = done + i /\ (flags[cbs[i]] => discovery' = "full")
    <3>1. waiting[i].cb = done + (Len(running) - it) + i /\ waiting[i].full = flags[waiting[i].cb]
      BY <1>1, <2>5 DEF Unserved
    <3>2. cbs[i] = done + i
      BY <1>2, <1>4, <2>2, <2>5, <3>1
    <3>3. flags[cbs[i]] => discovery' = "full"
      BY <1>1, <2>2, <2>3, <2>5, <3>1
    <3> QED
      BY <3>2, <3>3
  <2>6. Len(flags) = done + Len(waiting)
    BY <1>1, <1>2, <1>4 DEF Unserved
  <2>7. /\ 0 <= Len(cbs)
        /\ Len(flags) = done + (Len(cbs) - 0) + Len(<<>>)
        /\ DOMAIN <<>> = {}
    BY <1>1, <2>1, <2>6
  <2>8. ASSUME NEW i \in (0 + 1)..Len(cbs)
        PROVE  cbs[i] = done + i - 0 /\ (flags[cbs[i]] => discovery' = "full")
    <3>1. i \in 1..Len(waiting)
      BY <2>1, <2>8
    <3> QED
      BY <2>5, <3>1
  <2>9. Unserved(done, cbs, 0, <<>>, discovery', flags)
    BY <2>7, <2>8 DEF Unserved
  <2> QED
    BY <2>3, <2>4, <2>9
<1> QED
  BY <1>3, <1>4 DEF TakeNextAction, CheckForBlockingCondition

\* A handler that neither asks for a discovery nor ends one.
LEMMA TakesNextAction ==
  ASSUME TypeInv, DiscoveryInv, UNCHANGED <<asked, discovered>>,
         NEW queue, NEW stk,
         TakeNextAction(queue, m_discovery_callbacks, m_pending_discovery_callbacks, stk)
  PROVE  DiscoveryInv'
<1>1. /\ m_discovery_callbacks \in Seq(Callback) /\ iter \in Nat
      /\ m_pending_discovery_callbacks \in Seq(Entry) /\ asked \in Seq(BOOLEAN)
      /\ Len(discovered) \in Nat
  BY DEF TypeInv, TypeOK, Entry
<1>2. Unserved(Len(discovered), m_discovery_callbacks', iter',
               m_pending_discovery_callbacks', discovery', asked)
  BY <1>1, TakeNextActionServes DEF DiscoveryInv
<1> QED
  BY <1>2 DEF DiscoveryInv

LEMMA DiscoverServes ==
  ASSUME TypeInv, DiscoveryInv, Discover
  PROVE  DiscoveryInv'
<1>1. PICK full \in BOOLEAN : GenericDiscovery(full)
  BY DEF Discover
<1> DEFINE entry == [full |-> full, cb |-> Len(asked) + 1]
           waiting == Append(m_pending_discovery_callbacks, entry)
           flags == Append(asked, full)
           done == Len(discovered)
           left == Len(m_discovery_callbacks) - iter
<1>2. entry \in Entry
  BY <1>1, ConstantsAssumption DEF GenericDiscovery, TypeInv, TypeOK, Entry, Callback
<1>3. /\ m_discovery_callbacks \in Seq(Callback) /\ iter \in Nat
      /\ m_pending_discovery_callbacks \in Seq(Entry) /\ asked \in Seq(BOOLEAN)
      /\ discovered \in Seq([cb : Callback, kind : {"full", "incremental"}])
  BY DEF TypeInv, TypeOK, Entry
<1>4. /\ done \in Nat /\ Len(m_discovery_callbacks) \in Nat /\ Len(asked) \in Nat
      /\ Len(m_pending_discovery_callbacks) \in Nat
      /\ DOMAIN discovered = 1..done
      /\ DOMAIN m_pending_discovery_callbacks = 1..Len(m_pending_discovery_callbacks)
  BY <1>3
<1>5. /\ asked' = flags /\ discovered' = discovered
      /\ TakeNextAction(m_pending_requests, m_discovery_callbacks, waiting, stack)
  BY <1>1 DEF GenericDiscovery
<1>6. entry.full = full /\ entry.cb = Len(asked) + 1
  OBVIOUS
<1> HIDE DEF entry
<1>7. /\ waiting \in Seq(Entry) /\ Len(waiting) = Len(m_pending_discovery_callbacks) + 1
      /\ DOMAIN waiting = 1..(Len(m_pending_discovery_callbacks) + 1)
      /\ \A i \in 1..Len(m_pending_discovery_callbacks) :
           waiting[i] = m_pending_discovery_callbacks[i]
      /\ waiting[Len(m_pending_discovery_callbacks) + 1] = entry
  BY <1>2, <1>3
<1>8. /\ flags \in Seq(BOOLEAN) /\ Len(flags) = Len(asked) + 1
      /\ \A i \in 1..Len(asked) : flags[i] = asked[i]
      /\ flags[Len(asked) + 1] = full
  BY <1>3
<1>9. /\ iter <= Len(m_discovery_callbacks)
      /\ Len(asked) = done + left + Len(m_pending_discovery_callbacks)
      /\ \A i \in (iter + 1)..Len(m_discovery_callbacks) :
           /\ m_discovery_callbacks[i] = done + i - iter
           /\ asked[m_discovery_callbacks[i]] => discovery = "full"
      /\ \A i \in DOMAIN m_pending_discovery_callbacks :
           /\ m_pending_discovery_callbacks[i].cb = done + left + i
           /\ m_pending_discovery_callbacks[i].full = asked[m_pending_discovery_callbacks[i].cb]
  BY DEF DiscoveryInv, Unserved
<1>10. left \in Nat
  BY <1>3, <1>4, <1>9
<1> HIDE DEF waiting, flags
<1>11. ASSUME NEW i \in (iter + 1)..Len(m_discovery_callbacks)
       PROVE  /\ m_discovery_callbacks[i] = done + i - iter
              /\ flags[m_discovery_callbacks[i]] => discovery = "full"
  <2>1. m_discovery_callbacks[i] = done + i - iter
    BY <1>9, <1>11
  <2>2. done + i - iter \in 1..Len(asked)
    BY <1>3, <1>4, <1>9, <1>10, <1>11
  <2>3. flags[m_discovery_callbacks[i]] = asked[m_discovery_callbacks[i]]
    BY <1>8, <2>1, <2>2
  <2> QED
    BY <1>9, <1>11, <2>1, <2>3
<1>12. ASSUME NEW i \in DOMAIN waiting
       PROVE  waiting[i].cb = done + left + i /\ waiting[i].full = flags[waiting[i].cb]
  <2>1. CASE i \in 1..Len(m_pending_discovery_callbacks)
    <3>1. /\ waiting[i].cb = done + left + i /\ waiting[i].full = asked[waiting[i].cb]
      BY <1>4, <1>7, <1>9, <2>1
    <3>2. done + left + i \in 1..Len(asked)
      BY <1>4, <1>9, <1>10, <2>1
    <3>3. flags[waiting[i].cb] = asked[waiting[i].cb]
      BY <1>8, <3>1, <3>2
    <3> QED
      BY <3>1, <3>3
  <2>2. CASE i \notin 1..Len(m_pending_discovery_callbacks)
    <3>1. i = Len(m_pending_discovery_callbacks) + 1
      BY <1>4, <1>7, <1>12, <2>2
    <3>2. waiting[i] = entry
      BY <1>7, <3>1
    <3>3. entry.cb = done + left + i
      BY <1>4, <1>6, <1>9, <1>10, <3>1
    <3>4. entry.full = flags[entry.cb]
      BY <1>6, <1>8
    <3> QED
      BY <3>2, <3>3, <3>4
  <2> QED
    BY <2>1, <2>2
<1>13. Len(flags) = done + left + Len(waiting)
  BY <1>4, <1>7, <1>8, <1>9, <1>10
<1>14. Unserved(done, m_discovery_callbacks, iter, waiting, discovery, flags)
  BY <1>9, <1>11, <1>12, <1>13 DEF Unserved
<1>15. Served(discovered, flags)
  <2> SUFFICES ASSUME NEW i \in DOMAIN discovered
               PROVE  discovered[i].cb = i /\ (flags[i] => discovered[i].kind = "full")
    BY DEF Served
  <2>1. i \in 1..Len(asked)
    BY <1>4, <1>9, <1>10
  <2> QED
    BY <1>8, <2>1 DEF DiscoveryInv, Served
<1>16. Unserved(done, m_discovery_callbacks', iter', m_pending_discovery_callbacks',
                discovery', flags)
  BY <1>3, <1>4, <1>5, <1>7, <1>8, <1>14, TakeNextActionServes
<1> QED
  BY <1>5, <1>15, <1>16 DEF DiscoveryInv

\* The next callback that the finished discovery serves is the next call.
LEMMA RunServes ==
  ASSUME TypeInv, DiscoveryInv, RunDiscoveryCallback, iter < Len(m_discovery_callbacks),
         UNCHANGED <<m_discovery_callbacks, m_pending_discovery_callbacks, discovery, asked>>
  PROVE  DiscoveryInv'
<1> DEFINE done == Len(discovered)
           run == [cb |-> m_discovery_callbacks[iter + 1], kind |-> discovery]
           D == [cb : Callback, kind : {"full", "incremental"}]
<1>1. /\ m_discovery_callbacks \in Seq(Callback) /\ iter \in Nat
      /\ m_pending_discovery_callbacks \in Seq(Entry) /\ asked \in Seq(BOOLEAN)
      /\ discovered \in Seq(D)
  BY DEF TypeInv, TypeOK, Entry
<1>2. /\ done \in Nat /\ Len(m_discovery_callbacks) \in Nat /\ Len(asked) \in Nat
      /\ Len(m_pending_discovery_callbacks) \in Nat /\ DOMAIN discovered = 1..done
  BY <1>1
<1>3. /\ Len(asked) = done + (Len(m_discovery_callbacks) - iter)
                        + Len(m_pending_discovery_callbacks)
      /\ \A i \in (iter + 1)..Len(m_discovery_callbacks) :
           /\ m_discovery_callbacks[i] = done + i - iter
           /\ asked[m_discovery_callbacks[i]] => discovery = "full"
      /\ \A i \in DOMAIN m_pending_discovery_callbacks :
           /\ m_pending_discovery_callbacks[i].cb =
                done + (Len(m_discovery_callbacks) - iter) + i
           /\ m_pending_discovery_callbacks[i].full = asked[m_pending_discovery_callbacks[i].cb]
  BY DEF DiscoveryInv, Unserved
<1>4. iter + 1 \in (iter + 1)..Len(m_discovery_callbacks) /\ done + (iter + 1) - iter = done + 1
  BY <1>1, <1>2
<1>5. run.cb = done + 1 /\ (asked[done + 1] => run.kind = "full")
  BY <1>3, <1>4
<1>6. discovered' = Append(discovered, run) /\ iter' = iter + 1
  BY DEF RunDiscoveryCallback
<1> HIDE DEF run
<1>7. /\ Len(discovered') = done + 1 /\ DOMAIN discovered' = 1..(done + 1)
      /\ \A i \in 1..done : discovered'[i] = discovered[i]
      /\ discovered'[done + 1] = run
  BY <1>1, <1>2, <1>6
<1>8. Served(discovered', asked)
  <2> SUFFICES ASSUME NEW i \in DOMAIN discovered'
               PROVE  discovered'[i].cb = i /\ (asked[i] => discovered'[i].kind = "full")
    BY DEF Served
  <2>1. CASE i \in 1..done
    BY <1>2, <1>7, <2>1 DEF DiscoveryInv, Served
  <2>2. CASE i = done + 1
    BY <1>5, <1>7, <2>2
  <2> QED
    BY <1>2, <1>7, <2>1, <2>2
<1>9. ASSUME NEW i \in (iter + 1 + 1)..Len(m_discovery_callbacks)
      PROVE  /\ m_discovery_callbacks[i] = done + 1 + i - (iter + 1)
             /\ asked[m_discovery_callbacks[i]] => discovery = "full"
  <2>1. i \in (iter + 1)..Len(m_discovery_callbacks)
        /\ done + 1 + i - (iter + 1) = done + i - iter
    BY <1>1, <1>2, <1>9
  <2> QED
    BY <1>3, <2>1
<1>10. /\ iter + 1 <= Len(m_discovery_callbacks)
       /\ done + 1 + (Len(m_discovery_callbacks) - (iter + 1))
            = done + (Len(m_discovery_callbacks) - iter)
  BY <1>1, <1>2
<1>11. Unserved(done + 1, m_discovery_callbacks, iter + 1,
                m_pending_discovery_callbacks, discovery, asked)
  BY <1>3, <1>9, <1>10 DEF Unserved
<1> QED
  BY <1>6, <1>7, <1>8, <1>11 DEF DiscoveryInv

LEMMA FinishServes ==
  ASSUME TypeInv, DiscoveryInv, FinishDiscoveryComplete
  PROVE  DiscoveryInv'
<1> DEFINE done == Len(discovered)
<1>1. /\ iter = Len(m_discovery_callbacks) /\ UNCHANGED <<asked, discovered>>
      /\ TakeNextAction(m_pending_requests, <<>>, m_pending_discovery_callbacks, stack')
  BY DEF FinishDiscoveryComplete, historyVars
<1>2. /\ m_pending_discovery_callbacks \in Seq(Entry) /\ asked \in Seq(BOOLEAN)
      /\ done \in Nat /\ iter \in Nat /\ <<>> \in Seq(Callback)
      /\ Len(m_pending_discovery_callbacks) \in Nat
      /\ DOMAIN m_pending_discovery_callbacks = 1..Len(m_pending_discovery_callbacks)
  BY DEF TypeInv, TypeOK, Entry
<1>3. /\ Len(m_discovery_callbacks) - iter = 0
      /\ Len(<<>>) - 0 = 0 /\ (0 + 1)..Len(<<>>) = {} /\ 0 <= Len(<<>>)
  BY <1>1, <1>2
<1>4. Unserved(done, <<>>, 0, m_pending_discovery_callbacks, discovery, asked)
  BY <1>2, <1>3 DEF DiscoveryInv, Unserved
<1>5. Unserved(done, m_discovery_callbacks', iter', m_pending_discovery_callbacks',
               discovery', asked)
  BY <1>1, <1>2, <1>4, TakeNextActionServes
<1> QED
  BY <1>1, <1>5 DEF DiscoveryInv

\* Each discovery callback runs once, in the order of the calls, although those
\* that run inside DiscoveryComplete may ask for discovery again, and a caller
\* that asked for a full discovery is served by one: for any nesting of calls,
\* with Resume() and between the parts of ACK_OVERFLOW sequences too.
THEOREM DiscoveryHolds == Spec => []DiscoveryExactlyOnce
<1>1. Init => DiscoveryInv
  <2> SUFFICES ASSUME Init PROVE DiscoveryInv
    OBVIOUS
  <2>1. /\ Len(<<>>) = 0 /\ DOMAIN <<>> = {} /\ (0 + 1)..0 = {} /\ 0 <= 0
        /\ 0 = 0 + (0 - 0) + 0
    OBVIOUS
  <2> QED
    BY <2>1 DEF Init, DiscoveryInv, Unserved, Served
<1>2. TypeInv /\ DiscoveryInv /\ [Next]_vars => DiscoveryInv'
  <2> SUFFICES ASSUME TypeInv, DiscoveryInv, [Next]_vars PROVE DiscoveryInv'
    OBVIOUS
  <2>1. CASE UNCHANGED <<m_discovery_callbacks, m_pending_discovery_callbacks, discovery,
                         iter, asked, discovered>>
    BY <2>1 DEF DiscoveryInv
  <2>2. CASE SendRDMRequest
    <3>1. /\ UNCHANGED <<asked, discovered>>
          /\ \E queue : TakeNextAction(queue, m_discovery_callbacks,
                                       m_pending_discovery_callbacks, stack)
      BY <2>2 DEF SendRDMRequest
    <3> QED
      BY <3>1, TakesNextAction
  <2>3. CASE FinishHandleRDMResponse
    <3>1. /\ UNCHANGED <<asked, discovered>>
          /\ \E stk : TakeNextAction(m_pending_requests, m_discovery_callbacks,
                                     m_pending_discovery_callbacks, stk)
      BY <2>3 DEF FinishHandleRDMResponse, historyVars
    <3> QED
      BY <3>1, TakesNextAction
  <2>4. CASE DiscoveryComplete
    <3>1. iter < Len(m_discovery_callbacks)
      BY <2>4 DEF DiscoveryComplete, TypeInv, TypeOK, DiscoveryState
    <3> QED
      BY <2>4, <3>1, RunServes DEF DiscoveryComplete
  <2>5. CASE NextDiscoveryCallback
    BY <2>5, RunServes DEF NextDiscoveryCallback
  <2>6. CASE DropRDMRequest \/ Pause \/ Resume \/ Destroy \/ Reply \/ ControllerReturns
             \/ UNCHANGED vars
    BY <2>1, <2>6 DEF DropRDMRequest, Pause, Resume, Destroy, Reply, HandleRDMResponse,
                      ControllerReturns, vars, discoveryVars, historyVars
  <2> QED
    BY <2>2, <2>3, <2>4, <2>5, <2>6, DiscoverServes, FinishServes DEF Next
<1> QED
  BY <1>1, <1>2, DiscoveryInvImplies, TypeCorrect, PTL DEF Spec, TypeInv

=============================================================================
