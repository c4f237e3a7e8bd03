-------------------------- MODULE SelectServerProofs --------------------------
(***************************************************************************)
(* Proofs about SelectServer, for any number of threads and any bound on   *)
(* the callbacks they add.                                                 *)
(***************************************************************************)
EXTENDS SelectServer, SequenceTheorems, TLAPS

\* What is at the bottom of the stack says where the loop is; what is above it
\* is a DrainCallbacks() that a callback or a handler has called.
StackShape ==
  /\ \A f \in DOMAIN stack :
       /\ f > 1 => stack[f].what = "drain"
       /\ stack[f].what = "event" => stack[f].left = <<>>
  /\ stack # <<>> =>
       /\ stack[1].what = "batch" => loop = "run"
       /\ stack[1].what = "event" => loop = "event"
       /\ stack[1].what = "drain" => loop \in {"out", "dying"}

TypeInv == TypeOK /\ StackShape

-----------------------------------------------------------------------------
(* Stacks.                                                                  *)

LEMMA PushFacts ==
  ASSUME NEW s \in Seq(Frame), NEW frame \in Frame
  PROVE  /\ Append(s, frame) \in Seq(Frame)
         /\ Len(Append(s, frame)) = Len(s) + 1
         /\ DOMAIN Append(s, frame) = 1..(Len(s) + 1)
         /\ Append(s, frame)[Len(s) + 1] = frame
         /\ \A f \in 1..Len(s) : Append(s, frame)[f] = s[f]
         /\ Append(s, frame) # <<>>
OBVIOUS

LEMMA PopFacts ==
  ASSUME NEW s \in Seq(Frame), s # <<>>
  PROVE  /\ SubSeq(s, 1, Len(s) - 1) \in Seq(Frame)
         /\ Len(SubSeq(s, 1, Len(s) - 1)) = Len(s) - 1
         /\ Len(s) - 1 \in Nat
         /\ \A f \in 1..(Len(s) - 1) : SubSeq(s, 1, Len(s) - 1)[f] = s[f]
         /\ Len(s) = 1 <=> SubSeq(s, 1, Len(s) - 1) = <<>>
<1>1. Len(s) \in Nat /\ Len(s) - 1 \in Nat /\ Len(s) - 1 <= Len(s)
  OBVIOUS
<1> DEFINE p == SubSeq(s, 1, Len(s) - 1)
<1>2. /\ p \in Seq(Frame) /\ Len(p) = Len(s) - 1
      /\ \A f \in 1..(Len(s) - 1) : p[f] = s[f]
  <2>1. /\ 1 \in Int /\ Len(s) - 1 \in Int
        /\ \A i \in 1..(Len(s) - 1) : s[i] \in Frame
    BY <1>1
  <2>2. /\ p \in Seq(Frame)
        /\ Len(p) = IF 1 <= Len(s) - 1 THEN Len(s) - 1 - 1 + 1 ELSE 0
        /\ \A i \in 1..(Len(s) - 1 - 1 + 1) : p[i] = s[1 + i - 1]
    BY <2>1, SubSeqProperties
  <2> HIDE DEF p
  <2>3. Len(p) = Len(s) - 1
    <3>1. CASE Len(s) = 1
      BY <2>2, <3>1
    <3>2. CASE Len(s) # 1
      <4>1. \A n \in Nat : n - 1 \in Nat /\ n # 1 => 1 <= n - 1 /\ n - 1 - 1 + 1 = n - 1
        OBVIOUS
      <4>2. 1 <= Len(s) - 1 /\ Len(s) - 1 - 1 + 1 = Len(s) - 1
        BY <1>1, <3>2, <4>1
      <4> QED
        BY <2>2, <4>2
    <3> QED
      BY <3>1, <3>2
  <2>4. ASSUME NEW f \in 1..(Len(s) - 1) PROVE p[f] = s[f]
    <3>1. f \in 1..(Len(s) - 1 - 1 + 1) /\ 1 + f - 1 = f
      BY <1>1
    <3> QED
      BY <2>2, <3>1
  <2> QED
    BY <2>2, <2>3, <2>4
<1> HIDE DEF p
<1>3. Len(s) = 1 <=> p = <<>>
  BY <1>1, <1>2, EmptySeq
<1> QED
  BY <1>1, <1>2, <1>3 DEF p

LEMMA ReplaceFacts ==
  ASSUME stack \in Seq(Frame), stack # <<>>, NEW frame \in Frame,
         stack' = ReplaceTop(frame)
  PROVE  /\ stack' \in Seq(Frame)
         /\ Len(stack') = Len(stack)
         /\ DOMAIN stack' = 1..Len(stack)
         /\ stack'[Len(stack)] = frame
         /\ \A f \in 1..(Len(stack) - 1) : stack'[f] = stack[f]
         /\ stack' # <<>>
<1>1. PICK p \in Seq(Frame) :
        /\ p = SubSeq(stack, 1, Len(stack) - 1)
        /\ Len(p) = Len(stack) - 1
        /\ \A f \in 1..(Len(stack) - 1) : p[f] = stack[f]
  BY PopFacts
<1>2. stack' = Append(p, frame) /\ Len(stack) \in Nat /\ Len(p) \in Nat
  BY <1>1 DEF ReplaceTop, Pop
<1>3. /\ stack' \in Seq(Frame)
      /\ Len(stack') = Len(p) + 1
      /\ DOMAIN stack' = 1..(Len(p) + 1)
      /\ stack'[Len(p) + 1] = frame
      /\ \A f \in 1..Len(p) : stack'[f] = p[f]
      /\ stack' # <<>>
  BY <1>2, PushFacts
<1> QED
  BY <1>1, <1>2, <1>3

\* The frame on top, and the places of a stack that is not empty.
LEMMA TopType ==
  ASSUME stack \in Seq(Frame), stack # <<>>
  PROVE  /\ Top \in Frame
         /\ Top.left \in Seq(Callback)
         /\ Len(stack) \in Nat /\ Len(stack) >= 1
         /\ DOMAIN stack = 1..Len(stack)
<1>1. Len(stack) \in Nat /\ Len(stack) >= 1 /\ DOMAIN stack = 1..Len(stack)
  OBVIOUS
<1>2. Top \in Frame
  BY <1>1 DEF Top
<1>3. Top.left \in Seq(Callback)
  BY <1>2 DEF Frame
<1> QED
  BY <1>1, <1>2, <1>3

\* DrainCallbacks() nests in what user code is in the middle of.
LEMMA NestShape ==
  ASSUME TypeInv, stack # <<>>, NEW frame \in Frame,
         frame.what = "drain", stack' = Push(frame), loop' = loop
  PROVE  stack' \in Seq(Frame) /\ stack' # <<>> /\ StackShape'
<1>1. stack \in Seq(Frame) /\ Len(stack) \in Nat /\ Len(stack) >= 1
  BY DEF TypeInv, TypeOK
<1>2. /\ stack' \in Seq(Frame)
      /\ DOMAIN stack' = 1..(Len(stack) + 1)
      /\ stack'[Len(stack) + 1] = frame
      /\ \A f \in 1..Len(stack) : stack'[f] = stack[f]
      /\ stack' # <<>>
  BY <1>1, PushFacts DEF Push
<1>3. stack'[1] = stack[1]
  BY <1>1, <1>2
<1>4. \A f \in DOMAIN stack' : f = Len(stack) + 1 \/ f \in DOMAIN stack
  BY <1>1, <1>2
<1>5. \A f \in DOMAIN stack : stack'[f] = stack[f]
  BY <1>1, <1>2
<1> QED
  BY <1>2, <1>3, <1>4, <1>5 DEF TypeInv, StackShape

\* The loop's thread enters a batch, a handler or a DrainCallbacks().
LEMMA EnterShape ==
  ASSUME stack = <<>>, NEW frame \in Frame, stack' = Push(frame),
         frame.what = "batch" => loop' = "run",
         frame.what = "event" => loop' = "event" /\ frame.left = <<>>,
         frame.what = "drain" => loop' \in {"out", "dying"}
  PROVE  stack' \in Seq(Frame) /\ stack' # <<>> /\ StackShape'
<1>1. stack \in Seq(Frame) /\ Len(stack) = 0
  OBVIOUS
<1>2. /\ stack' \in Seq(Frame)
      /\ DOMAIN stack' = 1..(Len(stack) + 1)
      /\ stack'[Len(stack) + 1] = frame
      /\ stack' # <<>>
  BY <1>1, PushFacts DEF Push
<1>3. stack'[1] = frame /\ \A f \in DOMAIN stack' : f = 1
  BY <1>1, <1>2
<1> QED
  BY <1>2, <1>3 DEF StackShape

\* The frame on top moves on.
LEMMA MoveShape ==
  ASSUME TypeInv, stack # <<>>, NEW frame \in Frame,
         frame.what = Top.what, frame.what = "event" => frame.left = <<>>,
         stack' = ReplaceTop(frame), loop' = loop
  PROVE  stack' \in Seq(Frame) /\ stack' # <<>> /\ StackShape'
<1>1. stack \in Seq(Frame) /\ Len(stack) \in Nat /\ Len(stack) >= 1
      /\ DOMAIN stack = 1..Len(stack)
  BY DEF TypeInv, TypeOK
<1>2. /\ stack' \in Seq(Frame)
      /\ DOMAIN stack' = 1..Len(stack)
      /\ stack'[Len(stack)] = frame
      /\ \A f \in 1..(Len(stack) - 1) : stack'[f] = stack[f]
      /\ stack' # <<>>
  BY <1>1, ReplaceFacts
<1>3. \A f \in DOMAIN stack : f = Len(stack) \/ f \in 1..(Len(stack) - 1)
  BY <1>1
<1>4. \A f \in DOMAIN stack : stack'[f].what = stack[f].what
  BY <1>2, <1>3 DEF Top
<1>5. \A f \in DOMAIN stack : stack[f].what = "event" => stack'[f].left = <<>>
  BY <1>2, <1>3 DEF Top, TypeInv, StackShape
<1>6. 1 \in DOMAIN stack
  BY <1>1
<1> QED
  BY <1>1, <1>2, <1>4, <1>5, <1>6 DEF TypeInv, StackShape

\* A batch, a handler or a DrainCallbacks() returns.
LEMMA PopShape ==
  ASSUME TypeInv, stack # <<>>, stack' = Pop
  PROVE  /\ stack' \in Seq(Frame)
         /\ Len(stack) = 1 <=> stack' = <<>>
         /\ stack' = <<>> \/ loop' = loop => StackShape'
<1>1. stack \in Seq(Frame) /\ Len(stack) \in Nat /\ Len(stack) >= 1
      /\ DOMAIN stack = 1..Len(stack)
  BY DEF TypeInv, TypeOK
<1>2. /\ stack' \in Seq(Frame)
      /\ Len(stack') = Len(stack) - 1
      /\ \A f \in 1..(Len(stack) - 1) : stack'[f] = stack[f]
      /\ Len(stack) = 1 <=> stack' = <<>>
  BY <1>1, PopFacts DEF Pop
<1>3. DOMAIN stack' = 1..(Len(stack) - 1)
  BY <1>2
<1>4. CASE stack' = <<>>
  <2>1. DOMAIN stack' = {}
    BY <1>4
  <2> QED
    BY <1>2, <1>4, <2>1 DEF StackShape
<1>5. CASE stack' # <<>> /\ loop' = loop
  <2>1. \A f \in DOMAIN stack' : f \in DOMAIN stack /\ stack'[f] = stack[f]
    BY <1>1, <1>2, <1>3
  <2>2. stack'[1] = stack[1]
    BY <1>1, <1>2, <1>5
  <2> QED
    BY <1>2, <1>5, <2>1, <2>2 DEF TypeInv, StackShape
<1> QED
  BY <1>2, <1>4, <1>5

\* Only the bottom of the stack is a batch or a handler, and it says where the
\* loop is.
LEMMA Bottom ==
  ASSUME TypeInv, stack # <<>>
  PROVE  /\ Top.what \in {"batch", "event"} => Len(stack) = 1
         /\ Len(stack) = 1 /\ Top.what = "drain" => loop \in {"out", "dying"}
         /\ loop \in {"out", "event", "run", "dying"}
<1>1. stack \in Seq(Frame) /\ Len(stack) \in Nat /\ Len(stack) >= 1
      /\ DOMAIN stack = 1..Len(stack)
  BY DEF TypeInv, TypeOK
<1>2. Len(stack) > 1 => Top.what = "drain"
  BY <1>1 DEF Top, TypeInv, StackShape
<1>3. Len(stack) = 1 => Top = stack[1]
  BY DEF Top
<1>4. stack[1] \in Frame
  BY <1>1
<1> QED
  BY <1>1, <1>2, <1>3, <1>4 DEF TypeInv, StackShape, Frame

-----------------------------------------------------------------------------
(* Types and the shape of the stack.                                        *)

\* A callback that is added gets the next number.
LEMMA AddCallbackType ==
  ASSUME TypeOK, NEW kind \in Kind, AddCallback(kind)
  PROVE  added' \in Seq(Kind) /\ m_incoming_callbacks' \in Seq(Callback)
<1>1. Len(added) + 1 \in Callback
  BY ConstantsAssumption DEF TypeOK, AddCallback, Callback
<1> QED
  BY <1>1 DEF TypeOK, AddCallback

\* What does not touch the stack.
LEMMA ThreadTypes ==
  ASSUME TypeInv, NEW t \in Thread,
         Execute(t) \/ Send(t) \/ Terminate(t) \/ ExecuteSetTerminate(t)
  PROVE  TypeInv'
<1> USE DEF TypeInv, TypeOK, StackShape, loopVars, flagVars
<1>1. CASE Execute(t)
  BY <1>1, AddCallbackType DEF Execute, Kind
<1>2. CASE Send(t)
  BY <1>2 DEF Send
<1>3. CASE Terminate(t)
  BY <1>3 DEF Terminate
<1>4. CASE ExecuteSetTerminate(t)
  BY <1>4, AddCallbackType DEF ExecuteSetTerminate, Kind
<1> QED
  BY <1>1, <1>2, <1>3, <1>4

LEMMA LoopTypes ==
  ASSUME TypeInv,
         Run \/ RunOnce \/ TestTerminate \/ SelectReturns \/ PollFails \/ ReadLoopback
  PROVE  TypeInv'
<1> USE DEF TypeInv, TypeOK, StackShape, flagVars
<1>1. CASE Run
  BY <1>1 DEF Run
<1>2. CASE RunOnce
  BY <1>2 DEF RunOnce
<1>3. CASE TestTerminate
  BY <1>3 DEF TestTerminate
<1>4. CASE SelectReturns
  BY <1>4 DEF SelectReturns
<1>5. CASE ReadLoopback
  BY <1>5 DEF ReadLoopback
<1>6. CASE PollFails
  BY <1>6 DEF PollFails
<1> QED
  BY <1>1, <1>2, <1>3, <1>4, <1>5, <1>6

LEMMA DrainFrameType ==
  ASSUME TypeOK
  PROVE  /\ DrainFrame \in Frame
         /\ DrainFrame.what = "drain"
         /\ DrainFrame.left = <<>>
BY DEF TypeOK, DrainFrame, Frame

\* The frames that begin.
LEMMA PushTypes ==
  ASSUME TypeInv, DrainCallbacks \/ HandleEvent \/ SwapCallbacks \/ Destroy
  PROVE  TypeInv'
<1>0. TypeOK
  BY DEF TypeInv
<1>1. CASE DrainCallbacks
  <2>1. stack' \in Seq(Frame) /\ stack' # <<>> /\ StackShape'
    <3>1. stack' = Push(DrainFrame) /\ loop' = loop
      BY <1>1 DEF DrainCallbacks, loopVars
    <3>2. CASE stack = <<>>
      <4>1. loop' = "out"
        BY <1>1, <3>1, <3>2 DEF DrainCallbacks, InUserCode
      <4> QED
        BY <1>0, <3>1, <3>2, <4>1, DrainFrameType, EnterShape
    <3>3. CASE stack # <<>>
      BY <1>0, <3>1, <3>3, DrainFrameType, NestShape
    <3> QED
      BY <3>2, <3>3
  <2>2. loop \in {"out", "event", "run", "dying"}
    BY <1>1, Bottom DEF DrainCallbacks, InUserCode
  <2>3. nested' \in BOOLEAN
    BY <1>1 DEF DrainCallbacks, TypeInv, TypeOK
  <2> QED
    BY <1>1, <2>1, <2>2, <2>3 DEF DrainCallbacks, TypeInv, TypeOK, loopVars, flagVars
<1>2. CASE HandleEvent
  <2> DEFINE frame == [what |-> "event", left |-> <<>>, busy |-> TRUE, from |-> Len(added)]
  <2>1. frame \in Frame
    BY <1>0 DEF TypeOK, Frame
  <2>2. stack = <<>> /\ stack' = Push(frame) /\ loop' = "event"
    BY <1>2 DEF HandleEvent
  <2>3. stack' \in Seq(Frame) /\ stack' # <<>> /\ StackShape'
    BY <2>1, <2>2, EnterShape
  <2> QED
    BY <1>2, <2>3 DEF HandleEvent, TypeInv, TypeOK, flagVars
<1>3. CASE SwapCallbacks
  <2> DEFINE frame == [what |-> "batch", left |-> m_incoming_callbacks, busy |-> FALSE,
                       from |-> Len(added)]
  <2>1. frame \in Frame
    BY <1>0 DEF TypeOK, Frame
  <2>2. stack = <<>> /\ stack' = Push(frame) /\ loop' = "run"
    BY <1>0, <1>3 DEF SwapCallbacks, TypeOK
  <2>3. stack' \in Seq(Frame) /\ stack' # <<>> /\ StackShape'
    BY <2>1, <2>2, EnterShape
  <2>4. m_incoming_callbacks' \in Seq(Callback)
    BY <1>3 DEF SwapCallbacks
  <2> QED
    BY <1>3, <2>3, <2>4 DEF SwapCallbacks, TypeInv, TypeOK, flagVars
<1>4. CASE Destroy
  <2>1. stack = <<>> /\ stack' = Push(DrainFrame) /\ loop' = "dying"
    BY <1>4 DEF Destroy
  <2>2. stack' \in Seq(Frame) /\ stack' # <<>> /\ StackShape'
    BY <1>0, <2>1, DrainFrameType, EnterShape
  <2> QED
    BY <1>4, <2>2 DEF Destroy, TypeInv, TypeOK, flagVars
<1> QED
  BY <1>1, <1>2, <1>3, <1>4

\* The frames that move on.
LEMMA MoveTypes ==
  ASSUME TypeInv,
         \/ \E kind \in Kind : LoopExecute(kind)
         \/ RunCallback
         \/ DrainMore
  PROVE  TypeInv'
<1>0. TypeOK
  BY DEF TypeInv
<1>1. ASSUME NEW kind \in Kind, LoopExecute(kind)
      PROVE  TypeInv'
  BY <1>0, <1>1, AddCallbackType
  DEF LoopExecute, TypeInv, TypeOK, StackShape, loopVars, flagVars
<1>2. CASE RunCallback
  <2>1. stack # <<>> /\ Top.left # <<>> /\ RunNext(Head(Top.left), Tail(Top.left))
    BY <1>2 DEF RunCallback, Idle
  <2>2. /\ Top \in Frame /\ Top.left \in Seq(Callback)
        /\ Head(Top.left) \in Callback /\ Tail(Top.left) \in Seq(Callback)
        /\ Top.what # "event"
    <3>1. Top \in Frame /\ Top.left \in Seq(Callback)
      BY <1>0, <2>1, TopType DEF TypeOK
    <3>2. Top.what # "event"
      <4>1. Len(stack) \in DOMAIN stack
        BY <1>0, <2>1, TopType DEF TypeOK
      <4> QED
        BY <2>1, <4>1 DEF TypeInv, StackShape, Top
    <3> QED
      BY <2>1, <3>1, <3>2
  <2> DEFINE frame == [Top EXCEPT !.left = Tail(Top.left),
                                  !.busy = (added[Head(Top.left)] = "plain")]
  <2>3. frame \in Frame /\ frame.what = Top.what
    BY <2>2 DEF Frame
  <2>4. stack' = ReplaceTop(frame) /\ loop' = loop
    BY <2>1 DEF RunNext
  <2> HIDE DEF frame
  <2>5. stack' \in Seq(Frame) /\ stack' # <<>> /\ StackShape'
    BY <2>1, <2>2, <2>3, <2>4, MoveShape
  <2>6. loop \in {"out", "event", "run", "dying"}
    BY <2>1, Bottom
  <2>7. ran' \in Seq(Callback) /\ m_terminate' \in BOOLEAN
    BY <1>0, <2>1, <2>2 DEF RunNext, TypeOK
  <2> QED
    BY <2>1, <2>5, <2>6, <2>7 DEF RunNext, TypeInv, TypeOK
<1>3. CASE DrainMore
  <2>1. stack # <<>> /\ Top.what = "drain" /\ loop' = loop
    BY <1>3 DEF DrainMore, Idle, loopVars
  <2> DEFINE frame == [Top EXCEPT !.left = m_incoming_callbacks]
  <2>2. frame \in Frame /\ frame.what = Top.what
    BY <1>0, <2>1, TopType DEF TypeOK, Frame
  <2>3. stack' = ReplaceTop(frame)
    BY <1>3 DEF DrainMore
  <2> HIDE DEF frame
  <2>4. stack' \in Seq(Frame) /\ stack' # <<>> /\ StackShape'
    BY <2>1, <2>2, <2>3, MoveShape
  <2>5. loop \in {"out", "event", "run", "dying"}
    BY <2>1, Bottom
  <2>6. m_incoming_callbacks' \in Seq(Callback)
    BY <1>3 DEF DrainMore
  <2> QED
    BY <1>3, <2>4, <2>5, <2>6 DEF DrainMore, TypeInv, TypeOK, loopVars, flagVars
<1> QED
  BY <1>1, <1>2, <1>3

\* The frames that end.
LEMMA PopTypes ==
  ASSUME TypeInv, Return \/ FinishBatch \/ DrainReturns
  PROVE  TypeInv'
<1>0. TypeOK /\ stack # <<>> /\ Top \in Frame
  BY TopType DEF TypeInv, TypeOK, Return, FinishBatch, DrainReturns, InUserCode, Idle
<1>b. loop \in {"out", "event", "run", "dying"}
  BY <1>0, Bottom
<1>1. CASE Return /\ Top.what # "event"
  <2> DEFINE frame == [Top EXCEPT !.busy = FALSE]
  <2>1. frame \in Frame /\ frame.what = Top.what
    BY <1>0 DEF Frame
  <2>2. stack' = ReplaceTop(frame) /\ loop' = loop
    BY <1>1 DEF Return
  <2> HIDE DEF frame
  <2>3. stack' \in Seq(Frame) /\ stack' # <<>> /\ StackShape'
    BY <1>0, <1>1, <2>1, <2>2, MoveShape
  <2> QED
    BY <1>b, <1>1, <2>2, <2>3 DEF Return, TypeInv, TypeOK, flagVars
<1>2. CASE (Return /\ Top.what = "event") \/ FinishBatch
  <2>1. Top.what \in {"batch", "event"} /\ stack' = Pop /\ loop' = "select"
    BY <1>2 DEF Return, FinishBatch
  <2>2. Len(stack) = 1 /\ loop \in {"event", "run"}
    <3>1. Len(stack) = 1
      BY <1>0, <2>1, Bottom
    <3>2. Top = stack[1]
      BY <3>1 DEF Top
    <3> QED
      BY <1>0, <2>1, <3>1, <3>2 DEF TypeInv, StackShape
  <2>3. stack' = <<>> /\ StackShape'
    BY <1>0, <2>1, <2>2, PopShape
  <2>4. stack' \in Seq(Frame)
    BY <2>3
  <2> QED
    BY <1>2, <2>1, <2>2, <2>3, <2>4 DEF Return, FinishBatch, TypeInv, TypeOK, flagVars
<1>3. CASE DrainReturns
  <2>1. Top.what = "drain" /\ stack' = Pop
    BY <1>3 DEF DrainReturns
  <2>2. /\ stack' \in Seq(Frame)
        /\ Len(stack) = 1 <=> stack' = <<>>
        /\ stack' = <<>> \/ loop' = loop => StackShape'
    BY <1>0, <2>1, PopShape
  <2>3. StackShape' /\ (loop' = "dead" => stack' = <<>>)
    BY <1>b, <1>3, <2>2 DEF DrainReturns
  <2>4. stack' = <<>> => loop \in {"out", "dying"}
    BY <1>0, <2>1, <2>2, Bottom
  <2> QED
    BY <1>b, <1>3, <2>2, <2>3, <2>4 DEF DrainReturns, TypeInv, TypeOK, flagVars
<1> QED
  BY <1>1, <1>2, <1>3

LEMMA TypeInductive ==
  /\ Init => TypeInv
  /\ TypeInv /\ [Next]_vars => TypeInv'
<1>1. Init => TypeInv
  <2> SUFFICES ASSUME Init PROVE TypeInv
    OBVIOUS
  <2>1. <<>> \in Seq(Callback) /\ <<>> \in Seq(Kind) /\ <<>> \in Seq(Frame)
    OBVIOUS
  <2>2. DOMAIN stack = {}
    BY DEF Init
  <2>3. TypeOK
    BY <2>1 DEF Init, TypeOK
  <2> QED
    BY <2>2, <2>3 DEF Init, TypeInv, StackShape
<1>2. TypeInv /\ UNCHANGED vars => TypeInv'
  BY DEF vars, loopVars, flagVars, TypeInv, TypeOK, StackShape
<1>3. TypeInv /\ Next => TypeInv'
  BY ThreadTypes, LoopTypes, PushTypes, MoveTypes, PopTypes DEF Next
<1> QED
  BY <1>1, <1>2, <1>3

\* TypeOK is an invariant: among other things m_is_running is TRUE exactly
\* within Run() and RunOnce(), and the loop's thread sits in select() or swaps
\* the queue only when nothing of its own is in the middle of running.
THEOREM TypeCorrect == Spec => []TypeOK
<1>1. TypeInv => TypeOK
  BY DEF TypeInv
<1> QED
  BY <1>1, TypeInductive, PTL DEF Spec

-----------------------------------------------------------------------------
(* No wakeup is lost.                                                       *)

LEMMA WakeupStep ==
  ASSUME TypeInv, NoLostWakeup, [Next]_vars
  PROVE  NoLostWakeup'
<1> USE DEF NoLostWakeup, loopVars, flagVars
<1>0. pc \in [Thread -> {"idle", "send", "terminate"}]
  BY DEF TypeInv, TypeOK
<1>s. stack # <<>> => loop # "swap"
  BY DEF TypeInv, TypeOK
<1>1. ASSUME NEW t \in Thread,
             Execute(t) \/ Send(t) \/ Terminate(t) \/ ExecuteSetTerminate(t)
      PROVE  NoLostWakeup'
  <2>1. CASE Execute(t) \/ ExecuteSetTerminate(t)
    BY <1>0, <2>1 DEF Execute, ExecuteSetTerminate
  <2>2. CASE Send(t)
    BY <2>2 DEF Send
  <2>3. CASE Terminate(t)
    BY <1>0, <2>3 DEF Terminate
  <2> QED
    BY <1>1, <2>1, <2>2, <2>3
<1>2. ASSUME NEW kind \in Kind, LoopExecute(kind)
      PROVE  NoLostWakeup'
  BY <1>2 DEF LoopExecute
<1>3. CASE DrainCallbacks \/ Run \/ RunOnce \/ TestTerminate \/ HandleEvent
           \/ SelectReturns \/ PollFails \/ Destroy
  BY <1>3 DEF DrainCallbacks, Run, RunOnce, TestTerminate, HandleEvent,
              SelectReturns, PollFails, Destroy
<1>4. CASE Return \/ FinishBatch
  BY <1>s, <1>4 DEF Return, FinishBatch, InUserCode, Idle
<1>5. CASE ReadLoopback
  BY <1>5 DEF ReadLoopback
<1>6. CASE SwapCallbacks \/ DrainMore \/ DrainReturns
  BY <1>6 DEF SwapCallbacks, DrainMore, DrainReturns
<1>7. CASE RunCallback
  BY <1>7 DEF RunCallback, RunNext
<1>8. CASE UNCHANGED vars
  BY <1>8 DEF vars
<1> QED
  BY <1>1, <1>2, <1>3, <1>4, <1>5, <1>6, <1>7, <1>8 DEF Next

\* select() never sleeps on a queued callback, whatever the number of threads
\* that call Execute() and wherever they are between its two steps: the bytes
\* are read before the queue is swapped, so a callback that comes between the
\* two is taken, and one that comes after has its own wakeup under way.
THEOREM WakeupNotLost == Spec => []NoLostWakeup
<1>1. Init => NoLostWakeup
  BY DEF Init, NoLostWakeup
<1>2. TypeInv /\ NoLostWakeup /\ [Next]_vars => NoLostWakeup'
  BY WakeupStep
<1> QED
  BY <1>1, <1>2, TypeInductive, PTL DEF Spec

-----------------------------------------------------------------------------
(* Callbacks run in the order they are added.                               *)

\* The callbacks left to run in the innermost batch.
Left == IF stack = <<>> THEN <<>> ELSE Top.left

\* The callbacks 1..n that were added are, in order, those of done, then those
\* of left and then those of queue.
InOrder(done, left, queue, n) ==
  /\ n = Len(done) + Len(left) + Len(queue)
  /\ \A k \in 1..Len(done) : done[k] = k
  /\ \A k \in 1..Len(left) : left[k] = Len(done) + k
  /\ \A k \in 1..Len(queue) : queue[k] = Len(done) + Len(left) + k

\* Only the innermost batch has callbacks left.
InnermostLeft == \A f \in DOMAIN stack : f < Len(stack) => stack[f].left = <<>>

OrderInv ==
  ~nested =>
    /\ InnermostLeft
    /\ InOrder(ran, Left, m_incoming_callbacks, Len(added))

LEMMA AddInOrder ==
  ASSUME NEW done \in Seq(Callback), NEW left \in Seq(Callback),
         NEW queue \in Seq(Callback), NEW n \in Nat,
         InOrder(done, left, queue, n), NEW more, more = Append(queue, n + 1),
         NEW m, m = n + 1
  PROVE  InOrder(done, left, more, m)
<1>1. /\ Len(done) \in Nat /\ Len(left) \in Nat /\ Len(queue) \in Nat
      /\ n = Len(done) + Len(left) + Len(queue)
  BY DEF InOrder
<1>2. /\ Len(more) = Len(queue) + 1
      /\ more[Len(queue) + 1] = n + 1
      /\ \A k \in 1..Len(queue) : more[k] = queue[k]
  OBVIOUS
<1>3. \A k \in 1..Len(more) : more[k] = Len(done) + Len(left) + k
  <2> SUFFICES ASSUME NEW k \in 1..(Len(queue) + 1)
               PROVE  more[k] = Len(done) + Len(left) + k
    BY <1>2
  <2>1. CASE k = Len(queue) + 1
    BY <1>1, <1>2, <2>1
  <2>2. CASE k \in 1..Len(queue)
    BY <1>2, <2>2 DEF InOrder
  <2> QED
    BY <1>1, <2>1, <2>2
<1> QED
  BY <1>1, <1>2, <1>3 DEF InOrder

LEMMA TakeInOrder ==
  ASSUME NEW done \in Seq(Callback), NEW queue \in Seq(Callback), NEW n \in Nat,
         InOrder(done, <<>>, queue, n)
  PROVE  InOrder(done, queue, <<>>, n)
<1>1. Len(done) \in Nat /\ Len(queue) \in Nat /\ Len(<<>>) = 0
  OBVIOUS
<1> QED
  BY <1>1 DEF InOrder

LEMMA RunInOrder ==
  ASSUME NEW done \in Seq(Callback), NEW left \in Seq(Callback), left # <<>>,
         NEW queue \in Seq(Callback), NEW n \in Nat,
         InOrder(done, left, queue, n),
         NEW longer, longer = Append(done, Head(left)),
         NEW rest, rest = Tail(left)
  PROVE  InOrder(longer, rest, queue, n)
<1>1. /\ Len(done) \in Nat /\ Len(left) \in Nat /\ Len(queue) \in Nat
      /\ Len(left) >= 1
      /\ n = Len(done) + Len(left) + Len(queue)
  BY DEF InOrder
<1>2. /\ Len(longer) = Len(done) + 1
      /\ longer[Len(done) + 1] = left[1]
      /\ \A k \in 1..Len(done) : longer[k] = done[k]
      /\ Len(rest) = Len(left) - 1
      /\ \A k \in 1..(Len(left) - 1) : rest[k] = left[k + 1]
  OBVIOUS
<1>3. \A k \in 1..(Len(done) + 1) : longer[k] = k
  <2> SUFFICES ASSUME NEW k \in 1..(Len(done) + 1) PROVE longer[k] = k
    OBVIOUS
  <2>1. CASE k = Len(done) + 1
    <3>1. left[1] = Len(done) + 1
      BY <1>1 DEF InOrder
    <3> QED
      BY <1>2, <2>1, <3>1
  <2>2. CASE k \in 1..Len(done)
    BY <1>2, <2>2 DEF InOrder
  <2> QED
    BY <1>1, <2>1, <2>2
<1>4. ASSUME NEW k \in 1..(Len(left) - 1)
      PROVE  rest[k] = Len(done) + 1 + k
  <2>1. k + 1 \in 1..Len(left)
    BY <1>1
  <2>2. left[k + 1] = Len(done) + (k + 1)
    BY <2>1 DEF InOrder
  <2>3. rest[k] = left[k + 1]
    BY <1>2
  <2> QED
    BY <1>1, <2>2, <2>3
<1>5. \A k \in 1..Len(queue) : queue[k] = (Len(done) + 1) + (Len(left) - 1) + k
  <2>1. \A k \in 1..Len(queue) :
          Len(done) + Len(left) + k = (Len(done) + 1) + (Len(left) - 1) + k
    BY <1>1
  <2> QED
    BY <2>1 DEF InOrder
<1>6. n = (Len(done) + 1) + (Len(left) - 1) + Len(queue)
  BY <1>1
<1> QED
  BY <1>2, <1>3, <1>4, <1>5, <1>6 DEF InOrder

LEMMA LeftType ==
  ASSUME TypeOK
  PROVE  Left \in Seq(Callback)
<1>1. CASE stack = <<>>
  BY <1>1 DEF Left
<1>2. CASE stack # <<>>
  BY <1>2, TopType DEF Left, TypeOK
<1> QED
  BY <1>1, <1>2

\* What the changes of the stack do to the callbacks that are left.
LEMMA PushLeft ==
  ASSUME stack \in Seq(Frame), NEW frame \in Frame, stack' = Push(frame),
         \A f \in DOMAIN stack : stack[f].left = <<>>
  PROVE  Left = <<>> /\ Left' = frame.left /\ InnermostLeft'
<1>1. Len(stack) \in Nat /\ DOMAIN stack = 1..Len(stack)
  OBVIOUS
<1>2. /\ Len(stack') = Len(stack) + 1
      /\ DOMAIN stack' = 1..(Len(stack) + 1)
      /\ stack'[Len(stack) + 1] = frame
      /\ \A f \in 1..Len(stack) : stack'[f] = stack[f]
      /\ stack' # <<>>
  BY PushFacts DEF Push
<1>3. Left = <<>>
  <2>1. CASE stack = <<>>
    BY <2>1 DEF Left
  <2>2. CASE stack # <<>>
    <3>1. Len(stack) \in DOMAIN stack
      BY <2>2, TopType
    <3> QED
      BY <2>2, <3>1 DEF Left, Top
  <2> QED
    BY <2>1, <2>2
<1>4. Left' = frame.left
  BY <1>2 DEF Left, Top
<1>5. InnermostLeft'
  <2> SUFFICES ASSUME NEW f \in DOMAIN stack', f < Len(stack')
               PROVE  stack'[f].left = <<>>
    BY DEF InnermostLeft
  <2>1. f \in 1..Len(stack)
    BY <1>1, <1>2
  <2> QED
    BY <1>1, <1>2, <2>1
<1> QED
  BY <1>3, <1>4, <1>5

LEMMA MoveLeft ==
  ASSUME stack \in Seq(Frame), stack # <<>>, NEW frame \in Frame,
         stack' = ReplaceTop(frame), InnermostLeft
  PROVE  Left = Top.left /\ Left' = frame.left /\ InnermostLeft'
<1>1. Len(stack) \in Nat /\ DOMAIN stack = 1..Len(stack)
  OBVIOUS
<1>2. /\ Len(stack') = Len(stack)
      /\ DOMAIN stack' = 1..Len(stack)
      /\ stack'[Len(stack)] = frame
      /\ \A f \in 1..(Len(stack) - 1) : stack'[f] = stack[f]
      /\ stack' # <<>>
  BY ReplaceFacts
<1>3. Left = Top.left /\ Left' = frame.left
  BY <1>2 DEF Left, Top
<1>4. InnermostLeft'
  <2> SUFFICES ASSUME NEW f \in DOMAIN stack', f < Len(stack')
               PROVE  stack'[f].left = <<>>
    BY DEF InnermostLeft
  <2>1. f \in 1..(Len(stack) - 1) /\ f \in DOMAIN stack /\ f < Len(stack)
    BY <1>1, <1>2
  <2> QED
    BY <1>2, <2>1 DEF InnermostLeft
<1> QED
  BY <1>3, <1>4

LEMMA PopLeft ==
  ASSUME stack \in Seq(Frame), stack # <<>>, Top.left = <<>>, stack' = Pop,
         InnermostLeft
  PROVE  Left = <<>> /\ Left' = <<>> /\ InnermostLeft'
<1>1. Len(stack) \in Nat /\ Len(stack) >= 1 /\ DOMAIN stack = 1..Len(stack)
  OBVIOUS
<1>2. /\ stack' \in Seq(Frame)
      /\ Len(stack') = Len(stack) - 1
      /\ \A f \in 1..(Len(stack) - 1) : stack'[f] = stack[f]
  BY PopFacts DEF Pop
<1>3. DOMAIN stack' = 1..(Len(stack) - 1)
  BY <1>2
<1>4. \A f \in DOMAIN stack' : stack'[f].left = <<>>
  <2> SUFFICES ASSUME NEW f \in DOMAIN stack' PROVE stack'[f].left = <<>>
    OBVIOUS
  <2>1. f \in 1..(Len(stack) - 1) /\ f \in DOMAIN stack /\ f < Len(stack)
    BY <1>1, <1>3
  <2> QED
    BY <1>2, <2>1 DEF InnermostLeft
<1>5. Left' = <<>>
  <2>1. CASE stack' = <<>>
    BY <2>1 DEF Left
  <2>2. CASE stack' # <<>>
    <3>1. Len(stack') \in DOMAIN stack'
      BY <1>1, <1>2, <1>3, <2>2
    <3> QED
      BY <1>4, <2>2, <3>1 DEF Left, Top
  <2> QED
    BY <2>1, <2>2
<1> QED
  BY <1>4, <1>5 DEF Left, InnermostLeft

\* Execute() and Terminate(), in any thread.
LEMMA AddOrder ==
  ASSUME TypeInv, OrderInv, NEW kind \in Kind, AddCallback(kind),
         UNCHANGED <<stack, ran, nested>>
  PROVE  OrderInv'
<1> SUFFICES ASSUME ~nested
             PROVE  InnermostLeft' /\ InOrder(ran', Left', m_incoming_callbacks', Len(added'))
  BY DEF OrderInv
<1>1. Left' = Left /\ InnermostLeft'
  BY DEF Left, Top, OrderInv, InnermostLeft
<1>2. /\ ran \in Seq(Callback) /\ m_incoming_callbacks \in Seq(Callback)
      /\ Left \in Seq(Callback) /\ Len(added) \in Nat
  BY LeftType DEF TypeInv, TypeOK
<1>3. /\ m_incoming_callbacks' = Append(m_incoming_callbacks, Len(added) + 1)
      /\ Len(added') = Len(added) + 1
  BY DEF AddCallback, TypeInv, TypeOK
<1>4. InOrder(ran, Left, m_incoming_callbacks, Len(added))
  BY DEF OrderInv
<1>5. InOrder(ran, Left, m_incoming_callbacks', Len(added'))
  BY <1>2, <1>3, <1>4, AddInOrder
<1> QED
  BY <1>1, <1>5

LEMMA StutterOrder ==
  ASSUME OrderInv, UNCHANGED <<m_incoming_callbacks, added, stack, ran, nested>>
  PROVE  OrderInv'
BY DEF OrderInv, Left, Top, InnermostLeft, InOrder

\* A frame without callbacks begins or ends.
LEMMA EmptyOrder ==
  ASSUME TypeInv, OrderInv, UNCHANGED <<m_incoming_callbacks, added, ran>>,
         nested => nested',
         ~nested' => Left = <<>> /\ Left' = <<>> /\ InnermostLeft'
  PROVE  OrderInv'
BY DEF OrderInv

\* A frame takes over the queue.
LEMMA TakeOrder ==
  ASSUME TypeInv, OrderInv, UNCHANGED <<added, ran, nested>>,
         m_incoming_callbacks' = <<>>,
         ~nested => Left = <<>> /\ Left' = m_incoming_callbacks /\ InnermostLeft'
  PROVE  OrderInv'
<1> SUFFICES ASSUME ~nested
             PROVE  InnermostLeft' /\ InOrder(ran', Left', m_incoming_callbacks', Len(added'))
  BY DEF OrderInv
<1>1. /\ ran \in Seq(Callback) /\ m_incoming_callbacks \in Seq(Callback)
      /\ Len(added) \in Nat
  BY DEF TypeInv, TypeOK
<1>2. InOrder(ran, <<>>, m_incoming_callbacks, Len(added))
  BY DEF OrderInv
<1>3. InOrder(ran, m_incoming_callbacks, <<>>, Len(added))
  BY <1>1, <1>2, TakeInOrder
<1> QED
  BY <1>3

LEMMA PushOrder ==
  ASSUME TypeInv, OrderInv,
         DrainCallbacks \/ HandleEvent \/ SwapCallbacks \/ Destroy
  PROVE  OrderInv'
<1>0. TypeOK /\ stack \in Seq(Frame)
  BY DEF TypeInv, TypeOK
<1>1. CASE DrainCallbacks
  <2>1. ~nested' => \A f \in DOMAIN stack : stack[f].left = <<>>
    BY <1>1 DEF DrainCallbacks
  <2>2. stack' = Push(DrainFrame)
    BY <1>1 DEF DrainCallbacks
  <2>3. ~nested' => Left = <<>> /\ Left' = <<>> /\ InnermostLeft'
    BY <1>0, <2>1, <2>2, DrainFrameType, PushLeft
  <2> QED
    BY <1>1, <2>3, EmptyOrder DEF DrainCallbacks
<1>2. CASE HandleEvent
  <2> DEFINE frame == [what |-> "event", left |-> <<>>, busy |-> TRUE, from |-> Len(added)]
  <2>1. frame \in Frame /\ frame.left = <<>>
    BY <1>0 DEF TypeOK, Frame
  <2>2. stack = <<>> /\ stack' = Push(frame)
    BY <1>2 DEF HandleEvent
  <2> HIDE DEF frame
  <2>3. \A f \in DOMAIN stack : stack[f].left = <<>>
    BY <2>2
  <2>4. Left = <<>> /\ Left' = <<>> /\ InnermostLeft'
    BY <1>0, <2>1, <2>2, <2>3, PushLeft
  <2> QED
    BY <1>2, <2>4, EmptyOrder DEF HandleEvent
<1>3. CASE SwapCallbacks
  <2> DEFINE frame == [what |-> "batch", left |-> m_incoming_callbacks, busy |-> FALSE,
                       from |-> Len(added)]
  <2>1. frame \in Frame /\ frame.left = m_incoming_callbacks
    BY <1>0 DEF TypeOK, Frame
  <2>2. stack = <<>> /\ stack' = Push(frame)
    BY <1>0, <1>3 DEF SwapCallbacks, TypeOK
  <2> HIDE DEF frame
  <2>3. \A f \in DOMAIN stack : stack[f].left = <<>>
    BY <2>2
  <2>4. Left = <<>> /\ Left' = m_incoming_callbacks /\ InnermostLeft'
    BY <1>0, <2>1, <2>2, <2>3, PushLeft
  <2> QED
    BY <1>3, <2>4, TakeOrder DEF SwapCallbacks
<1>4. CASE Destroy
  <2>1. stack = <<>> /\ stack' = Push(DrainFrame)
    BY <1>4 DEF Destroy
  <2>2. \A f \in DOMAIN stack : stack[f].left = <<>>
    BY <2>1
  <2>3. Left = <<>> /\ Left' = <<>> /\ InnermostLeft'
    BY <1>0, <2>1, <2>2, DrainFrameType, PushLeft
  <2> QED
    BY <1>4, <2>3, EmptyOrder DEF Destroy
<1> QED
  BY <1>1, <1>2, <1>3, <1>4

LEMMA MoveOrder ==
  ASSUME TypeInv, OrderInv,
         RunCallback \/ DrainMore \/ (Return /\ Top.what # "event")
  PROVE  OrderInv'
<1>0. /\ TypeOK /\ stack \in Seq(Frame) /\ stack # <<>>
      /\ Top \in Frame /\ Top.left \in Seq(Callback)
  BY TopType DEF TypeInv, TypeOK, RunCallback, DrainMore, Return, InUserCode, Idle
<1>1. CASE RunCallback
  <2>1. Top.left # <<>> /\ RunNext(Head(Top.left), Tail(Top.left))
    BY <1>1 DEF RunCallback
  <2> DEFINE frame == [Top EXCEPT !.left = Tail(Top.left),
                                  !.busy = (added[Head(Top.left)] = "plain")]
  <2>2. Tail(Top.left) \in Seq(Callback)
    BY <1>0, <2>1
  <2>3. frame \in Frame /\ frame.left = Tail(Top.left)
    BY <1>0, <2>2 DEF Frame
  <2>4. stack' = ReplaceTop(frame) /\ ran' = Append(ran, Head(Top.left))
        /\ UNCHANGED <<m_incoming_callbacks, added, nested>>
    BY <2>1 DEF RunNext
  <2> HIDE DEF frame
  <2> SUFFICES ASSUME ~nested
               PROVE  /\ InnermostLeft'
                      /\ InOrder(ran', Left', m_incoming_callbacks, Len(added))
    BY <2>4 DEF OrderInv
  <2>5. Left = Top.left /\ Left' = Tail(Top.left) /\ InnermostLeft'
    BY <1>0, <2>3, <2>4, MoveLeft DEF OrderInv
  <2>6. /\ ran \in Seq(Callback) /\ m_incoming_callbacks \in Seq(Callback)
        /\ Len(added) \in Nat
    BY <1>0 DEF TypeOK
  <2>7. InOrder(ran, Top.left, m_incoming_callbacks, Len(added))
    BY <2>5 DEF OrderInv
  <2>8. InOrder(ran', Left', m_incoming_callbacks, Len(added))
    BY <1>0, <2>1, <2>4, <2>5, <2>6, <2>7, RunInOrder
  <2> QED
    BY <2>5, <2>8
<1>2. CASE DrainMore
  <2>1. Top.left = <<>>
    BY <1>2 DEF DrainMore
  <2> DEFINE frame == [Top EXCEPT !.left = m_incoming_callbacks]
  <2>2. frame \in Frame /\ frame.left = m_incoming_callbacks
    BY <1>0 DEF TypeOK, Frame
  <2>3. stack' = ReplaceTop(frame)
    BY <1>2 DEF DrainMore
  <2> HIDE DEF frame
  <2>4. ~nested => Left = <<>> /\ Left' = m_incoming_callbacks /\ InnermostLeft'
    BY <1>0, <2>1, <2>2, <2>3, MoveLeft DEF OrderInv
  <2> QED
    BY <1>2, <2>4, TakeOrder DEF DrainMore
<1>3. CASE Return /\ Top.what # "event"
  <2> DEFINE frame == [Top EXCEPT !.busy = FALSE]
  <2>1. frame \in Frame /\ frame.left = Top.left
    BY <1>0 DEF Frame
  <2>2. stack' = ReplaceTop(frame)
    BY <1>3 DEF Return
  <2> HIDE DEF frame
  <2>3. ~nested => Left' = Left /\ InnermostLeft'
    BY <1>0, <2>1, <2>2, MoveLeft DEF OrderInv
  <2> QED
    BY <1>3, <2>3 DEF Return, OrderInv
<1> QED
  BY <1>1, <1>2, <1>3

LEMMA PopOrder ==
  ASSUME TypeInv, OrderInv,
         FinishBatch \/ DrainReturns \/ (Return /\ Top.what = "event")
  PROVE  OrderInv'
<1>1. stack \in Seq(Frame) /\ stack # <<>> /\ stack' = Pop
  BY DEF TypeInv, TypeOK, FinishBatch, DrainReturns, Return, InUserCode, Idle
<1>2. Len(stack) \in DOMAIN stack
  BY <1>1, TopType
<1>3. Top.left = <<>>
  BY <1>2 DEF FinishBatch, DrainReturns, TypeInv, StackShape, Top
<1>4. ~nested => Left = <<>> /\ Left' = <<>> /\ InnermostLeft'
  BY <1>1, <1>3, PopLeft DEF OrderInv
<1>5. UNCHANGED <<m_incoming_callbacks, added, ran, nested>>
  BY DEF FinishBatch, DrainReturns, Return
<1> QED
  BY <1>4, <1>5, EmptyOrder

LEMMA OrderStep ==
  ASSUME TypeInv, OrderInv, [Next]_vars
  PROVE  OrderInv'
<1>1. ASSUME NEW t \in Thread,
             Execute(t) \/ Send(t) \/ Terminate(t) \/ ExecuteSetTerminate(t)
      PROVE  OrderInv'
  <2>1. CASE Execute(t)
    BY <2>1, AddOrder DEF Execute, Kind
  <2>2. CASE ExecuteSetTerminate(t)
    BY <2>2, AddOrder DEF ExecuteSetTerminate, Kind
  <2>3. CASE Send(t) \/ Terminate(t)
    BY <2>3, StutterOrder DEF Send, Terminate
  <2> QED
    BY <1>1, <2>1, <2>2, <2>3
<1>2. ASSUME NEW kind \in Kind, LoopExecute(kind)
      PROVE  OrderInv'
  BY <1>2, AddOrder DEF LoopExecute
<1>3. CASE Run \/ RunOnce \/ TestTerminate \/ SelectReturns \/ PollFails \/ ReadLoopback
  BY <1>3, StutterOrder DEF Run, RunOnce, TestTerminate, SelectReturns, PollFails, ReadLoopback
<1>4. CASE UNCHANGED vars
  BY <1>4, StutterOrder DEF vars
<1> QED
  BY <1>1, <1>2, <1>3, <1>4, PushOrder, MoveOrder, PopOrder DEF Next

\* "callbacks will be run in the order in which they were added", whatever the
\* threads, the batches and the calls of DrainCallbacks(), as long as none of
\* these is made by a callback with others of its batch still to run.
THEOREM CallbacksInOrder == Spec => []RunsInOrder
<1>1. Init => OrderInv
  BY DEF Init, OrderInv, InnermostLeft, InOrder, Left
<1>2. TypeInv /\ OrderInv /\ [Next]_vars => OrderInv'
  BY OrderStep
<1>3. TypeInv /\ OrderInv => RunsInOrder
  <2> SUFFICES ASSUME TypeInv, OrderInv, ~nested, NEW k \in DOMAIN ran
               PROVE  ran[k] = k
    BY DEF RunsInOrder
  <2>1. DOMAIN ran = 1..Len(ran)
    BY DEF TypeInv, TypeOK
  <2> QED
    BY <2>1 DEF OrderInv, InOrder
<1> QED
  BY <1>1, <1>2, <1>3, TypeInductive, PTL DEF Spec

-----------------------------------------------------------------------------
(* Every callback is in one place: run, in the batch of a frame, or queued.  *)

Has(s, i) == \E k \in DOMAIN s : s[k] = i

Distinct(s) == \A j, k \in DOMAIN s : s[j] = s[k] => j = k

\* The callbacks that each frame of a stack has still to run.
HeldBy(s) == [f \in Nat |-> IF f \in DOMAIN s THEN s[f].left ELSE <<>>]

\* The callbacks 1..n that were added are those of done, of the frames and of
\* the queue, and none that is still to run is in two places.
OncePlaced(held, queue, done, n) ==
  /\ Distinct(queue)
  /\ \A f \in Nat : Distinct(held[f])
  /\ \A i : Has(queue, i) => ~Has(done, i)
  /\ \A f \in Nat : \A i : Has(held[f], i) => ~Has(queue, i) /\ ~Has(done, i)
  /\ \A f, g \in Nat : \A i : Has(held[f], i) /\ Has(held[g], i) => f = g
  /\ \A i : i \in 1..n <=> Has(done, i) \/ Has(queue, i) \/ \E f \in Nat : Has(held[f], i)

\* Nobody else uses the SelectServer when it is destroyed, and nothing is queued
\* when that is done.
Closing ==
  /\ loop \in {"dying", "dead"} => \A t \in Thread : pc[t] = "idle"
  /\ loop = "dead" => m_incoming_callbacks = <<>>

Placed == OncePlaced(HeldBy(stack), m_incoming_callbacks, ran, Len(added))

LEMMA EmptyPlaces == Distinct(<<>>) /\ \A i : ~Has(<<>>, i)
BY DEF Distinct, Has

LEMMA AppendPlaces ==
  ASSUME NEW s \in Seq(Nat), NEW x \in Nat
  PROVE  /\ \A i : Has(Append(s, x), i) <=> Has(s, i) \/ i = x
         /\ Distinct(s) /\ ~Has(s, x) => Distinct(Append(s, x))
<1>1. /\ Len(s) \in Nat /\ DOMAIN s = 1..Len(s)
      /\ DOMAIN Append(s, x) = 1..(Len(s) + 1)
      /\ Append(s, x)[Len(s) + 1] = x
      /\ \A k \in 1..Len(s) : Append(s, x)[k] = s[k]
  OBVIOUS
<1>2. \A k : k \in 1..(Len(s) + 1) <=> k \in 1..Len(s) \/ k = Len(s) + 1
  BY <1>1
<1> DEFINE longer == Append(s, x)
<1> HIDE DEF longer
<1>3. \A i : Has(longer, i) <=> Has(s, i) \/ i = x
  BY <1>1, <1>2 DEF Has, longer
<1>4. ASSUME Distinct(s), ~Has(s, x) PROVE Distinct(longer)
  <2> SUFFICES ASSUME NEW j \in 1..(Len(s) + 1), NEW k \in 1..(Len(s) + 1),
                      longer[j] = longer[k]
               PROVE  j = k
    BY <1>1 DEF Distinct, longer
  <2> QED
    BY <1>1, <1>2, <1>4 DEF Distinct, Has, longer
<1> QED
  BY <1>3, <1>4 DEF longer

LEMMA TailPlaces ==
  ASSUME NEW s \in Seq(Nat), s # <<>>
  PROVE  /\ \A i : Has(s, i) <=> i = Head(s) \/ Has(Tail(s), i)
         /\ Distinct(s) => Distinct(Tail(s)) /\ ~Has(Tail(s), Head(s))
<1>1. /\ Len(s) \in Nat /\ Len(s) >= 1 /\ DOMAIN s = 1..Len(s)
      /\ Head(s) = s[1]
      /\ DOMAIN Tail(s) = 1..(Len(s) - 1)
      /\ \A k \in 1..(Len(s) - 1) : Tail(s)[k] = s[k + 1]
  OBVIOUS
<1>2. \A k \in 1..(Len(s) - 1) : k + 1 \in 1..Len(s) /\ k + 1 # 1
  BY <1>1
<1>3. \A k \in 1..Len(s) : k = 1 \/ (k - 1 \in 1..(Len(s) - 1) /\ (k - 1) + 1 = k)
  BY <1>1
<1>4. 1 \in 1..Len(s)
  BY <1>1
<1>5. ASSUME NEW i PROVE Has(s, i) <=> i = Head(s) \/ Has(Tail(s), i)
  <2>1. ASSUME Has(s, i) PROVE i = Head(s) \/ Has(Tail(s), i)
    <3>1. PICK k \in 1..Len(s) : s[k] = i
      BY <1>1, <2>1 DEF Has
    <3>2. CASE k = 1
      BY <1>1, <3>1, <3>2
    <3>3. CASE k # 1
      <4>1. k - 1 \in 1..(Len(s) - 1) /\ (k - 1) + 1 = k
        BY <1>3, <3>3
      <4>2. Tail(s)[k - 1] = i
        BY <1>1, <3>1, <4>1
      <4> QED
        BY <1>1, <4>1, <4>2 DEF Has
    <3> QED
      BY <3>2, <3>3
  <2>2. ASSUME i = Head(s) \/ Has(Tail(s), i) PROVE Has(s, i)
    BY <1>1, <1>2, <1>4, <2>2 DEF Has
  <2> QED
    BY <2>1, <2>2
<1>6. ASSUME Distinct(s) PROVE Distinct(Tail(s)) /\ ~Has(Tail(s), Head(s))
  <2>1. \A j, k \in 1..(Len(s) - 1) : j + 1 = k + 1 => j = k
    BY <1>1
  <2>2. Distinct(Tail(s))
    BY <1>1, <1>2, <1>6, <2>1, SMTT(30) DEF Distinct
  <2>3. ~Has(Tail(s), Head(s))
    BY <1>1, <1>2, <1>4, <1>6 DEF Distinct, Has
  <2> QED
    BY <2>2, <2>3
<1> QED
  BY <1>5, <1>6

\* Execute() queues a new callback.
LEMMA AddOnce ==
  ASSUME NEW held, NEW queue \in Seq(Nat), NEW done, NEW n \in Nat,
         OncePlaced(held, queue, done, n)
  PROVE  OncePlaced(held, Append(queue, n + 1), done, n + 1)
<1> DEFINE more == Append(queue, n + 1)
<1>1. /\ n + 1 \in Nat /\ n + 1 \notin 1..n
      /\ \A i : i \in 1..(n + 1) <=> i \in 1..n \/ i = n + 1
  OBVIOUS
<1>2. /\ \A i : Has(more, i) <=> Has(queue, i) \/ i = n + 1
      /\ Distinct(queue) /\ ~Has(queue, n + 1) => Distinct(more)
  BY <1>1, AppendPlaces
<1> HIDE DEF more
<1> QED
  BY <1>1, <1>2 DEF OncePlaced, more

\* A frame takes over the queue.
LEMMA TakeOnce ==
  ASSUME NEW held, NEW queue, NEW done, NEW n,
         OncePlaced(held, queue, done, n),
         NEW top \in Nat, held[top] = <<>>, NEW after,
         \A f \in Nat : after[f] = IF f = top THEN queue ELSE held[f]
  PROVE  OncePlaced(after, <<>>, done, n)
<1> DEFINE none == <<>>
<1>1. Distinct(none) /\ (\A i : ~Has(none, i)) /\ held[top] = none
  BY EmptyPlaces
<1> HIDE DEF none
<1>2. \A f \in Nat : \A i : Has(after[f], i) <=> Has(held[f], i) \/ (f = top /\ Has(queue, i))
  BY <1>1
<1>3. \A f \in Nat : Distinct(after[f])
  BY DEF OncePlaced
<1>4. \A f \in Nat : \A i : Has(after[f], i) => ~Has(done, i)
  BY <1>2 DEF OncePlaced
<1>5. \A f, g \in Nat : \A i : Has(after[f], i) /\ Has(after[g], i) => f = g
  BY <1>2 DEF OncePlaced
<1>6. \A i : i \in 1..n <=> Has(done, i) \/ \E f \in Nat : Has(after[f], i)
  BY <1>2 DEF OncePlaced
<1>7. OncePlaced(after, none, done, n)
  BY <1>1, <1>3, <1>4, <1>5, <1>6 DEF OncePlaced
<1> QED
  BY <1>7 DEF none

\* A frame runs the first of its callbacks.
LEMMA RunOnceMore ==
  ASSUME NEW held, NEW queue, NEW done \in Seq(Nat), NEW n,
         OncePlaced(held, queue, done, n),
         NEW top \in Nat, held[top] \in Seq(Nat), held[top] # <<>>, NEW after,
         \A f \in Nat : after[f] = IF f = top THEN Tail(held[top]) ELSE held[f]
  PROVE  OncePlaced(after, queue, Append(done, Head(held[top])), n)
<1> DEFINE cb == Head(held[top])
           rest == Tail(held[top])
           longer == Append(done, cb)
<1>1. cb \in Nat
  OBVIOUS
<1>2. /\ \A i : Has(held[top], i) <=> i = cb \/ Has(rest, i)
      /\ Distinct(held[top]) => Distinct(rest) /\ ~Has(rest, cb)
  BY TailPlaces
<1>3. \A i : Has(longer, i) <=> Has(done, i) \/ i = cb
  BY <1>1, AppendPlaces
<1>4. \A f \in Nat : after[f] = IF f = top THEN rest ELSE held[f]
  OBVIOUS
<1> HIDE DEF cb, rest, longer
<1>5. \A f \in Nat : \A i : Has(after[f], i) => Has(held[f], i) /\ i # cb
  BY <1>2, <1>4 DEF OncePlaced
<1>6. \A f \in Nat : \A i : Has(held[f], i) => Has(after[f], i) \/ i = cb
  BY <1>2, <1>4
<1>7. Has(held[top], cb)
  BY <1>2
<1>8. \A f \in Nat : Distinct(after[f])
  BY <1>2, <1>4 DEF OncePlaced
<1>9. \A f \in Nat : \A i : Has(after[f], i) => ~Has(queue, i) /\ ~Has(longer, i)
  BY <1>3, <1>5 DEF OncePlaced
<1>10. \A i : Has(queue, i) => ~Has(longer, i)
  BY <1>3, <1>7 DEF OncePlaced
<1>11. \A i : i \in 1..n <=> \/ Has(longer, i) \/ Has(queue, i)
                             \/ \E f \in Nat : Has(after[f], i)
  BY <1>3, <1>5, <1>6, <1>7 DEF OncePlaced
<1>12. \A f, g \in Nat : \A i : Has(after[f], i) /\ Has(after[g], i) => f = g
  BY <1>5 DEF OncePlaced
<1>13. OncePlaced(after, queue, longer, n)
  BY <1>8, <1>9, <1>10, <1>11, <1>12 DEF OncePlaced
<1> QED
  BY <1>13 DEF longer, cb

\* What the changes of the stack do to what its frames hold.
LEMMA HeldPush ==
  ASSUME stack \in Seq(Frame), NEW frame \in Frame, stack' = Push(frame)
  PROVE  /\ Len(stack) + 1 \in Nat /\ HeldBy(stack)[Len(stack) + 1] = <<>>
         /\ \A f \in Nat : HeldBy(stack')[f] =
              IF f = Len(stack) + 1 THEN frame.left ELSE HeldBy(stack)[f]
<1>1. /\ DOMAIN stack' = 1..(Len(stack) + 1)
      /\ stack'[Len(stack) + 1] = frame
      /\ \A f \in 1..Len(stack) : stack'[f] = stack[f]
  BY PushFacts DEF Push
<1>2. Len(stack) \in Nat /\ DOMAIN stack = 1..Len(stack)
  OBVIOUS
<1>3. \A f \in Nat : f \in 1..(Len(stack) + 1) <=> f \in 1..Len(stack) \/ f = Len(stack) + 1
  BY <1>2
<1>4. Len(stack) + 1 \in Nat /\ Len(stack) + 1 \notin 1..Len(stack)
  BY <1>2
<1> QED
  BY <1>1, <1>2, <1>3, <1>4 DEF HeldBy

LEMMA HeldReplace ==
  ASSUME stack \in Seq(Frame), stack # <<>>, NEW frame \in Frame,
         stack' = ReplaceTop(frame)
  PROVE  /\ Len(stack) \in Nat /\ HeldBy(stack)[Len(stack)] = Top.left
         /\ \A f \in Nat : HeldBy(stack')[f] =
              IF f = Len(stack) THEN frame.left ELSE HeldBy(stack)[f]
<1>1. /\ DOMAIN stack' = 1..Len(stack)
      /\ stack'[Len(stack)] = frame
      /\ \A f \in 1..(Len(stack) - 1) : stack'[f] = stack[f]
  BY ReplaceFacts
<1>2. Len(stack) \in Nat /\ Len(stack) >= 1 /\ DOMAIN stack = 1..Len(stack)
  BY TopType
<1>3. \A f \in 1..Len(stack) : f \in 1..(Len(stack) - 1) \/ f = Len(stack)
  <2>1. \A n \in Nat : \A f \in 1..n : f \in 1..(n - 1) \/ f = n
    OBVIOUS
  <2> QED
    BY <1>2, <2>1
<1>4. Len(stack) \in 1..Len(stack)
  BY <1>2
<1> QED
  BY <1>1, <1>2, <1>3, <1>4 DEF HeldBy, Top

LEMMA HeldPop ==
  ASSUME stack \in Seq(Frame), stack # <<>>, Top.left = <<>>, stack' = Pop
  PROVE  \A f \in Nat : HeldBy(stack')[f] = HeldBy(stack)[f]
<1>1. Len(stack) \in Nat /\ Len(stack) >= 1 /\ DOMAIN stack = 1..Len(stack)
  BY TopType
<1>2. /\ stack' \in Seq(Frame) /\ Len(stack') = Len(stack) - 1
      /\ \A f \in 1..(Len(stack) - 1) : stack'[f] = stack[f]
  BY PopFacts DEF Pop
<1>3. DOMAIN stack' = 1..(Len(stack) - 1)
  BY <1>2
<1>4. \A f \in Nat : f \in 1..Len(stack) <=> f \in 1..(Len(stack) - 1) \/ f = Len(stack)
  <2>1. \A n \in Nat : n >= 1 => \A f \in Nat : f \in 1..n <=> f \in 1..(n - 1) \/ f = n
    OBVIOUS
  <2> QED
    BY <1>1, <2>1
<1>5. Len(stack) \notin 1..(Len(stack) - 1)
  BY <1>1
<1> QED
  BY <1>1, <1>2, <1>3, <1>4, <1>5 DEF HeldBy, Top

\* Frames that hold what they held change nothing.
LEMMA SameOnce ==
  ASSUME NEW held, NEW queue, NEW done, NEW n, OncePlaced(held, queue, done, n),
         NEW after, \A f \in Nat : after[f] = held[f]
  PROVE  OncePlaced(after, queue, done, n)
<1>1. \A f \in Nat : \A i : Has(after[f], i) <=> Has(held[f], i)
  OBVIOUS
<1>2. \A f \in Nat : Distinct(after[f])
  BY DEF OncePlaced
<1> QED
  BY <1>1, <1>2 DEF OncePlaced

LEMMA SequencesOfNat ==
  ASSUME TypeInv
  PROVE  /\ m_incoming_callbacks \in Seq(Nat) /\ ran \in Seq(Nat) /\ Len(added) \in Nat
         /\ stack \in Seq(Frame)
         /\ stack # <<>> => Top.left \in Seq(Nat) /\ Top \in Frame
<1>1. Callback \subseteq Nat
  BY ConstantsAssumption DEF Callback
<1>2. \A s \in Seq(Callback) : s \in Seq(Nat)
  BY <1>1, SeqMonotonic
<1> QED
  BY <1>2, TopType DEF TypeInv, TypeOK

LEMMA AddPlaced ==
  ASSUME TypeInv, Placed, NEW kind \in Kind, AddCallback(kind), UNCHANGED <<stack, ran>>
  PROVE  Placed'
<1>1. /\ m_incoming_callbacks' = Append(m_incoming_callbacks, Len(added) + 1)
      /\ Len(added') = Len(added) + 1
  BY DEF AddCallback, TypeInv, TypeOK
<1>2. OncePlaced(HeldBy(stack), Append(m_incoming_callbacks, Len(added) + 1), ran,
                 Len(added) + 1)
  BY SequencesOfNat, AddOnce DEF Placed
<1> QED
  BY <1>1, <1>2 DEF Placed

LEMMA SamePlaced ==
  ASSUME Placed, UNCHANGED <<m_incoming_callbacks, ran, added>>,
         \A f \in Nat : HeldBy(stack')[f] = HeldBy(stack)[f]
  PROVE  Placed'
<1>1. OncePlaced(HeldBy(stack'), m_incoming_callbacks, ran, Len(added))
  BY SameOnce DEF Placed
<1> QED
  BY <1>1 DEF Placed

LEMMA StackPlaced ==
  ASSUME TypeInv, Placed,
         \/ DrainCallbacks \/ HandleEvent \/ Destroy \/ FinishBatch \/ DrainReturns
         \/ Return
  PROVE  Placed'
<1>0. stack \in Seq(Frame) /\ (stack # <<>> => Top \in Frame) /\ Len(added) \in Nat
  BY SequencesOfNat
<1>1. UNCHANGED <<m_incoming_callbacks, ran, added>>
  BY DEF DrainCallbacks, HandleEvent, Destroy, FinishBatch, DrainReturns, Return
<1>2. CASE DrainCallbacks \/ Destroy
  <2>1. stack' = Push(DrainFrame) /\ DrainFrame \in Frame /\ DrainFrame.left = <<>>
    BY <1>2, DrainFrameType DEF DrainCallbacks, Destroy, TypeInv, DrainFrame
  <2>2. \A f \in Nat : HeldBy(stack')[f] = HeldBy(stack)[f]
    BY <1>0, <2>1, HeldPush
  <2> QED
    BY <1>1, <2>2, SamePlaced
<1>3. CASE HandleEvent
  <2> DEFINE frame == [what |-> "event", left |-> <<>>, busy |-> TRUE, from |-> Len(added)]
  <2>1. frame \in Frame /\ frame.left = <<>> /\ stack' = Push(frame)
    BY <1>0, <1>3 DEF Frame, HandleEvent
  <2> HIDE DEF frame
  <2>2. \A f \in Nat : HeldBy(stack')[f] = HeldBy(stack)[f]
    BY <1>0, <2>1, HeldPush
  <2> QED
    BY <1>1, <2>2, SamePlaced
<1>4. CASE FinishBatch \/ DrainReturns \/ (Return /\ Top.what = "event")
  <2>1. stack # <<>> /\ stack' = Pop
    BY <1>4 DEF FinishBatch, DrainReturns, Return, InUserCode, Idle
  <2>2. Len(stack) \in DOMAIN stack
    BY <1>0, <2>1, TopType
  <2>3. Top.left = <<>>
    BY <1>4, <2>2 DEF FinishBatch, DrainReturns, TypeInv, StackShape, Top
  <2>4. \A f \in Nat : HeldBy(stack')[f] = HeldBy(stack)[f]
    BY <1>0, <2>1, <2>3, HeldPop
  <2> QED
    BY <1>1, <2>4, SamePlaced
<1>5. CASE Return /\ Top.what # "event"
  <2> DEFINE frame == [Top EXCEPT !.busy = FALSE]
  <2>1. stack # <<>> /\ stack' = ReplaceTop(frame)
    BY <1>5 DEF Return, InUserCode
  <2>2. frame \in Frame /\ frame.left = Top.left
    BY <1>0, <2>1 DEF Frame
  <2> HIDE DEF frame
  <2>3. \A f \in Nat : HeldBy(stack')[f] = HeldBy(stack)[f]
    BY <1>0, <2>1, <2>2, HeldReplace
  <2> QED
    BY <1>1, <2>3, SamePlaced
<1> QED
  BY <1>2, <1>3, <1>4, <1>5

LEMMA TakePlaced ==
  ASSUME TypeInv, Placed, SwapCallbacks \/ DrainMore
  PROVE  Placed'
<1>0. /\ stack \in Seq(Frame) /\ (stack # <<>> => Top \in Frame) /\ Len(added) \in Nat
      /\ m_incoming_callbacks \in Seq(Callback)
  BY SequencesOfNat DEF TypeInv, TypeOK
<1>1. UNCHANGED <<ran, added>> /\ m_incoming_callbacks' = <<>>
  BY DEF SwapCallbacks, DrainMore
<1>2. PICK top \in Nat :
        /\ HeldBy(stack)[top] = <<>>
        /\ \A f \in Nat : HeldBy(stack')[f] =
             IF f = top THEN m_incoming_callbacks ELSE HeldBy(stack)[f]
  <2>1. CASE SwapCallbacks
    <3> DEFINE frame == [what |-> "batch", left |-> m_incoming_callbacks, busy |-> FALSE,
                         from |-> Len(added)]
    <3>1. frame \in Frame /\ frame.left = m_incoming_callbacks /\ stack' = Push(frame)
      BY <1>0, <2>1 DEF Frame, SwapCallbacks
    <3> HIDE DEF frame
    <3> QED
      BY <1>0, <3>1, HeldPush
  <2>2. CASE DrainMore
    <3> DEFINE frame == [Top EXCEPT !.left = m_incoming_callbacks]
    <3>1. stack # <<>> /\ Top.left = <<>> /\ stack' = ReplaceTop(frame)
      BY <2>2 DEF DrainMore, Idle
    <3>2. frame \in Frame /\ frame.left = m_incoming_callbacks
      BY <1>0, <3>1 DEF Frame
    <3> HIDE DEF frame
    <3> QED
      BY <1>0, <3>1, <3>2, HeldReplace
  <2> QED
    BY <2>1, <2>2
<1>3. OncePlaced(HeldBy(stack'), <<>>, ran, Len(added))
  BY <1>2, TakeOnce DEF Placed
<1> QED
  BY <1>1, <1>3 DEF Placed

LEMMA RunPlaced ==
  ASSUME TypeInv, Placed, RunCallback
  PROVE  Placed' /\ Has(HeldBy(stack)[Len(stack)], Head(Top.left)) /\ Len(stack) \in Nat
<1>0. /\ stack \in Seq(Frame) /\ stack # <<>> /\ Top \in Frame /\ Top.left \in Seq(Callback)
      /\ Top.left \in Seq(Nat) /\ Top.left # <<>> /\ ran \in Seq(Nat)
  BY SequencesOfNat, TopType DEF RunCallback, Idle
<1> DEFINE frame == [Top EXCEPT !.left = Tail(Top.left),
                                !.busy = (added[Head(Top.left)] = "plain")]
<1>1. Tail(Top.left) \in Seq(Callback)
  BY <1>0
<1>2. frame \in Frame /\ frame.left = Tail(Top.left)
  BY <1>0, <1>1 DEF Frame
<1>3. stack' = ReplaceTop(frame) /\ ran' = Append(ran, Head(Top.left))
      /\ UNCHANGED <<m_incoming_callbacks, added>>
  BY DEF RunCallback, RunNext
<1> HIDE DEF frame
<1>4. /\ Len(stack) \in Nat /\ HeldBy(stack)[Len(stack)] = Top.left
      /\ \A f \in Nat : HeldBy(stack')[f] =
           IF f = Len(stack) THEN Tail(Top.left) ELSE HeldBy(stack)[f]
  BY <1>0, <1>2, <1>3, HeldReplace
<1>5. OncePlaced(HeldBy(stack'), m_incoming_callbacks, Append(ran, Head(Top.left)), Len(added))
  BY <1>0, <1>4, RunOnceMore DEF Placed
<1>6. Has(Top.left, Head(Top.left))
  BY <1>0, TailPlaces
<1> QED
  BY <1>3, <1>4, <1>5, <1>6 DEF Placed

LEMMA PlacedStep ==
  ASSUME TypeInv, Placed, [Next]_vars
  PROVE  Placed'
<1>1. ASSUME NEW t \in Thread,
             Execute(t) \/ Send(t) \/ Terminate(t) \/ ExecuteSetTerminate(t)
      PROVE  Placed'
  <2>1. CASE Execute(t)
    BY <2>1, AddPlaced DEF Execute, Kind
  <2>2. CASE ExecuteSetTerminate(t)
    BY <2>2, AddPlaced DEF ExecuteSetTerminate, Kind
  <2>3. CASE Send(t) \/ Terminate(t)
    BY <2>3, SamePlaced DEF Send, Terminate
  <2> QED
    BY <1>1, <2>1, <2>2, <2>3
<1>2. ASSUME NEW kind \in Kind, LoopExecute(kind)
      PROVE  Placed'
  BY <1>2, AddPlaced DEF LoopExecute
<1>3. CASE Run \/ RunOnce \/ TestTerminate \/ SelectReturns \/ PollFails \/ ReadLoopback
  BY <1>3, SamePlaced DEF Run, RunOnce, TestTerminate, SelectReturns, PollFails, ReadLoopback
<1>4. CASE UNCHANGED vars
  BY <1>4, SamePlaced DEF vars
<1> QED
  BY <1>1, <1>2, <1>3, <1>4, StackPlaced, TakePlaced, RunPlaced DEF Next

LEMMA ClosingStep ==
  ASSUME TypeInv, Closing, [Next]_vars
  PROVE  Closing'
<1>1. ASSUME NEW t \in Thread,
             Execute(t) \/ Send(t) \/ Terminate(t) \/ ExecuteSetTerminate(t)
      PROVE  Closing'
  BY <1>1 DEF Execute, Send, Terminate, ExecuteSetTerminate, Usable, Closing, loopVars,
              AddCallback, TypeInv, TypeOK
<1>2. ASSUME NEW kind \in Kind, LoopExecute(kind)
      PROVE  Closing'
  BY <1>2 DEF LoopExecute, InUserCode, Closing, loopVars, TypeInv, TypeOK
<1>3. CASE Run \/ RunOnce \/ TestTerminate \/ SelectReturns \/ PollFails \/ ReadLoopback
           \/ UNCHANGED vars
  BY <1>3 DEF Run, RunOnce, TestTerminate, SelectReturns, PollFails, ReadLoopback, vars,
              loopVars, Closing
<1>4. CASE HandleEvent \/ FinishBatch \/ Return \/ SwapCallbacks
  BY <1>4 DEF HandleEvent, FinishBatch, Return, SwapCallbacks, Closing, TypeInv, TypeOK
<1>5. CASE DrainCallbacks \/ RunCallback \/ DrainMore
  BY <1>5 DEF DrainCallbacks, RunCallback, RunNext, DrainMore, loopVars, Closing
<1>6. CASE DrainReturns \/ Destroy
  BY <1>6 DEF DrainReturns, Destroy, Closing
<1> QED
  BY <1>1, <1>2, <1>3, <1>4, <1>5, <1>6 DEF Next

-----------------------------------------------------------------------------
(* The executor that ExecutorInterface promises.                            *)

LoopInv == TypeInv /\ OrderInv /\ Placed /\ Closing

LEMMA LoopInvariance == Spec => []LoopInv
<1>1. Init => OrderInv /\ Placed /\ Closing
  <2> SUFFICES ASSUME Init PROVE OrderInv /\ Placed /\ Closing
    OBVIOUS
  <2>1. OrderInv /\ Closing
    BY DEF Init, OrderInv, InnermostLeft, InOrder, Left, Closing
  <2>2. /\ \A f \in Nat : HeldBy(stack)[f] = <<>>
        /\ m_incoming_callbacks = <<>> /\ ran = <<>> /\ Len(added) = 0
    BY DEF Init, HeldBy
  <2>3. Placed
    BY <2>2, EmptyPlaces DEF Placed, OncePlaced
  <2> QED
    BY <2>1, <2>3
<1>2. TypeInv /\ OrderInv /\ Placed /\ Closing /\ [Next]_vars => (OrderInv /\ Placed /\ Closing)'
  BY OrderStep, PlacedStep, ClosingStep
<1> QED
  BY <1>1, <1>2, TypeInductive, PTL DEF Spec, LoopInv

\* The callbacks pending are those that a frame holds and those queued.
LEMMA PendingFacts ==
  ASSUME LoopInv
  PROVE  /\ \A i : i \in Promise!Pending <=>
              Has(m_incoming_callbacks, i) \/ \E f \in Nat : Has(HeldBy(stack)[f], i)
         /\ ~nested => \A i \in Promise!Pending : Len(ran) + 1 <= i
<1>1. /\ Len(added) \in Nat /\ Len(ran) \in Nat /\ DOMAIN ran = 1..Len(ran)
  BY SequencesOfNat DEF LoopInv
<1>2. \A i : i \in Promise!Pending <=> i \in 1..Len(added) /\ ~Has(ran, i)
  BY DEF Promise!Pending, Has
<1>3. \A i : i \in Promise!Pending <=>
        Has(m_incoming_callbacks, i) \/ \E f \in Nat : Has(HeldBy(stack)[f], i)
  BY <1>2 DEF LoopInv, Placed, OncePlaced
<1>4. ASSUME ~nested, NEW i \in Promise!Pending PROVE Len(ran) + 1 <= i
  <2>1. \A k \in 1..Len(ran) : ran[k] = k
    BY <1>4 DEF LoopInv, OrderInv, InOrder
  <2>2. i \in Nat /\ i >= 1 /\ ~Has(ran, i)
    BY <1>1, <1>2
  <2>3. i \notin 1..Len(ran)
    BY <1>1, <2>1, <2>2 DEF Has
  <2> QED
    BY <1>1, <2>2, <2>3
<1> QED
  BY <1>3, <1>4

\* Execute() and Terminate(), in any thread.
LEMMA AddImplements ==
  ASSUME LoopInv, NEW kind \in Kind, AddCallback(kind), loop # "dead",
         UNCHANGED <<loop, ran, nested>>
  PROVE  Promise!Next
<1>1. Len(added') = Len(added) + 1
  BY DEF AddCallback, LoopInv, TypeInv, TypeOK
<1>2. Promise!Execute
  BY <1>1 DEF Promise!Execute
<1> QED
  BY <1>2 DEF Promise!Next

LEMMA RunImplements ==
  ASSUME LoopInv, RunCallback
  PROVE  Promise!Next
<1> DEFINE cb == Head(Top.left)
<1>1. /\ ran' = Append(ran, cb) /\ UNCHANGED <<loop, added, nested>>
      /\ stack # <<>> /\ Top.left # <<>>
  BY DEF RunCallback, RunNext, Idle
<1>2. loop # "dead"
  BY <1>1 DEF LoopInv, TypeInv, TypeOK
<1>3. cb \in Promise!Pending
  BY RunPlaced, PendingFacts DEF LoopInv
<1>4. ASSUME ~nested, NEW j \in Promise!Pending PROVE cb <= j
  <2>1. Top.left \in Seq(Nat)
    BY <1>1, SequencesOfNat DEF LoopInv
  <2>2. Len(Top.left) >= 1 /\ cb = Top.left[1]
    BY <1>1, <2>1
  <2>3. InOrder(ran, Top.left, m_incoming_callbacks, Len(added))
    BY <1>1, <1>4 DEF LoopInv, OrderInv, Left
  <2>4. cb = Len(ran) + 1
    BY <2>1, <2>2, <2>3 DEF InOrder
  <2> QED
    BY <1>4, <2>4, PendingFacts
<1> HIDE DEF cb
<1>5. Promise!RunCallback(cb)
  BY <1>1, <1>2, <1>3, <1>4 DEF Promise!RunCallback
<1> QED
  BY <1>3, <1>5 DEF Promise!Next

LEMMA DrainReturnsImplements ==
  ASSUME LoopInv, DrainReturns
  PROVE  [Promise!Next]_Promise!vars
<1>1. /\ UNCHANGED <<added, ran, nested>> /\ m_incoming_callbacks = <<>>
      /\ stack # <<>> /\ Top.left = <<>> /\ stack' = Pop
  BY DEF DrainReturns, Idle
<1>2. loop # "dead" /\ stack \in Seq(Frame)
  BY <1>1 DEF LoopInv, TypeInv, TypeOK
<1>3. CASE loop = "dying" /\ Len(stack) = 1
  <2>1. loop' = "dead"
    BY <1>3 DEF DrainReturns
  <2>2. \A f \in Nat : HeldBy(stack)[f] = <<>>
    BY <1>1, <1>2, <1>3 DEF HeldBy, Top
  <2>3. Promise!Pending = {}
    BY <1>1, <2>2, PendingFacts, EmptyPlaces
  <2>4. Promise!Destroy
    BY <1>1, <2>1, <2>3 DEF Promise!Destroy
  <2> QED
    BY <2>4 DEF Promise!Next
<1>4. CASE ~(loop = "dying" /\ Len(stack) = 1)
  <2>1. loop' = loop
    BY <1>4 DEF DrainReturns
  <2> QED
    BY <1>1, <2>1 DEF Promise!vars
<1> QED
  BY <1>3, <1>4

LEMMA StepImplements ==
  ASSUME LoopInv, [Next]_vars
  PROVE  [Promise!Next]_Promise!vars
<1>1. ASSUME UNCHANGED <<added, ran, nested>>, loop = "dead" <=> loop' = "dead"
      PROVE  UNCHANGED Promise!vars
  BY <1>1 DEF Promise!vars
<1>2. ASSUME NEW t \in Thread,
             Execute(t) \/ Send(t) \/ Terminate(t) \/ ExecuteSetTerminate(t)
      PROVE  [Promise!Next]_Promise!vars
  <2>1. CASE Execute(t)
    BY <2>1, AddImplements DEF Execute, Kind, Usable, loopVars
  <2>2. CASE ExecuteSetTerminate(t)
    <3>1. loop # "dead"
      BY <2>2 DEF ExecuteSetTerminate, LoopInv, Closing
    <3> QED
      BY <2>2, <3>1, AddImplements DEF ExecuteSetTerminate, Kind, loopVars
  <2>3. CASE Send(t) \/ Terminate(t)
    BY <1>1, <2>3 DEF Send, Terminate, loopVars
  <2> QED
    BY <1>2, <2>1, <2>2, <2>3
<1>3. ASSUME NEW kind \in Kind, LoopExecute(kind)
      PROVE  Promise!Next
  <2>1. loop # "dead"
    BY <1>3 DEF LoopExecute, InUserCode, LoopInv, TypeInv, TypeOK
  <2> QED
    BY <1>3, <2>1, AddImplements DEF LoopExecute, loopVars
<1>4. CASE DrainCallbacks
  <2>1. UNCHANGED <<added, ran, loop>> /\ (nested' = nested \/ nested' = TRUE)
    BY <1>4 DEF DrainCallbacks, loopVars, LoopInv, TypeInv, TypeOK
  <2>2. CASE nested' = nested
    BY <1>1, <2>1, <2>2
  <2>3. CASE nested' = TRUE
    <3>1. Promise!GiveUpOrder
      BY <2>1, <2>3 DEF Promise!GiveUpOrder
    <3> QED
      BY <3>1 DEF Promise!Next
  <2> QED
    BY <2>1, <2>2, <2>3
<1>5. CASE Run \/ RunOnce \/ TestTerminate \/ SelectReturns \/ PollFails \/ ReadLoopback
  BY <1>1, <1>5 DEF Run, RunOnce, TestTerminate, SelectReturns, PollFails, ReadLoopback
<1>6. CASE HandleEvent \/ SwapCallbacks \/ DrainMore \/ Destroy \/ UNCHANGED vars
  BY <1>1, <1>6 DEF HandleEvent, SwapCallbacks, DrainMore, Destroy, vars, loopVars
<1>7. CASE FinishBatch \/ Return
  <2>1. loop # "dead"
    BY <1>7 DEF FinishBatch, Return, InUserCode, Idle, LoopInv, TypeInv, TypeOK
  <2> QED
    BY <1>1, <1>7, <2>1 DEF FinishBatch, Return
<1> QED
  BY <1>2, <1>3, <1>4, <1>5, <1>6, <1>7, RunImplements, DrainReturnsImplements DEF Next

\* The SelectServer keeps what ExecutorInterface promises (ImplementsExecutor),
\* with any number of threads and callbacks: every callback is run once and not
\* by Execute() itself, through both kinds of batches and wherever a callback
\* calls DrainCallbacks(), in order unless one did so in the middle of its own
\* batch, and the destructor leaves none behind.
THEOREM ExecutorImplemented == Spec => ImplementsExecutor
<1>1. Init => Promise!Init
  BY DEF Init, Promise!Init
<1>2. LoopInv /\ [Next]_vars => [Promise!Next]_Promise!vars
  BY StepImplements
<1> QED
  BY <1>1, <1>2, LoopInvariance, PTL DEF Spec, ImplementsExecutor, Promise!Spec
=============================================================================
