----------------------------- MODULE SelectServer -----------------------------
(***************************************************************************)
(* The event loop every part of OLA runs in (common/io/SelectServer.cpp):  *)
(* Run(), the callbacks that any thread may hand it with Execute(), the    *)
(* loopback descriptor that wakes it from select(), Terminate(),           *)
(* DrainCallbacks() and the destructor.                                    *)
(*                                                                         *)
(* One thread runs the loop; the threads of Thread call Execute() and      *)
(* Terminate(), which are the only methods that may be called from another *)
(* thread.  The critical sections of m_incoming_mutex are single steps.    *)
(* Callbacks are numbered in the order they are added.  "stack" holds what *)
(* the loop's thread is in the middle of: a batch of callbacks, a          *)
(* DrainCallbacks(), the handler of another event; a callback or a handler *)
(* that is running may call the SelectServer again, so they nest.          *)
(***************************************************************************)
EXTENDS Naturals, Sequences

CONSTANTS
  Thread,           \* the other threads
  MaxCallbacks      \* bound: callbacks added

ASSUME ConstantsAssumption == MaxCallbacks \in Nat

VARIABLES
  m_incoming_callbacks,
  m_incoming_descriptor,  \* TRUE: there is data to read in the loopback pipe
  m_is_running,
  m_terminate,
  once,                   \* the loop was entered by RunOnce()
  added,                  \* the kinds of the callbacks added so far
  loop,                   \* where the loop's thread is
  stack,                  \* what it is in the middle of
  pc,                     \* where each of the other threads is
  ran,                    \* history: the callbacks run, in order
  nested                  \* history: DrainCallbacks() was called in mid batch

flagVars == <<m_is_running, m_terminate, once>>
loopVars == <<flagVars, loop>>
vars == <<m_incoming_callbacks, m_incoming_descriptor, loopVars, added, stack,
          pc, ran, nested>>

Callback == 1..MaxCallbacks
\* SetTerminate() is the callback of Terminate(), all others are alike.
Kind == {"plain", "SetTerminate"}

\* One level of the stack: the callbacks still to run, whether one is running,
\* and how many had been added when it began.
Frame == [what : {"batch", "drain", "event"}, left : Seq(Callback),
          busy : BOOLEAN, from : Nat]

Init ==
  /\ m_incoming_callbacks = <<>>
  /\ m_incoming_descriptor = FALSE
  /\ m_is_running = FALSE
  /\ m_terminate = FALSE
  /\ once = FALSE
  /\ added = <<>>
  /\ loop = "out"
  /\ stack = <<>>
  /\ pc = [t \in Thread |-> "idle"]
  /\ ran = <<>>
  /\ nested = FALSE

Top == stack[Len(stack)]
Pop == SubSeq(stack, 1, Len(stack) - 1)
Push(frame) == Append(stack, frame)
ReplaceTop(frame) == Append(Pop, frame)

\* User code runs in the loop's thread: a callback or a handler.
InUserCode == stack # <<>> /\ Top.busy

-----------------------------------------------------------------------------
(* The other threads.                                                       *)

\* Execute(): the callback is added under the mutex ...
AddCallback(kind) ==
  /\ Len(added) < MaxCallbacks
  /\ added' = Append(added, kind)
  /\ m_incoming_callbacks' = Append(m_incoming_callbacks, Len(added) + 1)

Usable == loop \notin {"dying", "dead"}

Execute(t) ==
  /\ Usable
  /\ pc[t] = "idle"
  /\ AddCallback("plain")
  /\ pc' = [pc EXCEPT ![t] = "send"]
  /\ UNCHANGED <<m_incoming_descriptor, loopVars, stack, ran, nested>>

\* ... and the loop is woken after the mutex has been released.
Send(t) ==
  /\ pc[t] = "send"
  /\ m_incoming_descriptor' = TRUE
  /\ pc' = [pc EXCEPT ![t] = "idle"]
  /\ UNCHANGED <<m_incoming_callbacks, loopVars, added, stack, ran, nested>>

\* Terminate() looks at m_is_running, without a lock, and is ignored when the
\* loop does not run ...
Terminate(t) ==
  /\ Usable
  /\ pc[t] = "idle"
  /\ m_is_running
  /\ Len(added) < MaxCallbacks
  /\ pc' = [pc EXCEPT ![t] = "terminate"]
  /\ UNCHANGED <<m_incoming_callbacks, m_incoming_descriptor, loopVars, added,
                 stack, ran, nested>>

\* ... and then executes SetTerminate().
ExecuteSetTerminate(t) ==
  /\ pc[t] = "terminate"
  /\ AddCallback("SetTerminate")
  /\ pc' = [pc EXCEPT ![t] = "send"]
  /\ UNCHANGED <<m_incoming_descriptor, loopVars, stack, ran, nested>>

-----------------------------------------------------------------------------
(* User code in the loop's thread calls the SelectServer.                   *)

\* Mutant: the loop is not woken for a callback added in its own thread.
LoopExecuteNoKick(kind) ==
  /\ InUserCode
  /\ kind = "SetTerminate" => m_is_running
  /\ AddCallback(kind)
  /\ UNCHANGED <<m_incoming_descriptor, loopVars, stack, pc, ran, nested>>

\* Execute() and Terminate(): "we do this even if we're in the same thread as
\* select() is called".
LoopExecute(kind) ==
  /\ InUserCode
  /\ kind = "SetTerminate" => m_is_running
  /\ AddCallback(kind)
  /\ m_incoming_descriptor' = TRUE
  /\ UNCHANGED <<loopVars, stack, pc, ran, nested>>

\* A frame of DrainCallbacks(), whose first look at the queue is still to come.
DrainFrame == [what |-> "drain", left |-> <<>>, busy |-> FALSE, from |-> Len(added)]

\* DrainCallbacks() called by user code, or by the owner outside Run().
DrainCallbacks ==
  /\ InUserCode \/ (loop = "out" /\ stack = <<>>)
  /\ stack' = Push(DrainFrame)
  /\ nested' = (nested \/ \E f \in DOMAIN stack : stack[f].left # <<>>)
  /\ UNCHANGED <<m_incoming_callbacks, m_incoming_descriptor, loopVars, added, pc, ran>>

\* User code returns to RunCallbacks() or to the pass that ran the handler.
Return ==
  /\ InUserCode
  /\ IF Top.what = "event"
     THEN stack' = Pop /\ loop' = "select"
     ELSE stack' = ReplaceTop([Top EXCEPT !.busy = FALSE]) /\ UNCHANGED loop
  /\ UNCHANGED <<m_incoming_callbacks, m_incoming_descriptor, flagVars, added,
                 pc, ran, nested>>

-----------------------------------------------------------------------------
(* The loop.                                                                *)

Run ==
  /\ loop = "out" /\ stack = <<>>
  /\ m_is_running' = TRUE
  /\ m_terminate' = FALSE
  /\ loop' = "loop"
  /\ UNCHANGED <<m_incoming_callbacks, m_incoming_descriptor, once, added, stack,
                 pc, ran, nested>>

\* One pass through the loop, which does not look at m_terminate.
RunOnce ==
  /\ loop = "out" /\ stack = <<>>
  /\ m_is_running' = TRUE
  /\ once' = TRUE
  /\ loop' = "select"
  /\ UNCHANGED <<m_incoming_callbacks, m_incoming_descriptor, m_terminate, added,
                 stack, pc, ran, nested>>

\* Mutant: m_terminate is cleared in every iteration, not once.
TestTerminateReset ==
  /\ loop = "loop"
  /\ loop' = IF once THEN "out" ELSE "select"
  /\ m_is_running' = ~once
  /\ m_terminate' = FALSE
  /\ once' = FALSE
  /\ UNCHANGED <<m_incoming_callbacks, m_incoming_descriptor, added, stack, pc,
                 ran, nested>>

\* The condition of Run()'s loop, and the ends of Run() and RunOnce().
TestTerminate ==
  /\ loop = "loop"
  /\ loop' = IF once \/ m_terminate THEN "out" ELSE "select"
  /\ m_is_running' = ~(once \/ m_terminate)
  /\ once' = FALSE
  /\ UNCHANGED <<m_incoming_callbacks, m_incoming_descriptor, m_terminate,
                 added, stack, pc, ran, nested>>

\* Within CheckForEvents() a loop callback, a timeout or another descriptor has
\* its handler run.
HandleEvent ==
  /\ loop = "select" /\ stack = <<>>
  /\ stack' = Push([what |-> "event", left |-> <<>>, busy |-> TRUE, from |-> Len(added)])
  /\ loop' = "event"
  /\ UNCHANGED <<m_incoming_callbacks, m_incoming_descriptor, flagVars, added,
                 pc, ran, nested>>

\* CheckForEvents() returns: everything select() reported has been handled.
SelectReturns ==
  /\ loop = "select"
  /\ loop' = "loop"
  /\ UNCHANGED <<m_incoming_callbacks, m_incoming_descriptor, flagVars, added,
                 stack, pc, ran, nested>>

\* select() fails: CheckForEvents() returns false, and Run() and RunOnce() end.
PollFails ==
  /\ loop = "select"
  /\ loop' = "out"
  /\ m_is_running' = FALSE
  /\ once' = FALSE
  /\ UNCHANGED <<m_incoming_callbacks, m_incoming_descriptor, m_terminate, added,
                 stack, pc, ran, nested>>

\* The loopback descriptor is readable: DrainAndExecute() reads all of it ...
ReadLoopback ==
  /\ loop = "select"
  /\ m_incoming_descriptor
  /\ m_incoming_descriptor' = FALSE
  /\ loop' = "swap"
  /\ UNCHANGED <<m_incoming_callbacks, flagVars, added, stack, pc, ran, nested>>

\* Mutant: the callbacks are copied, not swapped out.
SwapCallbacksCopy ==
  /\ loop = "swap"
  /\ stack' = Push([what |-> "batch", left |-> m_incoming_callbacks, busy |-> FALSE,
                    from |-> Len(added)])
  /\ loop' = "run"
  /\ UNCHANGED <<m_incoming_callbacks, m_incoming_descriptor, flagVars, added,
                 pc, ran, nested>>

\* ... and then swaps the callbacks out under the mutex.
SwapCallbacks ==
  /\ loop = "swap"
  /\ stack' = Push([what |-> "batch", left |-> m_incoming_callbacks, busy |-> FALSE,
                    from |-> Len(added)])
  /\ m_incoming_callbacks' = <<>>
  /\ loop' = "run"
  /\ UNCHANGED <<m_incoming_descriptor, flagVars, added, pc, ran, nested>>

\* RunCallbacks() is between two callbacks of the batch on top.
Idle == stack # <<>> /\ ~Top.busy

\* It runs cb and has the rest still to run; SetTerminate() returns at once.
RunNext(cb, rest) ==
  /\ ran' = Append(ran, cb)
  /\ stack' = ReplaceTop([Top EXCEPT !.left = rest, !.busy = (added[cb] = "plain")])
  /\ m_terminate' = (m_terminate \/ added[cb] = "SetTerminate")
  /\ UNCHANGED <<m_incoming_callbacks, m_incoming_descriptor, m_is_running, once,
                 loop, added, pc, nested>>

RunCallback == Idle /\ Top.left # <<>> /\ RunNext(Head(Top.left), Tail(Top.left))

\* DrainAndExecute() has run its batch; the pass over the descriptors and the
\* timeouts goes on.
FinishBatch ==
  /\ Idle /\ Top.left = <<>> /\ Top.what = "batch"
  /\ stack' = Pop
  /\ loop' = "select"
  /\ UNCHANGED <<m_incoming_callbacks, m_incoming_descriptor, flagVars, added,
                 pc, ran, nested>>

\* DrainCallbacks() takes what has been added meanwhile ...
DrainMore ==
  /\ Idle /\ Top.left = <<>> /\ Top.what = "drain"
  /\ m_incoming_callbacks # <<>>
  /\ stack' = ReplaceTop([Top EXCEPT !.left = m_incoming_callbacks])
  /\ m_incoming_callbacks' = <<>>
  /\ UNCHANGED <<m_incoming_descriptor, loopVars, added, pc, ran, nested>>

\* ... until the queue is empty, and returns.
DrainReturns ==
  /\ Idle /\ Top.left = <<>> /\ Top.what = "drain"
  /\ m_incoming_callbacks = <<>>
  /\ stack' = Pop
  /\ loop' = IF loop = "dying" /\ Len(stack) = 1 THEN "dead" ELSE loop
  /\ UNCHANGED <<m_incoming_callbacks, m_incoming_descriptor, flagVars, added, pc,
                 ran, nested>>

\* ~SelectServer, when no other thread uses the object any more: it drains the
\* callbacks.
Destroy ==
  /\ loop = "out" /\ stack = <<>>
  /\ \A t \in Thread : pc[t] = "idle"
  /\ loop' = "dying"
  /\ stack' = Push(DrainFrame)
  /\ UNCHANGED <<m_incoming_callbacks, m_incoming_descriptor, flagVars, added,
                 pc, ran, nested>>

-----------------------------------------------------------------------------
Next ==
  \/ \E t \in Thread : Execute(t) \/ Send(t) \/ Terminate(t) \/ ExecuteSetTerminate(t)
  \/ \E kind \in Kind : LoopExecute(kind)
  \/ DrainCallbacks
  \/ Return
  \/ Run
  \/ RunOnce
  \/ TestTerminate
  \/ HandleEvent
  \/ SelectReturns
  \/ PollFails
  \/ ReadLoopback
  \/ SwapCallbacks
  \/ RunCallback
  \/ FinishBatch
  \/ DrainMore
  \/ DrainReturns
  \/ Destroy

Spec == Init /\ [][Next]_vars

\* The threads make progress, user code returns however often it calls the
\* loop, a pass over the descriptors and timeouts ends, and passes handle a
\* descriptor that stays readable, so that other events cannot keep the
\* loopback descriptor from its turn.
FairSpec ==
  /\ Spec
  /\ \A t \in Thread : WF_vars(Send(t))
  /\ SF_vars(Return)
  /\ WF_vars(TestTerminate)
  /\ SF_vars(ReadLoopback)
  /\ SF_vars(SelectReturns)
  /\ WF_vars(SwapCallbacks)
  /\ SF_vars(RunCallback)
  /\ WF_vars(FinishBatch)
  /\ WF_vars(DrainMore)
  /\ WF_vars(DrainReturns)

-----------------------------------------------------------------------------
(* Properties.                                                              *)

\* Every variable has its type, and the loop's thread is in a batch or a
\* handler only where it can be; m_is_running is TRUE exactly within Run().
TypeOK ==
  /\ m_incoming_callbacks \in Seq(Callback)
  /\ m_incoming_descriptor \in BOOLEAN
  /\ m_terminate \in BOOLEAN
  /\ once \in BOOLEAN
  /\ added \in Seq(Kind)
  /\ loop \in {"out", "loop", "select", "event", "swap", "run", "dying", "dead"}
  /\ m_is_running = (loop \notin {"out", "dying", "dead"})
  /\ stack \in Seq(Frame)
  /\ loop \in {"loop", "select", "swap", "dead"} => stack = <<>>
  /\ loop \in {"event", "run", "dying"} => stack # <<>>
  /\ pc \in [Thread -> {"idle", "send", "terminate"}]
  /\ ran \in Seq(Callback)
  /\ nested \in BOOLEAN

\* The callbacks that have been added and not been run: in the batches the
\* loop's thread is in the middle of and in the queue.
Waiting == {i \in Callback :
  \/ \E f \in DOMAIN stack : \E k \in DOMAIN stack[f].left : stack[f].left[k] = i
  \/ \E k \in DOMAIN m_incoming_callbacks : m_incoming_callbacks[k] = i}

\* What ExecutorInterface promises: whatever threads and callbacks add and
\* wherever DrainCallbacks() nests, a callback is run later and once, in order
\* as long as nested is FALSE, and none is left when the loop is destroyed.
Promise == INSTANCE Executor WITH
  added <- Len(added),
  ordered <- ~nested,
  closed <- loop = "dead"

ImplementsExecutor == Promise!Spec

\* "callbacks will be run in the order in which they were added"
\* (ExecutorInterface.h): the order of the additions of all threads is the
\* order of the runs, across the swaps of DrainAndExecute() and
\* DrainCallbacks(), as long as no callback calls DrainCallbacks() when others
\* of its batch are still to run.
RunsInOrder == ~nested => \A k \in DOMAIN ran : ran[k] = k

\* Execute() and DrainAndExecute(): whenever callbacks are queued the loopback
\* descriptor is readable, or a thread is about to make it so, or the loop is
\* about to take them; select() never sleeps on a queued callback.
NoLostWakeup ==
  m_incoming_callbacks # <<>> =>
    \/ m_incoming_descriptor
    \/ \E t \in Thread : pc[t] = "send"
    \/ loop = "swap"

\* As long as Run() goes on, every callback added is run.
CallbacksRun ==
  \A i \in Callback :
    Len(added) >= i ~> (\E k \in DOMAIN ran : ran[k] = i) \/ ~m_is_running

\* "Run() will return once Terminate() has been called", when it was called
\* while the loop ran and its callback was added while it still does.
TerminateReturns ==
  (m_is_running /\ \E i \in Waiting : added[i] = "SetTerminate") ~> ~m_is_running
=============================================================================
