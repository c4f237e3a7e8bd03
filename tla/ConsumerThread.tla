---------------------------- MODULE ConsumerThread ----------------------------
(***************************************************************************)
(* Threads that run the callbacks of a shared queue                        *)
(* (common/thread/ConsumerThread.cpp), owned by an ExecutorThread, which   *)
(* has one and implements ExecutorInterface, or by a ThreadPool, which has *)
(* several; with Thread::Start() and Join(), and with the Future           *)
(* (include/ola/thread/FuturePrivate.h) by which                           *)
(* ExecutorThread::DrainCallbacks() waits.                                 *)
(*                                                                         *)
(* Another thread, the owner, starts, stops and destroys the object;       *)
(* clients call Execute() and DrainCallbacks().  The critical sections of  *)
(* m_mutex are single steps, except for RunRemaining(), which runs         *)
(* callbacks in it.  A callback may call Execute().  Waiting for a         *)
(* condition may end without a signal, as POSIX allows.                    *)
(***************************************************************************)
EXTENDS Naturals, Sequences, FiniteSets

CONSTANTS
  Client,           \* threads that call Execute() and DrainCallbacks()
  Worker,           \* the consumer threads
  MaxCallbacks      \* bound: callbacks added

ASSUME ConstantsAssumption ==
  /\ IsFiniteSet(Worker) /\ Worker # {}
  /\ "owner" \notin Client \cup Worker
  /\ "nobody" \notin Client
  /\ Client \cap Worker = {}
  /\ MaxCallbacks \in Nat

VARIABLES
  pool,             \* a ThreadPool, or else an ExecutorThread
  m_callback_queue,
  m_shutdown,
  m_mutex,          \* TRUE: held by RunRemaining()
  owner,            \* where the owner is
  worker,           \* where each consumer thread is
  client,           \* where each client is
  doing,            \* the callback a worker or the owner is running, or 0
  m_is_set,         \* the callbacks of DrainCallbacks() that set their Future
  added,            \* who is waiting for each callback added so far, if any
  ran,              \* history: the callbacks started, in order
  finished,         \* history: the callbacks that have returned
  stopping          \* history: callbacks added when m_shutdown was set

queueVars == <<m_callback_queue, added>>
runVars == <<doing, ran, finished>>
vars == <<pool, queueVars, m_shutdown, m_mutex, owner, worker, client, runVars,
          m_is_set, stopping>>

Nobody == "nobody"
Runner == Worker \cup {"owner"}

\* Mutant: an ExecutorThread with more than one consumer.
ConsumersAll == Worker

\* The threads that Init() or Start() creates.
Consumers == IF pool THEN Worker ELSE {CHOOSE w \in Worker : TRUE}

Init ==
  /\ pool \in BOOLEAN
  /\ m_callback_queue = <<>>
  /\ m_shutdown = FALSE
  /\ m_mutex = FALSE
  /\ owner = "new"
  /\ worker = [w \in Worker |-> "none"]
  /\ client = [c \in Client |-> "idle"]
  /\ doing = [r \in Runner |-> 0]
  /\ m_is_set = {}
  /\ added = <<>>
  /\ ran = <<>>
  /\ finished = {}
  /\ stopping = 0

-----------------------------------------------------------------------------
(* The condition variable of the queue.                                     *)

Waiting == {w \in Worker : worker[w] = "wait"}

\* One waiting thread, if there is one, goes on to take the mutex.
SignalTo(state) ==
  IF Waiting = {} THEN worker' = state
  ELSE \E w \in Waiting : worker' = [state EXCEPT ![w] = "lock"]

Broadcast == worker' = [w \in Worker |-> IF w \in Waiting THEN "lock" ELSE worker[w]]

\* The wait ends without a signal.
WakeUp(w) ==
  /\ worker[w] = "wait"
  /\ worker' = [worker EXCEPT ![w] = "lock"]
  /\ UNCHANGED <<pool, queueVars, m_shutdown, m_mutex, owner, client, runVars,
                 m_is_set, stopping>>

-----------------------------------------------------------------------------
(* Execute() and DrainCallbacks().                                          *)

Push(who) ==
  /\ ~m_mutex
  /\ owner # "dead"
  /\ Len(added) < MaxCallbacks
  /\ added' = Append(added, who)
  /\ m_callback_queue' = Append(m_callback_queue, Len(added'))

\* Execute() by a client.  The pool signals with the mutex held, the
\* ExecutorThread after it has released it.
Execute(c) ==
  /\ client[c] = "idle"
  /\ Push(Nobody)
  /\ IF pool THEN SignalTo(worker) /\ UNCHANGED client
     ELSE client' = [client EXCEPT ![c] = "signal"] /\ UNCHANGED worker
  /\ UNCHANGED <<pool, m_shutdown, m_mutex, owner, runVars, m_is_set, stopping>>

\* DrainCallbacks(): a callback that sets a new Future is added.
DrainCallbacks(c) ==
  /\ ~pool
  /\ client[c] = "idle"
  /\ Push(c)
  /\ client' = [client EXCEPT ![c] = "drain signal"]
  /\ UNCHANGED <<pool, m_shutdown, m_mutex, owner, worker, runVars, m_is_set, stopping>>

\* The callback, and so the Future, of the DrainCallbacks() that c is in.
DrainOf(c) == CHOOSE i \in DOMAIN added :
                added[i] = c /\ \A j \in DOMAIN added : added[j] = c => j <= i

Signal(c) ==
  /\ client[c] \in {"signal", "drain signal"}
  /\ client' = [client EXCEPT ![c] = IF @ = "signal" THEN "idle" ELSE "get"]
  /\ SignalTo(worker)
  /\ UNCHANGED <<pool, queueVars, m_shutdown, m_mutex, owner, runVars, m_is_set,
                 stopping>>

\* Get() finds the Future set and returns, or waits.
Get(c) ==
  /\ client[c] = "get"
  /\ client' = [client EXCEPT ![c] = IF DrainOf(c) \in m_is_set THEN "idle" ELSE "wait"]
  /\ UNCHANGED <<pool, queueVars, m_shutdown, m_mutex, owner, worker, runVars,
                 m_is_set, stopping>>

\* The wait in Get() has been ended by the broadcast.
GetReturns(c) ==
  /\ client[c] = "woken"
  /\ client' = [client EXCEPT ![c] = "idle"]
  /\ UNCHANGED <<pool, queueVars, m_shutdown, m_mutex, owner, worker, runVars,
                 m_is_set, stopping>>

\* The wait in Get() ends without a signal; m_is_set is not looked at again.
GetWakeUp(c) ==
  /\ client[c] = "wait"
  /\ client' = [client EXCEPT ![c] = "idle"]
  /\ UNCHANGED <<pool, queueVars, m_shutdown, m_mutex, owner, worker, runVars,
                 m_is_set, stopping>>

-----------------------------------------------------------------------------
(* Callbacks, which a worker runs without the mutex and RunRemaining() with *)
(* it.  r is the thread that runs one.                                      *)

Begin(r) ==
  /\ m_callback_queue # <<>>
  /\ m_callback_queue' = Tail(m_callback_queue)
  /\ doing' = [doing EXCEPT ![r] = Head(m_callback_queue)]
  /\ ran' = Append(ran, Head(m_callback_queue))
  /\ UNCHANGED <<added, finished>>

\* The callback of DrainCallbacks() sets the Future ...
SetFuture(r) ==
  /\ doing[r] # 0
  /\ added[doing[r]] \in Client
  /\ doing[r] \notin m_is_set
  /\ m_is_set' = m_is_set \cup {doing[r]}
  /\ UNCHANGED <<pool, queueVars, m_shutdown, m_mutex, owner, worker, client,
                 runVars, stopping>>

\* ... and broadcasts once it has released the Future's mutex.  Both touch a
\* Future that is gone when Get() has returned already; the memory is taken
\* not to be in use again.
BroadcastFuture(r) ==
  /\ doing[r] \in m_is_set
  /\ LET c == added[doing[r]]
     IN  client' = IF client[c] = "wait" /\ DrainOf(c) = doing[r]
                   THEN [client EXCEPT ![c] = "woken"] ELSE client
  /\ finished' = finished \cup {doing[r]}
  /\ doing' = [doing EXCEPT ![r] = 0]
  /\ worker' = IF r = "owner" THEN worker ELSE [worker EXCEPT ![r] = "lock"]
  /\ UNCHANGED <<pool, queueVars, m_shutdown, m_mutex, owner, ran, m_is_set, stopping>>

\* Another callback returns, unless it waits for the mutex.
Return(r) ==
  /\ doing[r] # 0
  /\ added[doing[r]] = Nobody
  /\ IF r = "owner" THEN owner # "stuck" ELSE worker[r] = "run"
  /\ finished' = finished \cup {doing[r]}
  /\ doing' = [doing EXCEPT ![r] = 0]
  /\ worker' = IF r = "owner" THEN worker ELSE [worker EXCEPT ![r] = "lock"]
  /\ UNCHANGED <<pool, queueVars, m_shutdown, m_mutex, owner, client, ran,
                 m_is_set, stopping>>

\* It calls Execute() in a worker ...
ExecuteInWorker(w) ==
  /\ worker[w] = "run"
  /\ added[doing[w]] = Nobody
  /\ Push(Nobody)
  /\ IF pool THEN SignalTo(worker)
     ELSE worker' = [worker EXCEPT ![w] = "run signal"]
  /\ UNCHANGED <<pool, m_shutdown, m_mutex, owner, client, runVars, m_is_set, stopping>>

SignalInWorker(w) ==
  /\ worker[w] = "run signal"
  /\ SignalTo([worker EXCEPT ![w] = "run"])
  /\ UNCHANGED <<pool, queueVars, m_shutdown, m_mutex, owner, client, runVars,
                 m_is_set, stopping>>

\* ... or in RunRemaining(), where it waits for the mutex its thread holds.
ExecuteInOwner ==
  /\ doing["owner"] # 0
  /\ added[doing["owner"]] = Nobody
  /\ owner' = "stuck"
  /\ UNCHANGED <<pool, queueVars, m_shutdown, m_mutex, worker, client, runVars,
                 m_is_set, stopping>>

-----------------------------------------------------------------------------
(* ConsumerThread::Run(): the mutex is taken, and the queue emptied.        *)

\* EmptyQueue() takes the next callback and releases the mutex to run it.
TakeCallback(w) ==
  /\ worker[w] = "lock"
  /\ ~m_mutex
  /\ Begin(w)
  /\ worker' = [worker EXCEPT ![w] = "run"]
  /\ UNCHANGED <<pool, m_shutdown, m_mutex, owner, client, m_is_set, stopping>>

\* Mutant: m_shutdown is looked at before the queue is empty.
TestShutdownFirst(w) ==
  /\ worker[w] = "lock"
  /\ ~m_mutex
  /\ m_callback_queue = <<>> \/ m_shutdown
  /\ worker' = [worker EXCEPT ![w] = IF m_shutdown THEN "exited" ELSE "wait"]
  /\ UNCHANGED <<pool, queueVars, m_shutdown, m_mutex, owner, client, runVars,
                 m_is_set, stopping>>

\* With the queue empty the thread ends or waits.
TestShutdown(w) ==
  /\ worker[w] = "lock"
  /\ ~m_mutex
  /\ m_callback_queue = <<>>
  /\ worker' = [worker EXCEPT ![w] = IF m_shutdown THEN "exited" ELSE "wait"]
  /\ UNCHANGED <<pool, queueVars, m_shutdown, m_mutex, owner, client, runVars,
                 m_is_set, stopping>>

-----------------------------------------------------------------------------
(* The owner.                                                               *)

\* Thread::Start() creates a thread and waits for it to run ...
StartThread ==
  /\ owner = "new"
  /\ \E w \in Consumers :
       /\ worker[w] = "none"
       /\ worker' = [worker EXCEPT ![w] = "created"]
  /\ owner' = "starting"
  /\ UNCHANGED <<pool, queueVars, m_shutdown, m_mutex, client, runVars, m_is_set,
                 stopping>>

\* Start() returns, and Init() goes on to the next; state is where the threads
\* are by then.
StartReturns(state) ==
  owner' = IF \A v \in Consumers : state[v] # "none" THEN "up" ELSE "new"

\* ... which sets m_running, and ends the wait if that has not been done.
InternalRun(w) ==
  /\ worker[w] \in {"created", "late"}
  /\ worker' = [worker EXCEPT ![w] = "lock"]
  /\ IF worker[w] = "created" THEN StartReturns(worker') ELSE UNCHANGED owner
  /\ UNCHANGED <<pool, queueVars, m_shutdown, m_mutex, client, runVars, m_is_set,
                 stopping>>

\* The wait in Start() ends without a signal; m_running is not looked at, and
\* the thread is late.
StartWakeUp(w) ==
  /\ worker[w] = "created"
  /\ worker' = [worker EXCEPT ![w] = "late"]
  /\ StartReturns(worker')
  /\ UNCHANGED <<pool, queueVars, m_shutdown, m_mutex, client, runVars, m_is_set,
                 stopping>>

Started == {w \in Worker : worker[w] \notin {"none", "joined", "lost"}}

\* Mutant: the pool wakes one thread only.
ShutdownOne(then) ==
  IF pool /\ Started = {}
  THEN owner' = then /\ UNCHANGED <<m_shutdown, worker, stopping>>
  ELSE /\ ~m_mutex
       /\ m_shutdown' = TRUE
       /\ stopping' = Len(added)
       /\ IF pool THEN owner' = "join" /\ SignalTo(worker)
          ELSE owner' = "signal" /\ UNCHANGED worker

\* A pool's JoinAllThreads(); then is where it goes without threads to join.
\* An ExecutorThread signals after it has released the mutex.
Shutdown(then) ==
  IF pool /\ Started = {}
  THEN owner' = then /\ UNCHANGED <<m_shutdown, worker, stopping>>
  ELSE /\ ~m_mutex
       /\ m_shutdown' = TRUE
       /\ stopping' = Len(added)
       /\ IF pool THEN owner' = "join" /\ Broadcast
          ELSE owner' = "signal" /\ UNCHANGED worker

\* A thread cannot be created: Start() fails, and Init() joins the others.
StartFails ==
  /\ owner = "new"
  /\ IF pool THEN Shutdown("down")
     ELSE owner' = "down" /\ UNCHANGED <<m_shutdown, worker, stopping>>
  /\ UNCHANGED <<pool, queueVars, m_mutex, client, runVars, m_is_set>>

\* Stop() and JoinAll().  Stop() does nothing as long as its thread is late.
Stop ==
  /\ owner = "up"
  /\ pool \/ \A w \in Worker : worker[w] # "late"
  /\ Shutdown("down")
  /\ UNCHANGED <<pool, queueVars, m_mutex, client, runVars, m_is_set>>

StopSignal ==
  /\ owner = "signal"
  /\ owner' = "join"
  /\ SignalTo(worker)
  /\ UNCHANGED <<pool, queueVars, m_shutdown, m_mutex, client, runVars, m_is_set,
                 stopping>>

\* Every thread has been joined; but a late one is not waited for, and is lost:
\* its object is deleted, and what it does then is not defined.
Join ==
  /\ owner = "join"
  /\ \A w \in Started : worker[w] \in {"exited", "late"}
  /\ worker' = [w \in Worker |-> CASE worker[w] = "exited" -> "joined"
                                   [] worker[w] = "late" -> "lost"
                                   [] OTHER -> worker[w]]
  /\ owner' = IF pool THEN "down" ELSE "remaining"
  /\ UNCHANGED <<pool, queueVars, m_shutdown, m_mutex, client, runVars, m_is_set,
                 stopping>>

\* RunRemaining() takes the mutex ...
LockRemaining ==
  /\ owner \in {"remaining", "dying"}
  /\ ~m_mutex
  /\ m_mutex' = TRUE
  /\ UNCHANGED <<pool, queueVars, m_shutdown, owner, worker, client, runVars,
                 m_is_set, stopping>>

\* ... runs callback after callback ...
RunRemaining ==
  /\ owner \in {"remaining", "dying"}
  /\ m_mutex
  /\ doing["owner"] = 0
  /\ Begin("owner")
  /\ UNCHANGED <<pool, m_shutdown, m_mutex, owner, worker, client, m_is_set, stopping>>

\* Mutant: it runs one callback only.
RemainingDoneEarly ==
  /\ owner \in {"remaining", "dying"}
  /\ m_mutex
  /\ doing["owner"] = 0
  /\ m_mutex' = FALSE
  /\ owner' = IF owner = "dying" THEN "dead" ELSE "down"
  /\ UNCHANGED <<pool, queueVars, m_shutdown, worker, client, runVars, m_is_set,
                 stopping>>

\* ... and releases it with the queue empty.
RemainingDone ==
  /\ owner \in {"remaining", "dying"}
  /\ m_mutex
  /\ doing["owner"] = 0
  /\ m_callback_queue = <<>>
  /\ m_mutex' = FALSE
  /\ owner' = IF owner = "dying" THEN "dead" ELSE "down"
  /\ UNCHANGED <<pool, queueVars, m_shutdown, worker, client, runVars, m_is_set,
                 stopping>>

\* The destructor, with the threads stopped and nobody using the object.
Destroy ==
  /\ owner \in {"new", "down"}
  /\ Started = {}
  /\ \A c \in Client : client[c] = "idle"
  /\ owner' = IF pool THEN "dead" ELSE "dying"
  /\ UNCHANGED <<pool, queueVars, m_shutdown, m_mutex, worker, client, runVars,
                 m_is_set, stopping>>

-----------------------------------------------------------------------------
OwnerStep == StopSignal \/ Join \/ LockRemaining \/ RunRemaining \/ RemainingDone

RunnerStep(r) == SetFuture(r) \/ BroadcastFuture(r) \/ Return(r)

WorkerStep(w) ==
  InternalRun(w) \/ TakeCallback(w) \/ TestShutdown(w) \/ SignalInWorker(w)

ClientStep(c) == Signal(c) \/ Get(c) \/ GetReturns(c)

Next ==
  \/ \E c \in Client : \/ Execute(c) \/ DrainCallbacks(c) \/ ClientStep(c)
                       \/ GetWakeUp(c)
  \/ \E w \in Worker : WorkerStep(w) \/ ExecuteInWorker(w) \/ WakeUp(w) \/ StartWakeUp(w)
  \/ \E r \in Runner : RunnerStep(r)
  \/ ExecuteInOwner
  \/ StartThread \/ StartFails \/ Stop \/ OwnerStep \/ Destroy

Spec == Init /\ [][Next]_vars

\* Threads that may go on do, callbacks return, and the owner carries on with
\* what it has begun.
FairSpec ==
  /\ Spec
  /\ \A w \in Worker : WF_vars(WorkerStep(w))
  /\ \A r \in Runner : SF_vars(RunnerStep(r))
  /\ \A c \in Client : WF_vars(ClientStep(c))
  /\ WF_vars(OwnerStep)

-----------------------------------------------------------------------------
(* Properties.                                                              *)

\* What ExecutorInterface promises, with callbacks handed from the queue to the
\* workers and what is left to RunRemaining(), for a pool up to its destruction:
\* every callback is run once, in order, never by Execute() itself, and an
\* ExecutorThread is destroyed with none left.
Promise == INSTANCE Executor WITH
  added <- Len(added),
  ordered <- TRUE,
  closed <- ~pool /\ owner = "dead"

ImplementsExecutor == Promise!Spec

\* "Stop() will return once there is no pending callbacks" (ExecutorThread.h),
\* and what ThreadPoolTest expects of JoinAll(): whatever had been added when
\* m_shutdown was set has been run to its end when they return, whichever
\* thread ran it and however late the others were; unless Thread::Start() was
\* ended by nobody each time, and no thread at all had begun when it was joined.
StopRunsAll ==
  owner \in {"down", "dead"} =>
    \/ 1..stopping \subseteq finished
    \/ \A w \in Worker : worker[w] \in {"none", "lost"}

\* DrainCallbacks() that is not ended by a spurious wake-up returns only when
\* every callback added before it has been run to its end, also when Stop()
\* comes in between and RunRemaining() runs them.
DrainWaits ==
  [][\A c \in Client :
       client[c] \in {"get", "woken"} /\ client'[c] = "idle" =>
         1..(DrainOf(c) - 1) \subseteq finished]_vars

\* DrainCallbacks() and Execute() return, so every callback queued before is run,
\* also when Stop() comes in between, and Stop() and JoinAll() return; unless a
\* callback left to RunRemaining() calls Execute() and leaves the owner with the
\* mutex for ever.
NobodyWaitsForever ==
  /\ \A c \in Client :
       owner = "up" /\ client[c] # "idle" ~> client[c] = "idle" \/ owner = "stuck"
  /\ owner \in {"signal", "join", "remaining"} ~> owner \in {"down", "stuck"}
=============================================================================
