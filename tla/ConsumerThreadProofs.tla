------------------------- MODULE ConsumerThreadProofs -------------------------
(***************************************************************************)
(* Proofs about ConsumerThread, for any number of clients and consumer     *)
(* threads and any bound on the callbacks: the numbering of the queue,     *)
(* which gives the order; where the threads are, which gives that nothing  *)
(* is left behind by Stop(); and that DrainCallbacks() waits.              *)
(***************************************************************************)
EXTENDS ConsumerThread, SequenceTheorems, TLAPS

Place == {"none", "created", "late", "lock", "run", "run signal", "wait", "exited",
          "joined", "lost"}

ClientPlace == {"idle", "signal", "drain signal", "get", "wait", "woken"}
Callers == Client \cup {Nobody}

TypeOK ==
  /\ pool \in BOOLEAN /\ m_shutdown \in BOOLEAN /\ m_mutex \in BOOLEAN
  /\ owner \in {"new", "starting", "up", "signal", "join", "remaining", "down",
                "dying", "dead", "stuck"}
  /\ worker \in [Worker -> Place]
  /\ client \in [Client -> ClientPlace]
  /\ added \in Seq(Callers)
  /\ ran \in Seq(Nat)
  /\ m_callback_queue \in Seq(Nat)
  /\ doing \in [Runner -> Nat]
  /\ stopping \in Nat

\* The callbacks started and then those in the queue are all that were added.
Numbered ==
  /\ Len(ran) + Len(m_callback_queue) = Len(added)
  /\ \A k \in 1..Len(ran) : ran[k] = k
  /\ \A k \in 1..Len(m_callback_queue) : m_callback_queue[k] = Len(ran) + k

\* A callback that was started has returned or is being run, by a thread that
\* can be running it.
Accounted ==
  /\ \A i \in 1..Len(ran) : i \in finished \/ \E r \in Runner : doing[r] = i
  /\ \A r \in Runner : doing[r] <= Len(ran)
  /\ \A w \in Worker : doing[w] # 0 => worker[w] \in {"run", "run signal"}
  /\ doing["owner"] # 0 => owner \in {"remaining", "dying", "stuck"}

\* The threads that may have been started, and where they are.
Gone == {"none", "joined", "lost"}

\* No thread has begun, but for some that were late when they were joined.
NoneBegan == \A w \in Worker : worker[w] \in {"none", "lost"}

Places ==
  /\ \A w \in Worker \ Consumers : worker[w] = "none"
  /\ \A w \in Worker : worker[w] = "created" => owner = "starting"
  /\ \A v, w \in Worker : worker[v] = "created" /\ worker[w] = "created" => v = w
  /\ ~pool => \A w \in Worker : worker[w] = "late" => owner = "up"
  /\ owner \in {"down", "dead", "remaining", "dying", "stuck"} =>
       \A w \in Worker : worker[w] \in Gone
  /\ ~pool /\ owner = "new" => \A w \in Worker : worker[w] = "none"
  /\ owner \in {"signal", "join"} \/ (~pool /\ owner = "up") =>
       \E w \in Worker : worker[w] \notin Gone

\* A thread ends only when all that had been added at Stop() has been started.
Stopped ==
  /\ owner \in {"new", "starting", "up"} => ~m_shutdown /\ stopping = 0
  /\ \A w \in Worker : worker[w] \in {"exited", "joined", "lost"} => m_shutdown
  /\ owner \in {"signal", "join"} => m_shutdown
  /\ stopping <= Len(added)
  /\ \A w \in Worker : worker[w] \in {"exited", "joined"} => stopping <= Len(ran)
  /\ owner \in {"down", "dead", "remaining", "dying", "stuck"} =>
       stopping <= Len(ran) \/ NoneBegan

\* The last callback that c has added.
IsDrainOf(i, c) ==
  i \in DOMAIN added /\ added[i] = c /\ \A j \in DOMAIN added : added[j] = c => j <= i

Draining == {"drain signal", "get", "wait", "woken"}

\* A Future is set when all callbacks before its own have returned.
Drained ==
  /\ pool => \A c \in Client : client[c] = "idle"
  /\ pool => \A i \in DOMAIN added : added[i] = Nobody
  /\ \A i \in m_is_set : i \in 1..Len(ran) /\ 1..(i - 1) \subseteq finished
  /\ \A c \in Client : client[c] \in Draining => \E i \in DOMAIN added : IsDrainOf(i, c)
  /\ \A c \in Client : client[c] = "woken" =>
       \E i \in m_is_set : IsDrainOf(i, c)

-----------------------------------------------------------------------------
(* The pieces that the actions are made of.                                 *)

LEMMA PushFacts ==
  ASSUME TypeOK, NEW who \in Callers, Push(who)
  PROVE  /\ added' \in Seq(Callers)
         /\ Len(added') = Len(added) + 1
         /\ DOMAIN added = 1..Len(added) /\ DOMAIN added' = 1..(Len(added) + 1)
         /\ \A i \in 1..Len(added) : added'[i] = added[i]
         /\ added'[Len(added) + 1] = who
         /\ m_callback_queue' \in Seq(Nat)
         /\ Len(m_callback_queue') = Len(m_callback_queue) + 1
         /\ \A k \in 1..Len(m_callback_queue) :
              m_callback_queue'[k] = m_callback_queue[k]
         /\ m_callback_queue'[Len(m_callback_queue) + 1] = Len(added) + 1
<1>1. /\ added \in Seq(Callers) /\ m_callback_queue \in Seq(Nat)
      /\ Len(added) \in Nat /\ Len(m_callback_queue) \in Nat
  <2>1. added \in Seq(Callers) /\ m_callback_queue \in Seq(Nat)
    BY DEF TypeOK
  <2> QED
    BY <2>1
<1>2. /\ added' = Append(added, who)
      /\ m_callback_queue' = Append(m_callback_queue, Len(added'))
  BY DEF Push
<1>3. /\ added' \in Seq(Callers)
      /\ Len(added') = Len(added) + 1 /\ Len(added) + 1 \in Nat
      /\ DOMAIN added = 1..Len(added) /\ DOMAIN added' = 1..(Len(added) + 1)
      /\ \A i \in 1..Len(added) : added'[i] = added[i]
      /\ added'[Len(added) + 1] = who
  BY <1>1, <1>2
<1>4. m_callback_queue' = Append(m_callback_queue, Len(added) + 1)
  BY <1>2, <1>3
<1>5. /\ m_callback_queue' \in Seq(Nat)
      /\ Len(m_callback_queue') = Len(m_callback_queue) + 1
      /\ \A k \in 1..Len(m_callback_queue) : m_callback_queue'[k] = m_callback_queue[k]
      /\ m_callback_queue'[Len(m_callback_queue) + 1] = Len(added) + 1
  BY <1>1, <1>3, <1>4
<1> QED
  BY <1>3, <1>5

\* The callback taken from the queue is the next that has not been started.
LEMMA BeginFacts ==
  ASSUME TypeOK, Numbered, NEW r \in Runner, Begin(r)
  PROVE  /\ ran' \in Seq(Nat)
         /\ Len(ran') = Len(ran) + 1
         /\ \A k \in 1..Len(ran) : ran'[k] = ran[k]
         /\ ran'[Len(ran) + 1] = Len(ran) + 1
         /\ ran' = Append(ran, Len(ran) + 1)
         /\ m_callback_queue' \in Seq(Nat)
         /\ Len(m_callback_queue) = Len(m_callback_queue') + 1
         /\ \A k \in 1..Len(m_callback_queue') :
              m_callback_queue'[k] = m_callback_queue[k + 1]
         /\ doing' = [doing EXCEPT ![r] = Len(ran) + 1]
         /\ Len(ran) + 1 <= Len(added)
         /\ added' = added /\ finished' = finished
<1>1. /\ ran \in Seq(Nat) /\ m_callback_queue \in Seq(Nat)
      /\ Len(ran) \in Nat /\ Len(m_callback_queue) \in Nat /\ Len(added) \in Nat
  <2>1. ran \in Seq(Nat) /\ m_callback_queue \in Seq(Nat) /\ added \in Seq(Callers)
    BY DEF TypeOK
  <2> QED
    BY <2>1
<1>2. m_callback_queue # <<>> /\ Len(m_callback_queue) >= 1
  BY <1>1 DEF Begin
<1>3. Head(m_callback_queue) = Len(ran) + 1
  <2>1. Head(m_callback_queue) = m_callback_queue[1]
    BY <1>1, <1>2
  <2> QED
    BY <1>1, <1>2, <2>1 DEF Numbered
<1>4. /\ m_callback_queue' = Tail(m_callback_queue)
      /\ ran' = Append(ran, Len(ran) + 1)
      /\ doing' = [doing EXCEPT ![r] = Len(ran) + 1]
      /\ added' = added /\ finished' = finished
  BY <1>3 DEF Begin
<1>5. /\ ran' \in Seq(Nat)
      /\ Len(ran') = Len(ran) + 1
      /\ \A k \in 1..Len(ran) : ran'[k] = ran[k]
      /\ ran'[Len(ran) + 1] = Len(ran) + 1
  BY <1>1, <1>4
<1>6. /\ m_callback_queue' \in Seq(Nat)
      /\ Len(m_callback_queue) = Len(m_callback_queue') + 1
      /\ \A k \in 1..Len(m_callback_queue') : m_callback_queue'[k] = m_callback_queue[k + 1]
  BY <1>1, <1>2, <1>4
<1>7. Len(ran) + 1 <= Len(added)
  BY <1>1, <1>2 DEF Numbered
<1> QED
  BY <1>4, <1>5, <1>6, <1>7

\* A signal takes at most one thread from its wait.
LEMMA SignalFacts ==
  ASSUME TypeOK, NEW state \in [Worker -> Place], SignalTo(state)
  PROVE  /\ worker' \in [Worker -> Place]
         /\ \A v \in Worker : \/ worker'[v] = state[v]
                              \/ worker[v] = "wait" /\ worker'[v] = "lock"
<1>1. CASE worker' = state
  BY <1>1
<1>2. ASSUME NEW w \in Waiting, worker' = [state EXCEPT ![w] = "lock"]
      PROVE  /\ worker' \in [Worker -> Place]
             /\ \A v \in Worker : \/ worker'[v] = state[v]
                                  \/ worker[v] = "wait" /\ worker'[v] = "lock"
  <2>1. w \in Worker /\ worker[w] = "wait"
    BY <1>2 DEF Waiting
  <2>2. "lock" \in Place
    BY DEF Place
  <2> QED
    BY <1>2, <2>1, <2>2
<1> QED
  BY <1>1, <1>2 DEF SignalTo

LEMMA BroadcastFacts ==
  ASSUME TypeOK, Broadcast
  PROVE  /\ worker' \in [Worker -> Place]
         /\ \A v \in Worker : \/ worker'[v] = worker[v]
                              \/ worker[v] = "wait" /\ worker'[v] = "lock"
BY DEF TypeOK, Broadcast, Waiting, Place

\* Where a stop leads.
LEMMA ShutdownFacts ==
  ASSUME TypeOK, Shutdown("down")
  PROVE  /\ worker' \in [Worker -> Place]
         /\ \A v \in Worker : \/ worker'[v] = worker[v]
                              \/ worker[v] = "wait" /\ worker'[v] = "lock"
         /\ \/ /\ pool /\ owner' = "down" /\ m_shutdown' = m_shutdown
               /\ stopping' = stopping
               /\ \A v \in Worker : worker[v] \in Gone
            \/ /\ m_shutdown' = TRUE /\ stopping' = Len(added)
               /\ owner' = IF pool THEN "join" ELSE "signal"
               /\ pool => \E v \in Worker : worker[v] \notin Gone
<1>1. worker \in [Worker -> Place]
  BY DEF TypeOK
<1>2. CASE pool /\ Started = {}
  BY <1>1, <1>2 DEF Shutdown, Started, Gone
<1>3. CASE pool /\ Started # {}
  <2>1. Broadcast /\ owner' = "join" /\ m_shutdown' = TRUE /\ stopping' = Len(added)
    BY <1>3 DEF Shutdown
  <2>2. \E v \in Worker : worker[v] \notin Gone
    BY <1>3 DEF Started, Gone
  <2> QED
    BY <1>3, <2>1, <2>2, BroadcastFacts
<1>4. CASE ~pool
  BY <1>1, <1>4 DEF Shutdown
<1> QED
  BY <1>2, <1>3, <1>4

LEMMA ConsumerFacts ==
  /\ Consumers \subseteq Worker /\ Consumers # {}
  /\ ~pool => \A v, w \in Consumers : v = w
  /\ \A w \in Worker : w \in Runner /\ w # "owner"
  /\ "owner" \in Runner
<1>1. PICK w \in Worker : TRUE
  BY ConstantsAssumption
<1>2. (CHOOSE v \in Worker : TRUE) \in Worker
  BY <1>1
<1> QED
  BY <1>2, ConstantsAssumption DEF Consumers, Runner

-----------------------------------------------------------------------------
(* The types and the numbering.                                             *)

LEMMA TypeInit ==
  ASSUME Init
  PROVE  TypeOK /\ Numbered
<1>1. /\ m_callback_queue = <<>> /\ added = <<>> /\ ran = <<>>
      /\ worker \in [Worker -> Place] /\ client \in [Client -> ClientPlace]
      /\ doing \in [Runner -> Nat]
  BY DEF Init, Place, ClientPlace
<1>2. /\ added \in Seq(Callers) /\ ran \in Seq(Nat) /\ m_callback_queue \in Seq(Nat)
      /\ Len(added) = 0 /\ Len(ran) = 0 /\ Len(m_callback_queue) = 0
  BY <1>1
<1>3. TypeOK
  BY <1>1, <1>2 DEF Init, TypeOK
<1>4. Numbered
  BY <1>2 DEF Numbered
<1> QED
  BY <1>3, <1>4

LEMMA TypeNext ==
  ASSUME TypeOK, Numbered, [Next]_vars
  PROVE  TypeOK'
<1> DEFINE Rest == /\ pool' \in BOOLEAN /\ m_shutdown' \in BOOLEAN
                   /\ m_mutex' \in BOOLEAN
                   /\ owner' \in {"new", "starting", "up", "signal", "join",
                                  "remaining", "down", "dying", "dead", "stuck"}
                   /\ stopping' \in Nat
           Workers == worker' \in [Worker -> Place]
           Clients == client' \in [Client -> ClientPlace]
           Queues == /\ added' \in Seq(Callers) /\ ran' \in Seq(Nat)
                     /\ m_callback_queue' \in Seq(Nat)
           Doing == doing' \in [Runner -> Nat]
<1>0. SUFFICES Rest /\ Workers /\ Clients /\ Queues /\ Doing
  BY DEF TypeOK
<1>1. /\ pool \in BOOLEAN /\ m_shutdown \in BOOLEAN /\ m_mutex \in BOOLEAN
      /\ owner \in {"new", "starting", "up", "signal", "join",
                    "remaining", "down", "dying", "dead", "stuck"}
      /\ stopping \in Nat
      /\ worker \in [Worker -> Place]
      /\ client \in [Client -> ClientPlace]
      /\ doing \in [Runner -> Nat]
  BY DEF TypeOK
<1>2. added \in Seq(Callers) /\ ran \in Seq(Nat) /\ m_callback_queue \in Seq(Nat)
  BY DEF TypeOK
<1>3. Len(added) \in Nat /\ Len(ran) \in Nat
  BY <1>2
<1>4. Nobody \in Callers /\ \A c \in Client : c \in Callers
  BY DEF Callers
<1>5. ASSUME NEW c \in Client, Execute(c)
      PROVE  Rest /\ Workers /\ Clients /\ Queues /\ Doing
  <2>1. Rest /\ Doing /\ UNCHANGED ran
    BY <1>1, <1>5 DEF Execute, runVars
  <2>2. Queues
    BY <1>2, <1>4, <1>5, <2>1, PushFacts DEF Execute
  <2>3. Workers
    BY <1>1, <1>5, SignalFacts DEF Execute
  <2>4. Clients
    BY <1>1, <1>5 DEF Execute, ClientPlace
  <2> QED
    BY <2>1, <2>2, <2>3, <2>4
<1>6. ASSUME NEW c \in Client, DrainCallbacks(c)
      PROVE  Rest /\ Workers /\ Clients /\ Queues /\ Doing
  <2>1. Rest /\ Doing /\ Workers /\ UNCHANGED ran
    BY <1>1, <1>6 DEF DrainCallbacks, runVars
  <2>2. Queues
    BY <1>2, <1>4, <1>6, <2>1, PushFacts DEF DrainCallbacks
  <2>3. Clients
    BY <1>1, <1>6 DEF DrainCallbacks, ClientPlace
  <2> QED
    BY <2>1, <2>2, <2>3
<1>7. ASSUME NEW c \in Client, ClientStep(c) \/ GetWakeUp(c)
      PROVE  Rest /\ Workers /\ Clients /\ Queues /\ Doing
  <2>1. Rest /\ Doing /\ Queues
    BY <1>1, <1>2, <1>7 DEF ClientStep, GetWakeUp, Signal, Get, GetReturns, runVars, queueVars
  <2>2. Workers
    BY <1>1, <1>7, SignalFacts DEF ClientStep, GetWakeUp, Signal, Get, GetReturns
  <2>3. Clients
    BY <1>1, <1>7 DEF ClientStep, GetWakeUp, Signal, Get, GetReturns, ClientPlace
  <2> QED
    BY <2>1, <2>2, <2>3
<1>8. ASSUME NEW w \in Worker, TakeCallback(w)
      PROVE  Rest /\ Workers /\ Clients /\ Queues /\ Doing
  <2>1. Rest /\ Clients /\ Workers
    BY <1>1, <1>8 DEF TakeCallback, Place
  <2>2. w \in Runner /\ Begin(w)
    BY <1>8, ConsumerFacts DEF TakeCallback
  <2>3. /\ ran' \in Seq(Nat) /\ m_callback_queue' \in Seq(Nat) /\ added' = added
        /\ doing' = [doing EXCEPT ![w] = Len(ran) + 1]
    BY <2>2, BeginFacts
  <2>4. Queues
    BY <1>2, <2>3
  <2>5. Doing
    BY <1>1, <1>3, <2>2, <2>3
  <2> QED
    BY <2>1, <2>4, <2>5
<1>9. ASSUME NEW w \in Worker, ExecuteInWorker(w)
      PROVE  Rest /\ Workers /\ Clients /\ Queues /\ Doing
  <2>1. Rest /\ Clients /\ Doing /\ UNCHANGED ran
    BY <1>1, <1>9 DEF ExecuteInWorker, runVars
  <2>2. Queues
    BY <1>2, <1>4, <1>9, <2>1, PushFacts DEF ExecuteInWorker
  <2>3. Workers
    BY <1>1, <1>9, SignalFacts DEF ExecuteInWorker, Place
  <2> QED
    BY <2>1, <2>2, <2>3
<1>10. ASSUME NEW w \in Worker,
              WakeUp(w) \/ InternalRun(w) \/ StartWakeUp(w) \/ TestShutdown(w)
       PROVE  Rest /\ Workers /\ Clients /\ Queues /\ Doing
  <2>1. Rest /\ Clients /\ Queues /\ Doing
    BY <1>1, <1>2, <1>10 DEF WakeUp, InternalRun, StartWakeUp, StartReturns, TestShutdown,
                             runVars, queueVars
  <2>2. Workers
    BY <1>1, <1>10 DEF WakeUp, InternalRun, StartWakeUp, TestShutdown, Place
  <2> QED
    BY <2>1, <2>2
<1>11. ASSUME NEW w \in Worker, SignalInWorker(w)
       PROVE  Rest /\ Workers /\ Clients /\ Queues /\ Doing
  <2>1. Rest /\ Clients /\ Queues /\ Doing
    BY <1>1, <1>2, <1>11 DEF SignalInWorker, runVars, queueVars
  <2>2. [worker EXCEPT ![w] = "run"] \in [Worker -> Place]
    BY <1>1 DEF Place
  <2>3. Workers
    BY <1>11, <2>2, SignalFacts DEF SignalInWorker
  <2> QED
    BY <2>1, <2>3
<1>12. ASSUME NEW r \in Runner, RunnerStep(r)
       PROVE  Rest /\ Workers /\ Clients /\ Queues /\ Doing
  <2>1. Rest /\ Queues
    BY <1>1, <1>2, <1>12 DEF RunnerStep, SetFuture, BroadcastFuture, Return, runVars, queueVars
  <2>2. Doing
    BY <1>1, <1>12 DEF RunnerStep, SetFuture, BroadcastFuture, Return, runVars
  <2>3. \/ worker' = worker
        \/ r \in Worker /\ worker' = [worker EXCEPT ![r] = "lock"]
    BY <1>12 DEF RunnerStep, SetFuture, BroadcastFuture, Return, Runner
  <2>4. Workers
    BY <1>1, <2>3 DEF Place
  <2>5. Clients
    BY <1>1, <1>12 DEF RunnerStep, SetFuture, BroadcastFuture, Return, ClientPlace
  <2> QED
    BY <2>1, <2>2, <2>4, <2>5
<1>13. ASSUME ExecuteInOwner \/ StartThread \/ LockRemaining \/ RemainingDone \/ Destroy
       PROVE  Rest /\ Workers /\ Clients /\ Queues /\ Doing
  <2>1. Rest
    BY <1>1, <1>13 DEF ExecuteInOwner, StartThread, LockRemaining, RemainingDone, Destroy
  <2>2. Clients /\ Queues /\ Doing
    BY <1>1, <1>2, <1>13 DEF ExecuteInOwner, StartThread, LockRemaining, RemainingDone,
                             Destroy, runVars, queueVars
  <2>3. Workers
    BY <1>1, <1>13 DEF ExecuteInOwner, StartThread, LockRemaining, RemainingDone,
                       Destroy, Place
  <2> QED
    BY <2>1, <2>2, <2>3
<1>14. ASSUME StartFails \/ Stop
       PROVE  Rest /\ Workers /\ Clients /\ Queues /\ Doing
  <2>1. Clients /\ Queues /\ Doing /\ UNCHANGED <<pool, m_mutex>>
    BY <1>1, <1>2, <1>14 DEF StartFails, Stop, runVars, queueVars
  <2>2. \/ Shutdown("down")
        \/ owner' = "down" /\ UNCHANGED <<m_shutdown, worker, stopping>>
    BY <1>14 DEF StartFails, Stop
  <2> QED
    BY <1>1, <1>3, <2>1, <2>2, ShutdownFacts
<1>15. ASSUME StopSignal \/ Join
       PROVE  Rest /\ Workers /\ Clients /\ Queues /\ Doing
  <2>1. Rest /\ Clients /\ Queues /\ Doing
    BY <1>1, <1>2, <1>15 DEF StopSignal, Join, runVars, queueVars
  <2>2. Workers
    BY <1>1, <1>15, SignalFacts DEF StopSignal, Join, Place
  <2> QED
    BY <2>1, <2>2
<1>16. ASSUME RunRemaining
       PROVE  Rest /\ Workers /\ Clients /\ Queues /\ Doing
  <2>1. Rest /\ Clients /\ Workers
    BY <1>1, <1>16 DEF RunRemaining
  <2>2. "owner" \in Runner /\ Begin("owner")
    BY <1>16, ConsumerFacts DEF RunRemaining
  <2>3. /\ ran' \in Seq(Nat) /\ m_callback_queue' \in Seq(Nat) /\ added' = added
        /\ doing' = [doing EXCEPT !["owner"] = Len(ran) + 1]
    BY <2>2, BeginFacts
  <2>4. Queues
    BY <1>2, <2>3
  <2>5. Doing
    BY <1>1, <1>3, <2>2, <2>3
  <2> QED
    BY <2>1, <2>4, <2>5
<1>17. CASE UNCHANGED vars
  BY <1>1, <1>2, <1>17 DEF vars, runVars, queueVars
<1> QED
  BY <1>5, <1>6, <1>7, <1>8, <1>9, <1>10, <1>11, <1>12, <1>13, <1>14, <1>15, <1>16, <1>17
     DEF Next, WorkerStep, OwnerStep

\* A step adds a callback, or starts the next one, or leaves both alone.
LEMMA QueueSteps ==
  ASSUME [Next]_vars
  PROVE  \/ UNCHANGED <<queueVars, ran>>
         \/ (\E who \in Callers : Push(who)) /\ UNCHANGED runVars
         \/ \E r \in Runner : Begin(r)
<1>1. Nobody \in Callers /\ \A c \in Client : c \in Callers
  BY DEF Callers
<1> QED
  BY <1>1, ConsumerFacts
  DEF Next, vars, runVars, ClientStep, WorkerStep, RunnerStep, OwnerStep, Execute,
      DrainCallbacks, Signal, Get, GetReturns, GetWakeUp, WakeUp, SetFuture,
      BroadcastFuture, Return, ExecuteInWorker, SignalInWorker, ExecuteInOwner,
      TakeCallback, TestShutdown, StartThread, InternalRun, StartWakeUp, StartFails, Stop,
      StopSignal, Join, LockRemaining, RunRemaining, RemainingDone, Destroy

LEMMA NumberedNext ==
  ASSUME TypeOK, Numbered, [Next]_vars
  PROVE  Numbered'
<1>1. /\ Len(added) \in Nat /\ Len(ran) \in Nat /\ Len(m_callback_queue) \in Nat
  BY DEF TypeOK
<1>2. CASE UNCHANGED <<queueVars, ran>>
  BY <1>2 DEF Numbered, queueVars
<1>3. ASSUME NEW who \in Callers, Push(who), UNCHANGED runVars
      PROVE  Numbered'
  <2>1. ran' = ran
    BY <1>3 DEF runVars
  <2>2. /\ Len(added') = Len(added) + 1
        /\ Len(m_callback_queue') = Len(m_callback_queue) + 1
        /\ \A k \in 1..Len(m_callback_queue) : m_callback_queue'[k] = m_callback_queue[k]
        /\ m_callback_queue'[Len(m_callback_queue) + 1] = Len(added) + 1
    BY <1>3, PushFacts
  <2>3. ASSUME NEW k \in 1..Len(m_callback_queue')
        PROVE  m_callback_queue'[k] = Len(ran) + k
    BY <1>1, <2>2 DEF Numbered
  <2> QED
    BY <1>1, <2>1, <2>2, <2>3 DEF Numbered
<1>4. ASSUME NEW r \in Runner, Begin(r)
      PROVE  Numbered'
  <2>1. /\ Len(ran') = Len(ran) + 1
        /\ \A k \in 1..Len(ran) : ran'[k] = ran[k]
        /\ ran'[Len(ran) + 1] = Len(ran) + 1
        /\ Len(m_callback_queue) = Len(m_callback_queue') + 1
        /\ \A k \in 1..Len(m_callback_queue') : m_callback_queue'[k] = m_callback_queue[k + 1]
        /\ added' = added
        /\ m_callback_queue' \in Seq(Nat)
    BY <1>4, BeginFacts
  <2>2. Len(m_callback_queue') \in Nat
    BY <2>1
  <2>3. ASSUME NEW k \in 1..Len(ran') PROVE ran'[k] = k
    <3>1. k \in 1..Len(ran) \/ k = Len(ran) + 1
      BY <1>1, <2>1
    <3>2. CASE k \in 1..Len(ran)
      BY <2>1, <3>2 DEF Numbered
    <3> QED
      BY <2>1, <3>1, <3>2
  <2>4. ASSUME NEW k \in 1..Len(m_callback_queue')
        PROVE  m_callback_queue'[k] = Len(ran') + k
    <3>1. k + 1 \in 1..Len(m_callback_queue)
      BY <2>1, <2>2
    <3>2. m_callback_queue[k + 1] = Len(ran) + (k + 1)
      BY <3>1 DEF Numbered
    <3> QED
      BY <1>1, <2>1, <2>2, <3>2
  <2>5. Len(ran') + Len(m_callback_queue') = Len(added')
    BY <1>1, <2>1, <2>2 DEF Numbered
  <2> QED
    BY <2>3, <2>4, <2>5 DEF Numbered
<1> QED
  BY <1>2, <1>3, <1>4, QueueSteps

-----------------------------------------------------------------------------
(* Where the threads are, and what they have left to do.                    *)

\* Callbacks are numbered from 1, as are those whose Future is set.
FuturesNumbered == m_is_set \subseteq Nat \ {0}

Inv == TypeOK /\ Numbered /\ Accounted /\ Places /\ Stopped /\ FuturesNumbered

\* A thread is woken or goes from running to signalling and back.
Moved(v) ==
  \/ worker'[v] = worker[v]
  \/ worker[v] = "wait" /\ worker'[v] = "lock"
  \/ worker[v] \in {"run", "run signal"} /\ worker'[v] \in {"run", "run signal"}

\* A step that may add a callback and move threads, and does nothing else here.
Quiet ==
  /\ UNCHANGED <<pool, runVars, m_shutdown, stopping>>
  /\ Len(added') \in Nat /\ Len(added') >= Len(added)
  /\ \A v \in Worker : Moved(v)

LEMMA Numbers ==
  ASSUME Inv
  PROVE  /\ Len(added) \in Nat /\ Len(ran) \in Nat /\ stopping \in Nat
         /\ Len(ran) <= Len(added)
         /\ \A r \in Runner : doing[r] \in Nat
         /\ m_callback_queue = <<>> => Len(ran) = Len(added)
<1>1. /\ added \in Seq(Callers) /\ ran \in Seq(Nat) /\ m_callback_queue \in Seq(Nat)
      /\ stopping \in Nat /\ doing \in [Runner -> Nat]
  BY DEF Inv, TypeOK
<1>2. /\ Len(added) \in Nat /\ Len(ran) \in Nat /\ Len(m_callback_queue) \in Nat
      /\ m_callback_queue = <<>> => Len(m_callback_queue) = 0
  BY <1>1
<1> QED
  BY <1>1, <1>2 DEF Inv, Numbered

LEMMA QuietKeeps ==
  ASSUME Inv, Quiet, \/ owner' = owner
                     \/ owner = "signal" /\ owner' = "join"
  PROVE  Accounted' /\ Places' /\ Stopped'
<1>1. /\ Len(added) \in Nat /\ Len(ran) \in Nat /\ stopping \in Nat
      /\ Len(added') \in Nat /\ Len(added') >= Len(added)
      /\ pool' = pool /\ doing' = doing /\ finished' = finished /\ ran' = ran
      /\ m_shutdown' = m_shutdown /\ stopping' = stopping
      /\ \A v \in Worker : Moved(v)
  BY Numbers DEF Quiet, runVars
<1>2. Accounted'
  BY <1>1 DEF Inv, Accounted, Moved
<1>3. Places'
  <2>1. Consumers' = Consumers
    BY <1>1 DEF Consumers
  <2> QED
    BY <1>1, <2>1 DEF Inv, Places, Moved, Gone
<1>4. Stopped'
  <2>1. /\ owner' \in {"new", "starting", "up"} => ~m_shutdown' /\ stopping' = 0
        /\ owner' \in {"signal", "join"} => m_shutdown'
        /\ owner' \in {"down", "dead", "remaining", "dying", "stuck"} =>
             stopping' <= Len(ran') \/ NoneBegan'
    BY <1>1 DEF Inv, Stopped, NoneBegan, Moved
  <2>2. \A w \in Worker : worker'[w] \in {"exited", "joined", "lost"} =>
                            worker'[w] = worker[w]
    BY <1>1 DEF Moved
  <2>3. stopping' <= Len(added')
    BY <1>1 DEF Inv, Stopped
  <2> QED
    BY <1>1, <2>1, <2>2, <2>3 DEF Inv, Stopped
<1> QED
  BY <1>2, <1>3, <1>4

LEMMA QuietSteps ==
  ASSUME Inv, [Next]_vars
  PROVE  \/ Quiet /\ (owner' = owner \/ (owner = "signal" /\ owner' = "join"))
         \/ \E w \in Worker : \/ TakeCallback(w) \/ TestShutdown(w)
                              \/ InternalRun(w) \/ StartWakeUp(w)
         \/ \E r \in Runner : BroadcastFuture(r) \/ Return(r)
         \/ ExecuteInOwner \/ StartThread \/ StartFails \/ Stop \/ Join
         \/ RunRemaining \/ RemainingDone \/ Destroy
<1> DEFINE Goal == Quiet /\ (owner' = owner \/ (owner = "signal" /\ owner' = "join"))
<1>1. Len(added) \in Nat /\ worker \in [Worker -> Place] /\ TypeOK
  BY Numbers DEF Inv, TypeOK
<1>2. Nobody \in Callers /\ \A c \in Client : c \in Callers
  BY DEF Callers
<1>3. ASSUME NEW who \in Callers, Push(who)
      PROVE  Len(added') \in Nat /\ Len(added') >= Len(added)
  BY <1>1, <1>3, PushFacts
<1>4. ASSUME SignalTo(worker)
      PROVE  \A v \in Worker : Moved(v)
  BY <1>1, <1>4, SignalFacts DEF Moved
<1>5. ASSUME NEW c \in Client, Execute(c) \/ DrainCallbacks(c)
      PROVE  Goal
  <2>1. Len(added') \in Nat /\ Len(added') >= Len(added)
    BY <1>2, <1>3, <1>5 DEF Execute, DrainCallbacks
  <2>2. \A v \in Worker : Moved(v)
    BY <1>4, <1>5 DEF Execute, DrainCallbacks, Moved
  <2> QED
    BY <1>5, <2>1, <2>2 DEF Execute, DrainCallbacks, Quiet, runVars
<1>6. ASSUME NEW c \in Client, ClientStep(c) \/ GetWakeUp(c)
      PROVE  Goal
  <2>1. \A v \in Worker : Moved(v)
    BY <1>4, <1>6 DEF ClientStep, Signal, Get, GetReturns, GetWakeUp, Moved
  <2>2. UNCHANGED <<pool, runVars, m_shutdown, stopping, owner, added>>
    BY <1>6 DEF ClientStep, Signal, Get, GetReturns, GetWakeUp, queueVars
  <2> QED
    BY <1>1, <2>1, <2>2 DEF Quiet
<1>7. ASSUME NEW w \in Worker, ExecuteInWorker(w)
      PROVE  Goal
  <2>1. Len(added') \in Nat /\ Len(added') >= Len(added)
    BY <1>2, <1>3, <1>7 DEF ExecuteInWorker
  <2>2. \A v \in Worker : Moved(v)
    BY <1>1, <1>4, <1>7 DEF ExecuteInWorker, Moved
  <2> QED
    BY <1>7, <2>1, <2>2 DEF ExecuteInWorker, Quiet, runVars
<1>8. ASSUME NEW w \in Worker, SignalInWorker(w)
      PROVE  Goal
  <2> DEFINE state == [worker EXCEPT ![w] = "run"]
  <2>1. /\ state \in [Worker -> Place]
        /\ state[w] = "run" /\ \A v \in Worker : v # w => state[v] = worker[v]
    BY <1>1 DEF Place
  <2>2. SignalTo(state) /\ worker[w] = "run signal"
    BY <1>8 DEF SignalInWorker
  <2>3. UNCHANGED <<pool, runVars, m_shutdown, stopping, owner, added>>
    BY <1>8 DEF SignalInWorker, queueVars
  <2> HIDE DEF state
  <2>4. \A v \in Worker : \/ worker'[v] = state[v]
                          \/ worker[v] = "wait" /\ worker'[v] = "lock"
    BY <1>1, <2>1, <2>2, SignalFacts
  <2>5. \A v \in Worker : Moved(v)
    BY <2>1, <2>2, <2>4 DEF Moved
  <2> QED
    BY <1>1, <2>3, <2>5 DEF Quiet
<1>9. ASSUME NEW w \in Worker, WakeUp(w)
      PROVE  Goal
  <2>1. \A v \in Worker : Moved(v)
    BY <1>1, <1>9 DEF WakeUp, Moved
  <2> QED
    BY <1>1, <1>9, <2>1 DEF WakeUp, Quiet, runVars, queueVars
<1>10. ASSUME NEW r \in Runner, SetFuture(r)
       PROVE  Goal
  <2>1. \A v \in Worker : Moved(v)
    BY <1>10 DEF SetFuture, Moved
  <2> QED
    BY <1>1, <1>10, <2>1 DEF SetFuture, Quiet, runVars, queueVars
<1>11. ASSUME StopSignal \/ LockRemaining \/ UNCHANGED vars
       PROVE  Goal
  <2>1. \A v \in Worker : Moved(v)
    BY <1>4, <1>11 DEF StopSignal, LockRemaining, vars, Moved
  <2> QED
    BY <1>1, <1>11, <2>1 DEF StopSignal, LockRemaining, vars, Quiet, runVars, queueVars
<1> QED
  BY <1>5, <1>6, <1>7, <1>8, <1>9, <1>10, <1>11
  DEF Next, WorkerStep, RunnerStep, OwnerStep

LEMMA TakeCallbackKeeps ==
  ASSUME Inv, NEW w \in Worker, TakeCallback(w)
  PROVE  Accounted' /\ Places' /\ Stopped'
<1>1. /\ Len(ran) \in Nat /\ stopping \in Nat /\ doing \in [Runner -> Nat]
      /\ worker \in [Worker -> Place] /\ w \in Runner /\ w # "owner"
      /\ TypeOK /\ Numbered
  BY Numbers, ConsumerFacts DEF Inv, TypeOK
<1>2. /\ Len(ran') = Len(ran) + 1 /\ doing' = [doing EXCEPT ![w] = Len(ran) + 1]
      /\ added' = added /\ finished' = finished
  BY <1>1, BeginFacts DEF TakeCallback
<1>3. /\ worker[w] = "lock" /\ worker' = [worker EXCEPT ![w] = "run"]
      /\ pool' = pool /\ m_shutdown' = m_shutdown /\ owner' = owner
      /\ stopping' = stopping
  BY DEF TakeCallback
<1>4. doing[w] = 0
  BY <1>3 DEF Inv, Accounted
<1>5. ASSUME NEW i \in 1..Len(ran')
      PROVE  i \in finished' \/ \E r \in Runner : doing'[r] = i
  <2>1. CASE i = Len(ran) + 1
    BY <1>1, <1>2, <2>1
  <2>2. CASE i \in 1..Len(ran)
    <3>1. CASE i \in finished
      BY <1>2, <3>1
    <3>2. CASE i \notin finished
      <4>1. PICK r \in Runner : doing[r] = i
        BY <2>2, <3>2 DEF Inv, Accounted
      <4>2. r # w
        BY <1>4, <2>2, <4>1
      <4> QED
        BY <1>1, <1>2, <4>1, <4>2
    <3> QED
      BY <3>1, <3>2
  <2> QED
    BY <1>1, <1>2, <2>1, <2>2
<1>6. ASSUME NEW r \in Runner PROVE doing'[r] <= Len(ran')
  <2>1. doing[r] \in Nat /\ doing[r] <= Len(ran)
    BY <1>1 DEF Inv, Accounted
  <2>2. doing'[r] = IF r = w THEN Len(ran) + 1 ELSE doing[r]
    BY <1>1, <1>2
  <2> QED
    BY <1>1, <1>2, <2>1, <2>2
<1>7. /\ \A v \in Worker : doing'[v] # 0 => worker'[v] \in {"run", "run signal"}
      /\ doing'["owner"] # 0 => owner' \in {"remaining", "dying", "stuck"}
  BY <1>1, <1>2, <1>3, ConsumerFacts DEF Inv, Accounted
<1>8. Accounted'
  BY <1>5, <1>6, <1>7 DEF Accounted
<1>9. Places'
  <2>1. Consumers' = Consumers
    BY <1>3 DEF Consumers
  <2> QED
    BY <1>1, <1>3, <2>1 DEF Inv, Places, Gone
<1>10. Stopped'
  BY <1>1, <1>2, <1>3 DEF Inv, Stopped, NoneBegan
<1> QED
  BY <1>8, <1>9, <1>10

LEMMA TestShutdownKeeps ==
  ASSUME Inv, NEW w \in Worker, TestShutdown(w)
  PROVE  Accounted' /\ Places' /\ Stopped'
<1>1. /\ worker[w] = "lock" /\ worker \in [Worker -> Place]
      /\ worker' = [worker EXCEPT ![w] = IF m_shutdown THEN "exited" ELSE "wait"]
      /\ UNCHANGED <<pool, added, m_shutdown, owner, doing, ran, finished, stopping>>
      /\ m_callback_queue = <<>>
  BY DEF TestShutdown, Inv, TypeOK, runVars, queueVars
<1>2. Accounted'
  BY <1>1 DEF Inv, Accounted
<1>3. Places'
  <2>1. Consumers' = Consumers
    BY <1>1 DEF Consumers
  <2> QED
    BY <1>1, <2>1 DEF Inv, Places, Gone
<1>4. Stopped'
  <2>1. stopping <= Len(ran)
    BY <1>1, Numbers DEF Inv, Stopped
  <2> QED
    BY <1>1, <2>1 DEF Inv, Stopped
<1> QED
  BY <1>2, <1>3, <1>4

LEMMA ReturnKeeps ==
  ASSUME Inv, NEW r \in Runner, doing[r] # 0,
         BroadcastFuture(r) \/ Return(r)
  PROVE  Accounted' /\ Places' /\ Stopped'
<1>1. /\ Len(ran) \in Nat /\ doing \in [Runner -> Nat] /\ worker \in [Worker -> Place]
  BY Numbers DEF Inv, TypeOK
<1>2. /\ finished' = finished \cup {doing[r]} /\ doing' = [doing EXCEPT ![r] = 0]
      /\ worker' = IF r = "owner" THEN worker ELSE [worker EXCEPT ![r] = "lock"]
      /\ UNCHANGED <<pool, added, m_shutdown, owner, ran, stopping>>
  BY DEF BroadcastFuture, Return, queueVars
<1>3. r # "owner" => r \in Worker /\ worker[r] \in {"run", "run signal"}
  BY DEF Runner, Inv, Accounted
<1>4. Accounted'
  <2>1. ASSUME NEW i \in 1..Len(ran)
        PROVE  i \in finished' \/ \E q \in Runner : doing'[q] = i
    <3>1. i \in finished \/ \E q \in Runner : doing[q] = i
      BY DEF Inv, Accounted
    <3>2. ASSUME NEW q \in Runner, doing[q] = i, q # r
          PROVE  doing'[q] = i
      BY <1>1, <1>2, <3>2
    <3> QED
      BY <1>2, <3>1, <3>2
  <2>2. ASSUME NEW q \in Runner PROVE doing'[q] <= Len(ran)
    <3>1. doing[q] \in Nat /\ doing[q] <= Len(ran)
      BY <1>1 DEF Inv, Accounted
    <3>2. doing'[q] = IF q = r THEN 0 ELSE doing[q]
      BY <1>1, <1>2
    <3> QED
      BY <1>1, <3>1, <3>2
  <2>3. \A q \in Runner : doing'[q] # 0 => q # r /\ doing[q] # 0
    BY <1>1, <1>2
  <2>4. ASSUME NEW v \in Worker, doing'[v] # 0
        PROVE  worker'[v] \in {"run", "run signal"}
    <3>1. v # r /\ doing[v] # 0
      BY <2>3, <2>4, ConsumerFacts
    <3>2. worker'[v] = worker[v]
      BY <1>1, <1>2, <1>3, <3>1
    <3> QED
      BY <3>1, <3>2 DEF Inv, Accounted
  <2>5. doing'["owner"] # 0 => owner' \in {"remaining", "dying", "stuck"}
    BY <1>2, <2>3, ConsumerFacts DEF Inv, Accounted
  <2> QED
    BY <1>2, <2>1, <2>2, <2>4, <2>5 DEF Accounted
<1>5. \A v \in Worker :
        \/ worker'[v] = worker[v]
        \/ worker[v] \in {"run", "run signal"} /\ worker'[v] = "lock"
  BY <1>1, <1>2, <1>3
<1>6. Places'
  <2>1. Consumers' = Consumers
    BY <1>2 DEF Consumers
  <2>2. \A v \in Worker : worker'[v] = "created" => worker[v] = "created"
    BY <1>5
  <2>3. \A v \in Worker : worker'[v] \in Gone <=> worker[v] \in Gone
    BY <1>5 DEF Gone
  <2>4. \A v \in Worker : worker[v] = "none" => worker'[v] = "none"
    BY <1>5
  <2> QED
    BY <1>2, <2>1, <2>2, <2>3, <2>4 DEF Inv, Places
<1>7. Stopped'
  BY <1>2, <1>5 DEF Inv, Stopped, NoneBegan
<1> QED
  BY <1>4, <1>6, <1>7

LEMMA RunRemainingKeeps ==
  ASSUME Inv, RunRemaining
  PROVE  Accounted' /\ Places' /\ Stopped'
<1>1. /\ Len(ran) \in Nat /\ stopping \in Nat /\ doing \in [Runner -> Nat]
      /\ "owner" \in Runner /\ \A w \in Worker : w \in Runner /\ w # "owner"
      /\ TypeOK /\ Numbered
  BY Numbers, ConsumerFacts DEF Inv, TypeOK
<1>2. /\ Len(ran') = Len(ran) + 1 /\ doing' = [doing EXCEPT !["owner"] = Len(ran) + 1]
      /\ added' = added /\ finished' = finished
  BY <1>1, BeginFacts DEF RunRemaining
<1>3. /\ owner \in {"remaining", "dying"} /\ doing["owner"] = 0
      /\ UNCHANGED <<pool, m_shutdown, owner, worker, stopping>>
  BY DEF RunRemaining
<1>4. ASSUME NEW i \in 1..Len(ran')
      PROVE  i \in finished' \/ \E r \in Runner : doing'[r] = i
  <2>1. CASE i = Len(ran) + 1
    BY <1>1, <1>2, <2>1
  <2>2. CASE i \in 1..Len(ran)
    <3>1. CASE i \in finished
      BY <1>2, <3>1
    <3>2. CASE i \notin finished
      <4>1. PICK r \in Runner : doing[r] = i
        BY <2>2, <3>2 DEF Inv, Accounted
      <4>2. r # "owner"
        BY <1>3, <2>2, <4>1
      <4> QED
        BY <1>1, <1>2, <4>1, <4>2
    <3> QED
      BY <3>1, <3>2
  <2> QED
    BY <1>1, <1>2, <2>1, <2>2
<1>5. ASSUME NEW r \in Runner PROVE doing'[r] <= Len(ran')
  <2>1. doing[r] \in Nat /\ doing[r] <= Len(ran)
    BY <1>1 DEF Inv, Accounted
  <2>2. doing'[r] = IF r = "owner" THEN Len(ran) + 1 ELSE doing[r]
    BY <1>1, <1>2
  <2> QED
    BY <1>1, <1>2, <2>1, <2>2
<1>6. /\ \A v \in Worker : doing'[v] # 0 => worker'[v] \in {"run", "run signal"}
      /\ doing'["owner"] # 0 => owner' \in {"remaining", "dying", "stuck"}
  BY <1>1, <1>2, <1>3 DEF Inv, Accounted
<1>7. Accounted'
  BY <1>4, <1>5, <1>6 DEF Accounted
<1>8. Places'
  <2>1. Consumers' = Consumers
    BY <1>3 DEF Consumers
  <2> QED
    BY <1>3, <2>1 DEF Inv, Places
<1>9. Stopped'
  BY <1>1, <1>2, <1>3 DEF Inv, Stopped, NoneBegan
<1> QED
  BY <1>7, <1>8, <1>9

\* Start() returns, when the thread has begun or without it.
LEMMA StartReturnsKeeps ==
  ASSUME Inv, NEW w \in Worker, worker[w] = "created", NEW place \in {"lock", "late"},
         worker' = [worker EXCEPT ![w] = place], StartReturns(worker'),
         UNCHANGED <<pool, added, m_shutdown, doing, ran, finished, stopping>>
  PROVE  Accounted' /\ Places' /\ Stopped'
<1>1. /\ owner' = IF \A v \in Consumers : worker'[v] # "none" THEN "up" ELSE "new"
      /\ worker \in [Worker -> Place]
  BY DEF StartReturns, Inv, TypeOK
<1>2. owner = "starting" /\ w \in Consumers /\ Consumers' = Consumers
  BY DEF Inv, Places, Consumers
<1>3. owner' \in {"up", "new"}
  BY <1>1
<1>4. /\ worker'[w] = place /\ \A v \in Worker : v # w => worker'[v] = worker[v]
  BY <1>1
<1>5. Accounted'
  BY <1>2, <1>3, <1>4 DEF Inv, Accounted
<1>6. Places'
  <2>1. ~pool => owner' = "up"
    BY <1>1, <1>2, <1>4, ConsumerFacts
  <2>2. \A v \in Worker : worker'[v] # "created"
    BY <1>4 DEF Inv, Places
  <2>3. \A v \in Worker \ Consumers' : worker'[v] = "none"
    BY <1>2, <1>4 DEF Inv, Places
  <2> QED
    BY <1>3, <1>4, <2>1, <2>2, <2>3 DEF Places, Gone
<1>7. Stopped'
  BY <1>2, <1>3, <1>4 DEF Inv, Stopped
<1> QED
  BY <1>5, <1>6, <1>7

LEMMA InternalRunKeeps ==
  ASSUME Inv, NEW w \in Worker, InternalRun(w)
  PROVE  Accounted' /\ Places' /\ Stopped'
<1>1. /\ worker' = [worker EXCEPT ![w] = "lock"]
      /\ UNCHANGED <<pool, added, m_shutdown, doing, ran, finished, stopping>>
      /\ worker \in [Worker -> Place]
  BY DEF InternalRun, Inv, TypeOK, runVars, queueVars
<1>2. CASE worker[w] = "created"
  BY <1>1, <1>2, StartReturnsKeeps DEF InternalRun
<1>3. CASE worker[w] = "late"
  <2>1. owner' = owner /\ Consumers' = Consumers
    BY <1>1, <1>3 DEF InternalRun, Consumers
  <2>2. /\ worker'[w] = "lock" /\ \A v \in Worker : v # w => worker'[v] = worker[v]
    BY <1>1
  <2>3. /\ w \in Consumers
        /\ owner \notin {"down", "dead", "remaining", "dying", "stuck"}
    BY <1>3 DEF Inv, Places, Gone
  <2>4. Accounted'
    BY <1>1, <1>3, <2>1, <2>2 DEF Inv, Accounted
  <2>5. Places'
    BY <1>1, <1>3, <2>1, <2>2, <2>3 DEF Inv, Places, Gone
  <2>6. Stopped'
    BY <1>1, <2>1, <2>2, <2>3 DEF Inv, Stopped
  <2> QED
    BY <2>4, <2>5, <2>6
<1> QED
  BY <1>2, <1>3 DEF InternalRun

LEMMA StartWakeUpKeeps ==
  ASSUME Inv, NEW w \in Worker, StartWakeUp(w)
  PROVE  Accounted' /\ Places' /\ Stopped'
<1>1. /\ worker[w] = "created" /\ worker' = [worker EXCEPT ![w] = "late"]
      /\ StartReturns(worker')
      /\ UNCHANGED <<pool, added, m_shutdown, doing, ran, finished, stopping>>
  BY DEF StartWakeUp, runVars, queueVars
<1> QED
  BY <1>1, StartReturnsKeeps

LEMMA StartThreadKeeps ==
  ASSUME Inv, StartThread
  PROVE  Accounted' /\ Places' /\ Stopped'
<1>1. /\ owner = "new" /\ owner' = "starting" /\ worker \in [Worker -> Place]
      /\ UNCHANGED <<pool, added, m_shutdown, doing, ran, finished, stopping>>
  BY DEF StartThread, Inv, TypeOK, runVars, queueVars
<1>2. PICK w \in Consumers : worker[w] = "none" /\ worker' = [worker EXCEPT ![w] = "created"]
  BY DEF StartThread
<1>3. /\ w \in Worker /\ worker'[w] = "created" /\ Consumers' = Consumers
      /\ \A v \in Worker : v # w => worker'[v] = worker[v]
  BY <1>1, <1>2, ConsumerFacts DEF Consumers
<1>4. Accounted'
  BY <1>1, <1>2, <1>3 DEF Inv, Accounted
<1>5. Places'
  BY <1>1, <1>2, <1>3 DEF Inv, Places, Gone
<1>6. Stopped'
  BY <1>1, <1>2, <1>3 DEF Inv, Stopped
<1> QED
  BY <1>4, <1>5, <1>6

LEMMA StopKeeps ==
  ASSUME Inv, StartFails \/ Stop
  PROVE  Accounted' /\ Places' /\ Stopped'
<1>1. /\ Len(added) \in Nat /\ Len(ran) \in Nat /\ TypeOK
      /\ UNCHANGED <<pool, added, doing, ran, finished>>
      /\ owner \in {"new", "up"} /\ ~m_shutdown /\ stopping = 0
      /\ worker \in [Worker -> Place]
  BY Numbers DEF StartFails, Stop, Inv, TypeOK, Stopped, runVars, queueVars
<1>2. /\ Consumers' = Consumers
      /\ \A v \in Worker : worker[v] \notin {"created", "exited", "joined", "lost"}
  BY <1>1 DEF Inv, Places, Stopped, Consumers
<1>3. CASE Shutdown("down") /\ (pool \/ owner = "up")
  <2>1. /\ \A v \in Worker : \/ worker'[v] = worker[v]
                             \/ worker[v] = "wait" /\ worker'[v] = "lock"
        /\ \/ /\ pool /\ owner' = "down" /\ m_shutdown' = m_shutdown
              /\ stopping' = stopping
              /\ \A v \in Worker : worker[v] \in Gone
           \/ /\ m_shutdown' = TRUE /\ stopping' = Len(added)
              /\ owner' = IF pool THEN "join" ELSE "signal"
              /\ pool => \E v \in Worker : worker[v] \notin Gone
    BY <1>1, <1>3, ShutdownFacts
  <2>2. Accounted'
    BY <1>1, <2>1 DEF Inv, Accounted
  <2>3. Places'
    <3>1. ~pool => \A v \in Worker : worker[v] # "late"
      BY <1>1, <1>3 DEF Stop, StartFails
    <3> QED
      BY <1>1, <1>2, <1>3, <2>1, <3>1 DEF Inv, Places, Gone
  <2>4. Stopped'
    <3>1. \A v \in Worker : worker'[v] \notin {"exited", "joined", "lost"}
      BY <1>2, <2>1
    <3>2. /\ stopping' \in Nat /\ stopping' <= Len(added')
          /\ owner' \in {"down", "join", "signal"} /\ (owner' # "down" => m_shutdown')
      BY <1>1, <2>1
    <3>3. owner' = "down" => stopping' <= Len(ran')
      BY <1>1, <2>1
    <3> QED
      BY <3>1, <3>2, <3>3 DEF Stopped
  <2> QED
    BY <2>2, <2>3, <2>4
<1>4. CASE ~pool /\ owner = "new" /\ owner' = "down" /\ UNCHANGED <<m_shutdown, worker, stopping>>
  <2>1. Accounted'
    BY <1>1, <1>4 DEF Inv, Accounted
  <2>2. Places'
    BY <1>1, <1>2, <1>4 DEF Inv, Places, Gone
  <2>3. Stopped'
    BY <1>1, <1>2, <1>4 DEF Stopped
  <2> QED
    BY <2>1, <2>2, <2>3
<1> QED
  BY <1>3, <1>4 DEF StartFails, Stop

LEMMA JoinKeeps ==
  ASSUME Inv, Join
  PROVE  Accounted' /\ Places' /\ Stopped'
<1>1. /\ owner = "join" /\ owner' \in {"down", "remaining"}
      /\ \A w \in Worker : worker[w] \in Gone \cup {"exited", "late"}
      /\ \A w \in Worker : worker'[w] = CASE worker[w] = "exited" -> "joined"
                                         [] worker[w] = "late" -> "lost"
                                         [] OTHER -> worker[w]
      /\ UNCHANGED <<pool, added, m_shutdown, doing, ran, finished, stopping>>
  BY DEF Join, Started, Gone, runVars, queueVars
<1>2. \A w \in Worker : worker'[w] \in Gone /\ worker'[w] # "created"
  BY <1>1 DEF Gone
<1>3. m_shutdown
  BY DEF Inv, Stopped, Join
<1>4. Accounted'
  BY <1>1 DEF Inv, Accounted, Gone
<1>5. Places'
  <2>1. Consumers' = Consumers
    BY <1>1 DEF Consumers
  <2>3. \A v \in Worker \ Consumers : worker'[v] = "none"
    BY <1>1 DEF Inv, Places, Gone
  <2>4. \A v \in Worker : worker'[v] # "late"
    BY <1>2 DEF Gone
  <2> QED
    BY <1>1, <1>2, <2>1, <2>3, <2>4 DEF Places
<1>6. Stopped'
  <2>1. \A w \in Worker : worker'[w] = "joined" => stopping <= Len(ran)
    BY <1>1 DEF Inv, Stopped
  <2>2. stopping <= Len(ran) \/ NoneBegan'
    BY <1>2, <2>1 DEF NoneBegan, Gone
  <2>3. \A w \in Worker : worker'[w] # "exited"
    BY <1>2 DEF Gone
  <2> QED
    BY <1>1, <1>3, <2>1, <2>2, <2>3 DEF Inv, Stopped
<1> QED
  BY <1>4, <1>5, <1>6

LEMMA OwnerKeeps ==
  ASSUME Inv, ExecuteInOwner \/ RemainingDone \/ Destroy
  PROVE  Accounted' /\ Places' /\ Stopped'
<1>1. /\ UNCHANGED <<pool, added, m_shutdown, doing, ran, finished, worker, stopping>>
      /\ Consumers' = Consumers
      /\ Len(ran) \in Nat
  BY Numbers DEF ExecuteInOwner, RemainingDone, Destroy, Consumers, runVars, queueVars
<1>2. /\ owner \in {"remaining", "dying", "stuck", "down", "new"}
      /\ owner' \in {"stuck", "dead", "down", "dying"}
      /\ doing["owner"] # 0 => owner' = "stuck"
      /\ owner = "new" => \A w \in Worker : worker[w] \in Gone
  BY DEF ExecuteInOwner, RemainingDone, Destroy, Started, Gone, Inv, Accounted
<1>3. Accounted'
  BY <1>1, <1>2 DEF Inv, Accounted
<1>4. Places'
  BY <1>1, <1>2 DEF Inv, Places, Gone
<1>5. Stopped'
  <2>1. stopping <= Len(ran) \/ NoneBegan
    BY <1>1, <1>2 DEF Inv, Stopped
  <2>2. stopping' <= Len(ran') \/ NoneBegan'
    BY <1>1, <2>1 DEF NoneBegan
  <2> QED
    BY <1>1, <1>2, <2>2 DEF Inv, Stopped
<1> QED
  BY <1>3, <1>4, <1>5

LEMMA FuturesNumberedNext ==
  ASSUME Inv, [Next]_vars
  PROVE  FuturesNumbered'
<1>1. \/ m_is_set' = m_is_set
      \/ \E r \in Runner : doing[r] # 0 /\ m_is_set' = m_is_set \cup {doing[r]}
  BY DEF Next, vars, ClientStep, WorkerStep, RunnerStep, OwnerStep, Execute,
         DrainCallbacks, Signal, Get, GetReturns, GetWakeUp, WakeUp, SetFuture,
         BroadcastFuture, Return, ExecuteInWorker, SignalInWorker, ExecuteInOwner,
         TakeCallback, TestShutdown, StartThread, InternalRun, StartWakeUp, StartFails, Stop,
         StopSignal, Join, LockRemaining, RunRemaining, RemainingDone, Destroy
<1>2. \A r \in Runner : doing[r] \in Nat
  BY Numbers
<1>3. m_is_set \subseteq Nat \ {0}
  BY DEF Inv, FuturesNumbered
<1> QED
  BY <1>1, <1>2, <1>3 DEF FuturesNumbered

LEMMA InvInit ==
  ASSUME Init
  PROVE  Inv
<1>1. TypeOK /\ Numbered
  BY TypeInit
<1>2. /\ ran = <<>> /\ added = <<>> /\ Len(ran) = 0 /\ Len(added) = 0
      /\ \A r \in Runner : doing[r] = 0
      /\ \A w \in Worker : worker[w] = "none"
      /\ owner = "new" /\ ~m_shutdown /\ stopping = 0 /\ m_is_set = {}
  BY DEF Init
<1>3. Accounted
  <2>1. doing["owner"] = 0 /\ \A w \in Worker : doing[w] = 0
    BY <1>2, ConsumerFacts
  <2>2. \A i \in 1..Len(ran) : FALSE
    BY <1>2
  <2>3. \A r \in Runner : doing[r] <= Len(ran)
    BY <1>2
  <2> QED
    BY <2>1, <2>2, <2>3 DEF Accounted
<1>4. Places /\ Stopped /\ FuturesNumbered
  BY <1>2 DEF Places, Stopped, Gone, FuturesNumbered
<1> QED
  BY <1>1, <1>3, <1>4 DEF Inv

LEMMA InvNext ==
  ASSUME Inv, [Next]_vars
  PROVE  Inv'
<1>1. TypeOK' /\ Numbered' /\ FuturesNumbered'
  BY TypeNext, NumberedNext, FuturesNumberedNext DEF Inv
<1>2. ASSUME NEW r \in Runner, BroadcastFuture(r) \/ Return(r)
      PROVE  Accounted' /\ Places' /\ Stopped'
  <2>1. doing[r] # 0
    BY <1>2 DEF BroadcastFuture, Return, Inv, FuturesNumbered
  <2> QED
    BY <1>2, <2>1, ReturnKeeps
<1>3. Accounted' /\ Places' /\ Stopped'
  BY <1>2, QuietSteps, QuietKeeps, TakeCallbackKeeps, TestShutdownKeeps,
     InternalRunKeeps, StartWakeUpKeeps, StartThreadKeeps, StopKeeps, JoinKeeps, RunRemainingKeeps,
     OwnerKeeps
<1> QED
  BY <1>1, <1>3 DEF Inv

LEMMA Invariance == Spec => []Inv
<1>1. Init => Inv
  BY InvInit
<1>2. Inv /\ [Next]_vars => Inv'
  BY InvNext
<1> QED
  BY <1>1, <1>2, PTL DEF Spec

-----------------------------------------------------------------------------
(* What Stop() and JoinAll() leave behind.                                  *)

\* With no thread running a callback, every callback started has returned.
LEMMA AllReturned ==
  ASSUME Inv, owner \in {"down", "dead"}, ~NoneBegan
  PROVE  1..stopping \subseteq finished
<1>1. \A w \in Worker : doing[w] = 0
  BY DEF Inv, Places, Accounted, Gone
<1>2. \A r \in Runner : doing[r] = 0
  BY <1>1 DEF Inv, Accounted, Runner
<1>3. ASSUME NEW i \in 1..stopping
      PROVE  i \in finished
  <2>1. i \in 1..Len(ran)
    BY Numbers DEF Inv, Stopped
  <2>2. i # 0
    BY <2>1
  <2> QED
    BY <1>2, <2>1, <2>2 DEF Inv, Accounted
<1> QED
  BY <1>3

\* Stop() and JoinAll() return only when every callback that had been added
\* when they set m_shutdown has been run to its end (StopRunsAll), with any
\* number of threads and however the signals fall.
THEOREM StopHolds == Spec => []StopRunsAll
<1>1. Inv => StopRunsAll
  BY AllReturned DEF StopRunsAll, NoneBegan
<1> QED
  BY <1>1, Invariance, PTL

-----------------------------------------------------------------------------
(* The executor that ExecutorInterface promises.                            *)

\* The callbacks that have not been started are the last ones.
LEMMA PendingFacts ==
  ASSUME Inv
  PROVE  /\ \A i : i \in Promise!Pending <=> i \in (Len(ran) + 1)..Len(added)
         /\ m_callback_queue = <<>> => Promise!Pending = {}
<1>1. /\ Len(ran) \in Nat /\ Len(added) \in Nat /\ DOMAIN ran = 1..Len(ran)
      /\ Len(ran) <= Len(added)
      /\ m_callback_queue = <<>> => Len(ran) = Len(added)
  BY Numbers DEF Inv, TypeOK
<1>2. \A k \in 1..Len(ran) : ran[k] = k
  BY DEF Inv, Numbered
<1>3. \A i : i \in Promise!Pending <=> i \in 1..Len(added) /\ i \notin 1..Len(ran)
  BY <1>1, <1>2 DEF Promise!Pending
<1>4. \A i : i \in Promise!Pending <=> i \in (Len(ran) + 1)..Len(added)
  BY <1>1, <1>3
<1>5. ASSUME m_callback_queue = <<>> PROVE Promise!Pending = {}
  BY <1>1, <1>4, <1>5
<1> QED
  BY <1>4, <1>5

LEMMA BeginImplements ==
  ASSUME Inv, NEW r \in Runner, Begin(r), UNCHANGED <<pool, owner>>, owner # "dead"
  PROVE  Promise!Next
<1>1. /\ Len(ran) \in Nat /\ Len(added) \in Nat
      /\ ran' = Append(ran, Len(ran) + 1) /\ Len(ran) + 1 <= Len(added) /\ added' = added
  BY Numbers, BeginFacts DEF Inv
<1>2. \A i : i \in Promise!Pending <=> i \in (Len(ran) + 1)..Len(added)
  BY PendingFacts
<1>3. Len(ran) + 1 \in Promise!Pending /\ \A j \in Promise!Pending : Len(ran) + 1 <= j
  BY <1>1, <1>2
<1>4. Promise!RunCallback(Len(ran) + 1)
  BY <1>1, <1>3 DEF Promise!RunCallback
<1> QED
  BY <1>3, <1>4 DEF Promise!Next

LEMMA PushImplements ==
  ASSUME Inv, NEW who \in Callers, Push(who), UNCHANGED <<pool, owner, ran>>
  PROVE  Promise!Next
<1>1. Len(added') = Len(added) + 1 /\ owner # "dead"
  BY PushFacts DEF Inv, Push
<1>2. Promise!Execute
  BY <1>1 DEF Promise!Execute
<1> QED
  BY <1>2 DEF Promise!Next

LEMMA StepImplements ==
  ASSUME Inv, [Next]_vars
  PROVE  [Promise!Next]_Promise!vars
<1>1. Nobody \in Callers /\ \A c \in Client : c \in Callers
  BY DEF Callers
<1>2. ASSUME NEW c \in Client, Execute(c) \/ DrainCallbacks(c)
      PROVE  Promise!Next
  BY <1>1, <1>2, PushImplements DEF Execute, DrainCallbacks, runVars
<1>3. ASSUME NEW w \in Worker, ExecuteInWorker(w)
      PROVE  Promise!Next
  BY <1>1, <1>3, PushImplements DEF ExecuteInWorker, runVars
<1>4. ASSUME NEW w \in Worker, TakeCallback(w)
      PROVE  Promise!Next
  <2>1. owner # "dead" /\ w \in Runner
    BY <1>4, ConsumerFacts DEF TakeCallback, Inv, Places, Gone
  <2> QED
    BY <1>4, <2>1, BeginImplements DEF TakeCallback
<1>5. ASSUME RunRemaining
      PROVE  Promise!Next
  BY <1>5, ConsumerFacts, BeginImplements DEF RunRemaining
<1>6. ASSUME RemainingDone
      PROVE  [Promise!Next]_Promise!vars
  <2>1. UNCHANGED <<added, ran, pool>> /\ owner # "dead"
    BY <1>6 DEF RemainingDone, queueVars, runVars
  <2>2. CASE ~pool /\ owner = "dying"
    <3>1. Promise!Pending = {}
      BY <1>6, PendingFacts DEF RemainingDone
    <3>2. owner' = "dead"
      BY <1>6, <2>2 DEF RemainingDone
    <3>3. Promise!Destroy
      BY <2>1, <2>2, <3>1, <3>2 DEF Promise!Destroy
    <3> QED
      BY <3>3 DEF Promise!Next
  <2>3. CASE pool \/ owner # "dying"
    BY <1>6, <2>1, <2>3 DEF RemainingDone, Promise!vars
  <2> QED
    BY <2>2, <2>3
<1>7. ASSUME UNCHANGED <<pool, added, ran>>, (~pool /\ owner = "dead") <=> (~pool /\ owner' = "dead")
      PROVE  UNCHANGED Promise!vars
  BY <1>7 DEF Promise!vars
<1>8. ASSUME UNCHANGED <<pool, queueVars, runVars, owner>> PROVE UNCHANGED Promise!vars
  BY <1>7, <1>8 DEF queueVars, runVars
<1>9. ASSUME NEW c \in Client, ClientStep(c) \/ GetWakeUp(c)
      PROVE  UNCHANGED Promise!vars
  BY <1>8, <1>9 DEF ClientStep, Signal, Get, GetReturns, GetWakeUp
<1>10. ASSUME NEW w \in Worker, TestShutdown(w) \/ SignalInWorker(w) \/ WakeUp(w)
      PROVE  UNCHANGED Promise!vars
  BY <1>8, <1>10 DEF TestShutdown, SignalInWorker, WakeUp
<1>11. ASSUME NEW w \in Worker, InternalRun(w) \/ StartWakeUp(w)
       PROVE  UNCHANGED Promise!vars
  <2>1. owner # "dead"
    BY <1>11 DEF InternalRun, StartWakeUp, Inv, Places, Gone
  <2> QED
    BY <1>7, <1>11, <2>1 DEF InternalRun, StartWakeUp, StartReturns, queueVars, runVars
<1>12. ASSUME NEW r \in Runner, RunnerStep(r)
       PROVE  UNCHANGED Promise!vars
  BY <1>7, <1>12 DEF RunnerStep, SetFuture, BroadcastFuture, Return, queueVars, runVars
<1>13. ASSUME ExecuteInOwner
       PROVE  UNCHANGED Promise!vars
  <2>1. owner # "dead"
    BY <1>13 DEF ExecuteInOwner, Inv, Accounted
  <2> QED
    BY <1>7, <1>13, <2>1 DEF ExecuteInOwner, queueVars, runVars
<1>14. ASSUME StartThread \/ StopSignal \/ Join \/ LockRemaining \/ Destroy
       PROVE  UNCHANGED Promise!vars
  BY <1>7, <1>14
  DEF StartThread, StopSignal, Join, LockRemaining, Destroy, queueVars, runVars
<1>15. ASSUME StartFails \/ Stop
       PROVE  UNCHANGED Promise!vars
  BY <1>7, <1>15 DEF StartFails, Stop, Shutdown, queueVars, runVars
<1>16. CASE UNCHANGED vars
  BY <1>8, <1>16 DEF vars
<1> QED
  BY <1>2, <1>3, <1>4, <1>5, <1>6, <1>9, <1>10, <1>11, <1>12, <1>13, <1>14, <1>15, <1>16
  DEF Next, WorkerStep, OwnerStep

\* ExecutorThread and ThreadPool keep what ExecutorInterface promises, with any
\* number of clients and threads: every callback is run once, in the order of
\* the Execute() calls, and an ExecutorThread is destroyed with none left.
THEOREM ExecutorImplemented == Spec => ImplementsExecutor
<1>1. Init => Promise!Init
  BY DEF Init, Promise!Init
<1>2. Inv /\ [Next]_vars => [Promise!Next]_Promise!vars
  BY StepImplements
<1> QED
  BY <1>1, <1>2, Invariance, PTL DEF Spec, ImplementsExecutor, Promise!Spec

-----------------------------------------------------------------------------
(* What DrainCallbacks() waits for.                                         *)

\* An ExecutorThread's callbacks are run one at a time.
LEMMA OneAtATime ==
  ASSUME Inv, ~pool, NEW q \in Runner, NEW r \in Runner, doing[q] # 0, doing[r] # 0
  PROVE  q = r
<1>1. ASSUME NEW v \in Worker, doing[v] # 0
      PROVE  v \in Consumers /\ doing["owner"] = 0
  BY <1>1 DEF Inv, Accounted, Places, Gone
<1> QED
  BY <1>1, ConsumerFacts DEF Runner

LEMMA DrainOfIs ==
  ASSUME Inv, NEW c \in Client, NEW i \in DOMAIN added, IsDrainOf(i, c)
  PROVE  DrainOf(c) = i
<1>1. DOMAIN added = 1..Len(added) /\ Len(added) \in Nat
  BY DEF Inv, TypeOK
<1>2. /\ DrainOf(c) \in DOMAIN added /\ added[DrainOf(c)] = c
      /\ \A j \in DOMAIN added : added[j] = c => j <= DrainOf(c)
  BY DEF DrainOf, IsDrainOf
<1> QED
  BY <1>1, <1>2 DEF IsDrainOf

\* Only the one who adds a callback changes what its last one is.
LEMMA DrainOfKept ==
  ASSUME Inv, NEW who \in Callers, Push(who), NEW c \in Client, c # who,
         NEW i \in DOMAIN added, IsDrainOf(i, c)
  PROVE  i \in DOMAIN added' /\ IsDrainOf(i, c)'
<1>1. /\ Len(added) \in Nat
      /\ DOMAIN added = 1..Len(added) /\ DOMAIN added' = 1..(Len(added) + 1)
      /\ \A k \in 1..Len(added) : added'[k] = added[k]
      /\ added'[Len(added) + 1] = who
  BY PushFacts, Numbers DEF Inv
<1>2. \A j \in DOMAIN added' : added'[j] = c => j \in DOMAIN added /\ added[j] = c
  BY <1>1
<1> QED
  BY <1>1, <1>2 DEF IsDrainOf

LEMMA DrainOfNew ==
  ASSUME Inv, NEW c \in Client, Push(c)
  PROVE  \E i \in DOMAIN added' : IsDrainOf(i, c)'
<1>1. /\ Len(added) \in Nat
      /\ DOMAIN added' = 1..(Len(added) + 1)
      /\ added'[Len(added) + 1] = c
  BY PushFacts, Numbers DEF Inv, Callers
<1>2. PICK n \in Nat : n = Len(added) + 1
  BY <1>1
<1>3. n \in DOMAIN added' /\ IsDrainOf(n, c)'
  BY <1>1, <1>2 DEF IsDrainOf
<1> QED
  BY <1>3

DrainInv == Inv /\ Drained

\* What a set Future says stays true as callbacks are started and return.
LEMMA SetKept ==
  ASSUME DrainInv, finished \subseteq finished', Len(ran') \in Nat, Len(ran') >= Len(ran),
         NEW i \in m_is_set
  PROVE  i \in 1..Len(ran') /\ 1..(i - 1) \subseteq finished'
BY Numbers DEF DrainInv, Drained

LEMMA RanGrows ==
  ASSUME Inv, [Next]_vars
  PROVE  Len(ran') \in Nat /\ Len(ran') >= Len(ran)
<1>1. Len(ran) \in Nat
  BY Numbers
<1>2. ASSUME NEW r \in Runner, Begin(r) PROVE Len(ran') = Len(ran) + 1
  BY <1>2, BeginFacts DEF Inv
<1>3. ran' = ran \/ \E r \in Runner : Begin(r)
  BY QueueSteps DEF runVars
<1> QED
  BY <1>1, <1>2, <1>3

\* Neither clients nor Futures change.
LEMMA DrainedUnchanged ==
  ASSUME DrainInv, [Next]_vars, UNCHANGED <<pool, client, added, m_is_set>>,
         finished \subseteq finished'
  PROVE  Drained'
<1>1. \A i \in m_is_set' : i \in 1..Len(ran') /\ 1..(i - 1) \subseteq finished'
  BY RanGrows, SetKept DEF DrainInv
<1>2. ASSUME NEW i, NEW c PROVE IsDrainOf(i, c)' <=> IsDrainOf(i, c)
  BY DEF IsDrainOf
<1>3. /\ pool' => \A c \in Client : client'[c] = "idle"
      /\ pool' => \A i \in DOMAIN added' : added'[i] = Nobody
  BY DEF DrainInv, Drained
<1>4. ASSUME NEW c \in Client, client'[c] \in Draining
      PROVE  \E i \in DOMAIN added' : IsDrainOf(i, c)'
  BY <1>2, <1>4 DEF DrainInv, Drained
<1>5. ASSUME NEW c \in Client, client'[c] = "woken"
      PROVE  \E i \in m_is_set' : IsDrainOf(i, c)'
  BY <1>2, <1>5 DEF DrainInv, Drained
<1> QED
  BY <1>1, <1>3, <1>4, <1>5 DEF Drained

\* A callback is added that nobody waits for.
LEMMA DrainedExecute ==
  ASSUME DrainInv, [Next]_vars, Push(Nobody),
         UNCHANGED <<pool, m_is_set, finished>>,
         pool => client' = client,
         \A c \in Client : client'[c] = client[c] \/ client'[c] = "signal"
  PROVE  Drained'
<1>0. Inv /\ Nobody \in Callers
  BY DEF DrainInv, Callers
<1>1. /\ DOMAIN added = 1..Len(added) /\ DOMAIN added' = 1..(Len(added) + 1)
      /\ \A i \in 1..Len(added) : added'[i] = added[i]
      /\ added'[Len(added) + 1] = Nobody
      /\ Len(added) \in Nat
  BY <1>0, PushFacts, Numbers DEF Inv
<1>2. \A i \in m_is_set' : i \in 1..Len(ran') /\ 1..(i - 1) \subseteq finished'
  BY <1>0, RanGrows, SetKept
<1>3. pool' => \A c \in Client : client'[c] = "idle"
  BY DEF DrainInv, Drained
<1>4. pool' => \A i \in DOMAIN added' : added'[i] = Nobody
  BY <1>1 DEF DrainInv, Drained
<1>5. ASSUME NEW c \in Client, NEW i, IsDrainOf(i, c)
      PROVE  i \in DOMAIN added' /\ IsDrainOf(i, c)'
  <2>1. c # Nobody /\ i \in DOMAIN added
    BY <1>5, ConstantsAssumption DEF Nobody, IsDrainOf
  <2> QED
    BY <1>0, <1>5, <2>1, DrainOfKept
<1>6. ASSUME NEW c \in Client, client'[c] \in Draining
      PROVE  \E i \in DOMAIN added' : IsDrainOf(i, c)'
  <2>1. client[c] \in Draining
    BY <1>6 DEF Draining
  <2> QED
    BY <1>5, <2>1 DEF DrainInv, Drained
<1>7. ASSUME NEW c \in Client, client'[c] = "woken"
      PROVE  \E i \in m_is_set' : IsDrainOf(i, c)'
  <2>1. client[c] = "woken"
    BY <1>7
  <2> QED
    BY <1>5, <2>1 DEF DrainInv, Drained
<1> QED
  BY <1>2, <1>3, <1>4, <1>6, <1>7 DEF Drained

LEMMA DrainedDrain ==
  ASSUME DrainInv, [Next]_vars, NEW c \in Client, DrainCallbacks(c)
  PROVE  Drained'
<1>0. Inv /\ c \in Callers /\ Push(c) /\ ~pool /\ pool' = pool
      /\ client' = [client EXCEPT ![c] = "drain signal"] /\ client \in [Client -> ClientPlace]
      /\ UNCHANGED <<m_is_set, finished>>
  BY DEF DrainInv, Callers, DrainCallbacks, Inv, TypeOK, runVars
<1>1. \A i \in m_is_set' : i \in 1..Len(ran') /\ 1..(i - 1) \subseteq finished'
  BY <1>0, RanGrows, SetKept
<1>2. ASSUME NEW d \in Client, d # c, NEW i, IsDrainOf(i, d)
      PROVE  i \in DOMAIN added' /\ IsDrainOf(i, d)'
  <2>1. i \in DOMAIN added
    BY <1>2 DEF IsDrainOf
  <2> QED
    BY <1>0, <1>2, <2>1, DrainOfKept
<1>3. ASSUME NEW d \in Client, client'[d] \in Draining
      PROVE  \E i \in DOMAIN added' : IsDrainOf(i, d)'
  <2>1. CASE d = c
    BY <1>0, <2>1, DrainOfNew
  <2>2. CASE d # c
    BY <1>0, <1>2, <1>3, <2>2 DEF DrainInv, Drained
  <2> QED
    BY <2>1, <2>2
<1>4. ASSUME NEW d \in Client, client'[d] = "woken"
      PROVE  \E i \in m_is_set' : IsDrainOf(i, d)'
  <2>1. d # c /\ client[d] = "woken"
    BY <1>0, <1>4
  <2> QED
    BY <1>0, <1>2, <2>1 DEF DrainInv, Drained
<1> QED
  BY <1>0, <1>1, <1>3, <1>4 DEF Drained

LEMMA DrainedClient ==
  ASSUME DrainInv, [Next]_vars, NEW c \in Client, ClientStep(c) \/ GetWakeUp(c)
  PROVE  Drained'
<1>0. /\ Inv /\ client \in [Client -> ClientPlace]
      /\ UNCHANGED <<pool, added, m_is_set, finished>>
      /\ client[c] # "idle"
  BY DEF DrainInv, ClientStep, Signal, Get, GetReturns, GetWakeUp, Inv, TypeOK,
         runVars, queueVars
<1>1. /\ \A d \in Client : d # c => client'[d] = client[d]
      /\ client'[c] # "woken"
      /\ client'[c] \in Draining => client[c] \in Draining
  BY <1>0 DEF ClientStep, Signal, Get, GetReturns, GetWakeUp, Draining, ClientPlace
<1>2. ~pool
  BY <1>0 DEF DrainInv, Drained
<1>3. ASSUME NEW i, NEW d PROVE IsDrainOf(i, d)' <=> IsDrainOf(i, d)
  BY <1>0 DEF IsDrainOf
<1>4. \A i \in m_is_set' : i \in 1..Len(ran') /\ 1..(i - 1) \subseteq finished'
  BY <1>0, RanGrows, SetKept
<1>5. ASSUME NEW d \in Client, client'[d] \in Draining
      PROVE  \E i \in DOMAIN added' : IsDrainOf(i, d)'
  <2>1. client[d] \in Draining
    BY <1>1, <1>5
  <2> QED
    BY <1>0, <1>3, <2>1 DEF DrainInv, Drained
<1>6. ASSUME NEW d \in Client, client'[d] = "woken"
      PROVE  \E i \in m_is_set' : IsDrainOf(i, d)'
  <2>1. client[d] = "woken"
    BY <1>1, <1>6
  <2> QED
    BY <1>0, <1>3, <2>1 DEF DrainInv, Drained
<1> QED
  BY <1>0, <1>2, <1>4, <1>5, <1>6 DEF Drained

\* The callback that sets a Future runs alone, with all before it returned.
LEMMA DrainedSetFuture ==
  ASSUME DrainInv, NEW r \in Runner, SetFuture(r)
  PROVE  Drained'
<1>0. /\ Inv /\ doing[r] # 0 /\ added[doing[r]] \in Client
      /\ m_is_set' = m_is_set \cup {doing[r]}
      /\ UNCHANGED <<pool, client, added, doing, ran, finished>>
      /\ doing[r] \in Nat /\ Len(ran) \in Nat /\ Len(added) \in Nat
      /\ doing[r] <= Len(ran) /\ Len(ran) <= Len(added) /\ DOMAIN added = 1..Len(added)
  <2>1. /\ Inv /\ doing[r] # 0 /\ added[doing[r]] \in Client
        /\ m_is_set' = m_is_set \cup {doing[r]}
        /\ UNCHANGED <<pool, client, added, doing, ran, finished>>
    BY DEF DrainInv, SetFuture, runVars, queueVars
  <2>2. added \in Seq(Callers) /\ doing[r] <= Len(ran)
    BY <2>1 DEF Inv, TypeOK, Accounted
  <2>3. DOMAIN added = 1..Len(added)
    BY <2>2
  <2> QED
    BY <2>1, <2>2, <2>3, Numbers
<1>1. ~pool
  <2>1. doing[r] \in DOMAIN added
    BY <1>0
  <2>2. added[doing[r]] # Nobody
    BY <1>0, ConstantsAssumption DEF Nobody
  <2> QED
    BY <2>1, <2>2 DEF DrainInv, Drained
<1>2. ASSUME NEW j \in 1..(doing[r] - 1)
      PROVE  j \in finished
  <2>1. j \in 1..Len(ran) /\ j # 0 /\ j # doing[r]
    BY <1>0
  <2>2. ASSUME NEW q \in Runner, doing[q] = j PROVE FALSE
    BY <1>0, <1>1, <2>1, <2>2, OneAtATime
  <2> QED
    BY <1>0, <2>1, <2>2 DEF Inv, Accounted
<1>3. ASSUME NEW i \in m_is_set'
      PROVE  i \in 1..Len(ran') /\ 1..(i - 1) \subseteq finished'
  <2>1. CASE i = doing[r]
    BY <1>0, <1>2, <2>1
  <2>2. CASE i \in m_is_set
    BY <1>0, <2>2 DEF DrainInv, Drained
  <2> QED
    BY <1>0, <2>1, <2>2
<1>4. ASSUME NEW i, NEW d PROVE IsDrainOf(i, d)' <=> IsDrainOf(i, d)
  BY <1>0 DEF IsDrainOf
<1>5. ASSUME NEW d \in Client, client'[d] \in Draining
      PROVE  \E i \in DOMAIN added' : IsDrainOf(i, d)'
  BY <1>0, <1>4, <1>5 DEF DrainInv, Drained
<1>6. ASSUME NEW d \in Client, client'[d] = "woken"
      PROVE  \E i \in m_is_set' : IsDrainOf(i, d)'
  BY <1>0, <1>4, <1>6 DEF DrainInv, Drained
<1> QED
  BY <1>0, <1>1, <1>3, <1>5, <1>6 DEF Drained

LEMMA DrainedBroadcast ==
  ASSUME DrainInv, [Next]_vars, NEW r \in Runner, BroadcastFuture(r)
  PROVE  Drained'
<1> DEFINE c == added[doing[r]]
<1>0. /\ Inv /\ doing[r] \in m_is_set
      /\ client' = IF client[c] = "wait" /\ DrainOf(c) = doing[r]
                   THEN [client EXCEPT ![c] = "woken"] ELSE client
      /\ finished \subseteq finished'
      /\ UNCHANGED <<pool, added, m_is_set>>
      /\ client \in [Client -> ClientPlace]
  BY DEF DrainInv, BroadcastFuture, Inv, TypeOK, queueVars
<1>1. CASE client' = client
  BY <1>0, <1>1, DrainedUnchanged
<1>2. CASE /\ client[c] = "wait" /\ DrainOf(c) = doing[r]
           /\ client' = [client EXCEPT ![c] = "woken"]
  <2>0. CASE c \notin Client
    <3>1. client' = client
      BY <1>0, <1>2, <2>0
    <3> QED
      BY <1>1, <3>1
  <2>1. CASE c \in Client
    <3>1. PICK d \in Client : d = c
      BY <2>1
    <3>2. /\ client[d] = "wait" /\ DrainOf(d) = doing[r] /\ client'[d] = "woken"
          /\ \A e \in Client : e # d => client'[e] = client[e]
      BY <1>0, <1>2, <3>1
    <3> HIDE DEF c
    <3>3. ~pool
      BY <3>2 DEF DrainInv, Drained
    <3>4. ASSUME NEW i, NEW e PROVE IsDrainOf(i, e)' <=> IsDrainOf(i, e)
      BY <1>0 DEF IsDrainOf
    <3>5. \A i \in m_is_set' : i \in 1..Len(ran') /\ 1..(i - 1) \subseteq finished'
      BY <1>0, RanGrows, SetKept
    <3>6. PICK i \in DOMAIN added : IsDrainOf(i, d)
      BY <3>2 DEF DrainInv, Drained, Draining
    <3>7. i \in m_is_set
      BY <1>0, <3>2, <3>6, DrainOfIs
    <3>8. ASSUME NEW e \in Client, client'[e] \in Draining
          PROVE  \E k \in DOMAIN added' : IsDrainOf(k, e)'
      BY <1>0, <3>2, <3>4, <3>6, <3>8 DEF DrainInv, Drained
    <3>9. ASSUME NEW e \in Client, client'[e] = "woken"
          PROVE  \E k \in m_is_set' : IsDrainOf(k, e)'
      BY <1>0, <3>2, <3>4, <3>6, <3>7, <3>9 DEF DrainInv, Drained
    <3> QED
      BY <1>0, <3>3, <3>5, <3>8, <3>9 DEF Drained
  <2> QED
    BY <2>0, <2>1
<1> HIDE DEF c
<1> QED
  BY <1>0, <1>1, <1>2

LEMMA DrainedNext ==
  ASSUME DrainInv, [Next]_vars
  PROVE  Drained'
<1>0. client \in [Client -> ClientPlace]
  BY DEF DrainInv, Inv, TypeOK
<1>1. ASSUME NEW c \in Client, Execute(c)
      PROVE  Drained'
  <2>1. /\ Push(Nobody) /\ UNCHANGED <<pool, m_is_set, finished>>
        /\ pool => client' = client
        /\ \A d \in Client : client'[d] = client[d] \/ client'[d] = "signal"
    BY <1>0, <1>1 DEF Execute, runVars
  <2> QED
    BY <2>1, DrainedExecute
<1>2. ASSUME NEW w \in Worker, ExecuteInWorker(w)
      PROVE  Drained'
  <2>1. Push(Nobody) /\ UNCHANGED <<pool, m_is_set, finished, client>>
    BY <1>2 DEF ExecuteInWorker, runVars
  <2> QED
    BY <2>1, DrainedExecute
<1>3. ASSUME NEW w \in Worker, WorkerStep(w) \/ WakeUp(w) \/ StartWakeUp(w)
      PROVE  Drained'
  <2>1. UNCHANGED <<pool, client, added, m_is_set, finished>>
    BY <1>3 DEF WorkerStep, InternalRun, TakeCallback, TestShutdown, SignalInWorker, WakeUp,
                StartWakeUp, Begin, runVars, queueVars
  <2> QED
    BY <2>1, DrainedUnchanged
<1>4. ASSUME NEW r \in Runner, Return(r)
      PROVE  Drained'
  <2>1. UNCHANGED <<pool, client, added, m_is_set>> /\ finished \subseteq finished'
    BY <1>4 DEF Return, queueVars
  <2> QED
    BY <2>1, DrainedUnchanged
<1>5. ASSUME ExecuteInOwner \/ StartThread \/ StartFails \/ Stop \/ OwnerStep \/ Destroy
             \/ UNCHANGED vars
      PROVE  Drained'
  <2>1. UNCHANGED <<pool, client, added, m_is_set, finished>>
    BY <1>5 DEF ExecuteInOwner, StartThread, StartFails, Stop, OwnerStep, StopSignal, Join,
                LockRemaining, RunRemaining, RemainingDone, Destroy, Begin, vars, runVars,
                queueVars
  <2> QED
    BY <2>1, DrainedUnchanged
<1> QED
  BY <1>1, <1>2, <1>3, <1>4, <1>5, DrainedDrain, DrainedClient, DrainedSetFuture,
     DrainedBroadcast
  DEF Next, RunnerStep

LEMMA DrainInvariance == Spec => []DrainInv
<1>1. Init => DrainInv
  <2> SUFFICES ASSUME Init PROVE DrainInv
    OBVIOUS
  <2>1. /\ \A c \in Client : client[c] = "idle" /\ client[c] \notin Draining
        /\ m_is_set = {} /\ added = <<>>
    BY DEF Init, Draining
  <2>2. Drained
    BY <2>1 DEF Drained
  <2> QED
    BY <2>2, InvInit DEF DrainInv
<1>2. DrainInv /\ [Next]_vars => DrainInv'
  BY DrainedNext, InvNext DEF DrainInv
<1> QED
  BY <1>1, <1>2, PTL DEF Spec

\* A step by which DrainCallbacks() returns, other than a spurious wake-up.
DrainStep ==
  \A c \in Client :
    client[c] \in {"get", "woken"} /\ client'[c] = "idle" =>
      1..(DrainOf(c) - 1) \subseteq finished

LEMMA DrainStepHolds ==
  ASSUME DrainInv, [Next]_vars
  PROVE  DrainStep
<1> SUFFICES ASSUME NEW c \in Client, client[c] \in {"get", "woken"}, client'[c] = "idle"
             PROVE  1..(DrainOf(c) - 1) \subseteq finished
  BY DEF DrainStep
<1>0. Inv /\ client \in [Client -> ClientPlace]
  BY DEF DrainInv, Inv, TypeOK
<1>1. DrainOf(c) \in m_is_set
  <2>1. CASE client[c] = "woken"
    <3>1. PICK i \in m_is_set : IsDrainOf(i, c)
      BY <2>1 DEF DrainInv, Drained
    <3> QED
      BY <1>0, <3>1, DrainOfIs DEF IsDrainOf
  <2>2. CASE client[c] = "get"
    <3>1. ASSUME NEW d \in Client, Execute(d) \/ DrainCallbacks(d) \/ Signal(d)
                                  \/ GetReturns(d) \/ GetWakeUp(d)
          PROVE  FALSE
      BY <1>0, <2>2, <3>1 DEF Execute, DrainCallbacks, Signal, GetReturns, GetWakeUp
    <3>2. ASSUME NEW d \in Client, Get(d)
          PROVE  DrainOf(c) \in m_is_set
      BY <1>0, <2>2, <3>2 DEF Get
    <3>3. ASSUME NEW r \in Runner, RunnerStep(r)
          PROVE  FALSE
      BY <1>0, <2>2, <3>3 DEF RunnerStep, SetFuture, BroadcastFuture, Return
    <3>4. ASSUME NEW w \in Worker, \/ WorkerStep(w) \/ ExecuteInWorker(w) \/ WakeUp(w)
                                   \/ StartWakeUp(w)
          PROVE  FALSE
      BY <2>2, <3>4 DEF WorkerStep, InternalRun, TakeCallback, TestShutdown,
                        SignalInWorker, WakeUp, StartWakeUp, ExecuteInWorker
    <3>5. ASSUME ExecuteInOwner \/ StartThread \/ StartFails \/ Stop \/ OwnerStep \/ Destroy
                 \/ UNCHANGED vars
          PROVE  FALSE
      BY <2>2, <3>5 DEF ExecuteInOwner, StartThread, StartFails, Stop, OwnerStep, StopSignal,
                        Join, LockRemaining, RunRemaining, RemainingDone, Destroy, vars
    <3> QED
      BY <3>1, <3>2, <3>3, <3>4, <3>5 DEF Next, ClientStep
  <2> QED
    BY <2>1, <2>2
<1> QED
  BY <1>1 DEF DrainInv, Drained

\* DrainCallbacks() returns, unless its wait ends without a signal, only when
\* every callback added before it has returned (DrainWaits), whether it was
\* run by the consumer thread or by RunRemaining().
THEOREM DrainHolds == Spec => DrainWaits
<1>1. DrainInv /\ [Next]_vars =>
        [\A c \in Client :
           client[c] \in {"get", "woken"} /\ client'[c] = "idle" =>
             1..(DrainOf(c) - 1) \subseteq finished]_vars
  BY DrainStepHolds DEF DrainStep
<1> QED
  BY <1>1, DrainInvariance, PTL DEF Spec, DrainWaits
=============================================================================
