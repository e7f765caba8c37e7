--------------------------- MODULE NamespaceQueues ---------------------------
(***************************************************************************)
(* The work queues of the controller (pkg/controller/worker.go), from the  *)
(* informers' callbacks to the handlers' results, and their shutdown.      *)
(*                                                                         *)
(* Callbacks put items on the main queue.  The dispatcher goroutine takes  *)
(* them off and puts them on a queue of the item's namespace, for which it *)
(* creates a queue and a worker goroutine when it meets the namespace for  *)
(* the first time.  A worker takes one item after the other; an item whose *)
(* handler fails comes back to the queue after a delay.  When a signal is  *)
(* received the main goroutine shuts the queues down and waits for the     *)
(* workers with a WaitGroup.                                               *)
(*                                                                         *)
(* A step is what one goroutine does between two points where another can  *)
(* see it: the dispatcher's creation of a worker (the map, the go          *)
(* statement, the WaitGroup) is three steps, as in the code.               *)
(***************************************************************************)
EXTENDS Integers, Sequences, FiniteSets, Functions

CONSTANTS
    Namespaces,
    Hopeless,      \* namespaces in which every synchronisation fails
    NoItem,        \* no item in hand
    MayStop,       \* a termination signal may arrive
    MaxItems,      \* bound on the items (informers' and handlers')
    MaxFailures    \* bound on failed synchronisations, Hopeless apart

\* A SyncObj is a new pointer each time: no two items are equal, and items
\* are numbered in the order in which they are handed to a queue.
Items == [id : 1 .. MaxItems, ns : Namespaces]

ASSUME FiniteAssumption == IsFiniteSet(Namespaces)
ASSUME HopelessAssumption == Hopeless \subseteq Namespaces
ASSUME NoItemAssumption == NoItem \notin Items
ASSUME BoundsAssumption ==
    MayStop \in BOOLEAN /\ MaxItems \in Nat /\ MaxFailures \in Nat

VARIABLES
    \* NamespaceQueues
    queue,       \* the main queue
    shutdown,    \* the main queue is shutting down
    workers,     \* the namespaces in the map of workers
    wg,          \* the WaitGroup's counter
    dispatcher,  \* the dispatcher goroutine: where it is
    taken,       \* the item it has taken off the main queue
    \* NamespaceWorkers, by namespace
    nsQueue,     \* the worker's queue
    nsShutdown,  \* it is shutting down
    worker,      \* the worker goroutine: where it is
    hand,        \* the item it is synchronising
    retries,     \* items to be added again after a delay
    \* the main goroutine, the one that handles signals, the process
    main,        \* where IngressController.Run or NamespaceQueues.Stop is
    todo,        \* namespaces the loop of Stop is still certain to visit
    signal,      \* where handleTermination is
    process,     \* "up", "exited", or "panicked"
    \* what has happened to the items
    handedOver,  \* number of items so far
    notified,    \* items that came from the informers
    tried,       \* items that a worker has begun to synchronise
    synced,      \* items synchronised with success
    dropped,     \* items lost to a queue that is shutting down
    failures

mainVars   == <<main, todo, signal, process>>
dispVars   == <<queue, dispatcher, taken, workers>>
workVars   == <<nsQueue, worker, hand, retries>>
shutVars   == <<shutdown, nsShutdown>>
history    == <<handedOver, notified, tried, synced, dropped, failures>>
vars == <<queue, shutdown, workers, wg, dispatcher, taken, nsQueue, nsShutdown,
          worker, hand, retries, main, todo, signal, process, handedOver,
          notified, tried, synced, dropped, failures>>

Init ==
    /\ queue = <<>>
    /\ shutdown = FALSE
    /\ workers = {}
    /\ wg = 0
    /\ dispatcher = "none"
    /\ taken = NoItem
    /\ nsQueue = [ns \in Namespaces |-> <<>>]
    /\ nsShutdown = [ns \in Namespaces |-> FALSE]
    /\ worker = [ns \in Namespaces |-> "none"]
    /\ hand = [ns \in Namespaces |-> NoItem]
    /\ retries = {}
    /\ main = "start"
    /\ todo = {}
    /\ signal = "waiting"
    /\ process = "up"
    /\ handedOver = 0
    /\ notified = {}
    /\ tried = {}
    /\ synced = {}
    /\ dropped = {}
    /\ failures = 0

Up == process = "up"

NewItem(ns) == [id |-> handedOver + 1, ns |-> ns]

-----------------------------------------------------------------------------
(* The informers' callbacks.  Add on a queue that is shutting down does    *)
(* nothing.                                                                *)

Notify(ns) ==
    /\ Up
    /\ handedOver < MaxItems
    /\ handedOver' = handedOver + 1
    /\ notified' = notified \cup {NewItem(ns)}
    /\ \/ /\ ~shutdown
          /\ queue' = Append(queue, NewItem(ns))
          /\ UNCHANGED dropped
       \/ /\ shutdown
          /\ dropped' = dropped \cup {NewItem(ns)}
          /\ UNCHANGED queue
    /\ UNCHANGED <<dispatcher, taken, workers, wg, workVars, shutVars, mainVars,
                   tried, synced, failures>>

-----------------------------------------------------------------------------
(* The dispatcher: NamespaceQueues.Run and next.                           *)

Dispatch(from, to) ==
    /\ Up
    /\ dispatcher = from
    /\ dispatcher' = to
    /\ UNCHANGED <<shutVars, mainVars>>

\* for !qs.Queue.ShuttingDown().  wait.Until would call Run again, which would
\* return at once.
RunLoop ==
    /\ Dispatch("loop", IF shutdown THEN "exited" ELSE "get")
    /\ UNCHANGED <<queue, taken, workers, wg, workVars, history>>

\* qs.Queue.Get(): blocks until there is an item or the queue is shut down.
TakeItem ==
    /\ queue # <<>>
    /\ Dispatch("get", "find")
    /\ taken' = Head(queue)
    /\ queue' = Tail(queue)
    /\ UNCHANGED <<workers, wg, workVars, history>>

QuitGet ==
    /\ queue = <<>> /\ shutdown
    /\ Dispatch("get", "loop")
    /\ UNCHANGED <<queue, taken, workers, wg, workVars, history>>

\* Faulty: the worker of an item before.
FirstTarget == IF workers = {} THEN taken.ns ELSE CHOOSE ns \in workers : TRUE

\* getNameSpace(syncObj.Obj): the worker that the item is for.
Target == taken.ns

\* Faulty: wg.Add whether or not the worker is new.
FindWorkerCounts ==
    /\ Dispatch("find", "count")
    /\ Target \in workers
    /\ UNCHANGED <<queue, taken, workers, wg, workVars, history>>

FindWorker ==
    /\ Dispatch("find", "add")
    /\ Target \in workers
    /\ UNCHANGED <<queue, taken, workers, wg, workVars, history>>

\* A new queue, and qs.workers[ns] = worker.
CreateWorker ==
    /\ Dispatch("find", "go")
    /\ Target \notin workers
    /\ workers' = workers \cup {Target}
    /\ UNCHANGED <<queue, taken, wg, workVars, history>>

\* go worker.work()
StartWorker ==
    /\ Dispatch("go", "count")
    /\ worker' = [worker EXCEPT ![Target] = "loop"]
    /\ UNCHANGED <<queue, taken, workers, wg, nsQueue, hand, retries, history>>

\* Faulty: the item that makes a worker is not handed to it.
CountWorkerAndReturn ==
    /\ Dispatch("count", "loop")
    /\ wg' = wg + 1
    /\ UNCHANGED <<queue, taken, workers, workVars, history>>

\* qs.wg.Add(1)
CountWorker ==
    /\ Dispatch("count", "add")
    /\ wg' = wg + 1
    /\ UNCHANGED <<queue, taken, workers, workVars, history>>

\* Faulty: AddRateLimited for Add.
HandOverLater ==
    /\ Dispatch("add", "loop")
    /\ taken' = NoItem
    /\ retries' = retries \cup {taken}
    /\ UNCHANGED <<queue, workers, wg, nsQueue, worker, hand, history>>

\* worker.queue.Add(obj)
HandOver ==
    /\ Dispatch("add", "loop")
    /\ taken' = NoItem
    /\ \/ /\ ~nsShutdown[Target]
          /\ nsQueue' = [nsQueue EXCEPT ![Target] = Append(@, taken)]
          /\ UNCHANGED dropped
       \/ /\ nsShutdown[Target]
          /\ dropped' = dropped \cup {taken}
          /\ UNCHANGED nsQueue
    /\ UNCHANGED <<queue, workers, wg, worker, hand, retries, handedOver,
                   notified, tried, synced, failures>>

Dispatcher ==
    \/ RunLoop \/ TakeItem \/ QuitGet
    \/ FindWorker \/ CreateWorker \/ StartWorker \/ CountWorker \/ HandOver

-----------------------------------------------------------------------------
(* A worker: NamespaceWorker.work and next.                                *)

Work(ns, from, to) ==
    /\ Up
    /\ worker[ns] = from
    /\ worker' = [worker EXCEPT ![ns] = to]
    /\ UNCHANGED <<dispVars, shutVars, mainVars>>

\* for !worker.queue.ShuttingDown()
WorkLoop(ns) ==
    /\ ~nsShutdown[ns]
    /\ Work(ns, "loop", "get")
    /\ UNCHANGED <<nsQueue, hand, retries, wg, history>>

\* defer worker.wg.Done(); a WaitGroup panics below zero.
WorkExit(ns) ==
    /\ nsShutdown[ns]
    /\ Up
    /\ worker[ns] = "loop"
    /\ worker' = [worker EXCEPT ![ns] = "exited"]
    /\ wg' = wg - 1
    /\ process' = IF wg = 0 THEN "panicked" ELSE process
    /\ UNCHANGED <<dispVars, shutVars, main, todo, signal, nsQueue, hand,
                   retries, history>>

BeginSync(ns) ==
    /\ nsQueue[ns] # <<>>
    /\ Work(ns, "get", "sync")
    /\ hand' = [hand EXCEPT ![ns] = Head(nsQueue[ns])]
    /\ nsQueue' = [nsQueue EXCEPT ![ns] = Tail(@)]
    /\ tried' = tried \cup {Head(nsQueue[ns])}
    /\ UNCHANGED <<retries, wg, handedOver, notified, synced, dropped, failures>>

QuitNsGet(ns) ==
    /\ nsQueue[ns] = <<>> /\ nsShutdown[ns]
    /\ Work(ns, "get", "loop")
    /\ UNCHANGED <<nsQueue, hand, retries, wg, history>>

\* The handler of a Service, of Endpoints or of a configuration puts the
\* Ingresses concerned on its own queue.
Requeue(ns) ==
    /\ Up
    /\ worker[ns] = "sync"
    /\ handedOver < MaxItems
    /\ handedOver' = handedOver + 1
    /\ \/ /\ ~nsShutdown[ns]
          /\ nsQueue' = [nsQueue EXCEPT ![ns] = Append(@, NewItem(ns))]
          /\ UNCHANGED dropped
       \/ /\ nsShutdown[ns]
          /\ dropped' = dropped \cup {NewItem(ns)}
          /\ UNCHANGED nsQueue
    /\ UNCHANGED <<dispVars, shutVars, mainVars, wg, worker, hand, retries,
                   notified, tried, synced, failures>>

\* dispatch returned nil.
SyncSuccess(ns) ==
    /\ ns \notin Hopeless
    /\ Work(ns, "sync", "loop")
    /\ hand' = [hand EXCEPT ![ns] = NoItem]
    /\ synced' = synced \cup {hand[ns]}
    /\ UNCHANGED <<nsQueue, retries, wg, handedOver, notified, tried, dropped,
                   failures>>

\* Faulty: a failed item is forgotten.
SyncFailureForgotten(ns) ==
    /\ Work(ns, "sync", "loop")
    /\ hand' = [hand EXCEPT ![ns] = NoItem]
    /\ dropped' = dropped \cup {hand[ns]}
    /\ UNCHANGED <<nsQueue, retries, wg, handedOver, notified, tried, synced, failures>>

\* dispatch returned an error: AddRateLimited, which does nothing when the
\* queue is shutting down.
SyncFailure(ns) ==
    /\ \/ ns \in Hopeless /\ UNCHANGED failures
       \/ ns \notin Hopeless /\ failures < MaxFailures /\ failures' = failures + 1
    /\ Work(ns, "sync", "loop")
    /\ hand' = [hand EXCEPT ![ns] = NoItem]
    /\ \/ /\ ~nsShutdown[ns]
          /\ retries' = retries \cup {hand[ns]}
          /\ UNCHANGED dropped
       \/ /\ nsShutdown[ns]
          /\ dropped' = dropped \cup {hand[ns]}
          /\ UNCHANGED retries
    /\ UNCHANGED <<nsQueue, wg, handedOver, notified, tried, synced>>

\* The delay of a failed item is over.
Retry(i) ==
    /\ Up
    /\ i \in retries
    /\ retries' = retries \ {i}
    /\ \/ /\ ~nsShutdown[i.ns]
          /\ nsQueue' = [nsQueue EXCEPT ![i.ns] = Append(@, i)]
          /\ UNCHANGED dropped
       \/ /\ nsShutdown[i.ns]
          /\ dropped' = dropped \cup {i}
          /\ UNCHANGED nsQueue
    /\ UNCHANGED <<dispVars, shutVars, mainVars, wg, worker, hand, handedOver,
                   notified, tried, synced, failures>>

Worker(ns) ==
    \/ WorkLoop(ns) \/ WorkExit(ns) \/ BeginSync(ns) \/ QuitNsGet(ns)
    \/ Requeue(ns) \/ SyncSuccess(ns) \/ SyncFailure(ns)

-----------------------------------------------------------------------------
(* IngressController.Run and NamespaceQueues.Stop in the main goroutine,   *)
(* handleTermination and IngressController.Stop in another one.            *)

\* Only the main goroutine and the one for signals take a step.
Ends == /\ Up
        /\ UNCHANGED <<queue, taken, workers, wg, workVars, history>>

\* The caches are synced: go wait.Until(ingc.nsQs.Run, ...).
StartDispatcher ==
    /\ Ends
    /\ main = "start"
    /\ main' = "run"
    /\ dispatcher' = "loop"
    /\ UNCHANGED <<todo, signal, process, shutVars>>

\* The ready file cannot be created: Run returns.
NoReadyFile ==
    /\ Ends
    /\ MayStop
    /\ main = "start"
    /\ main' = "stop"
    /\ UNCHANGED <<dispatcher, todo, signal, process, shutVars>>

ReceiveSignal ==
    /\ Ends
    /\ MayStop
    /\ signal = "waiting"
    /\ signal' = "send"
    /\ UNCHANGED <<dispatcher, main, todo, process, shutVars>>

\* ingc.stopCh <- struct{}{}: the main goroutine receives it, or an informer.
SendStop ==
    /\ Ends
    /\ signal = "send"
    /\ signal' = "close"
    /\ \/ main \in {"start", "run"} /\ main' = "stop"
       \/ UNCHANGED main
    /\ UNCHANGED <<dispatcher, todo, process, shutVars>>

\* close(ingc.stopCh), then wait for DoneChan.
CloseStop ==
    /\ Ends
    /\ signal = "close"
    /\ signal' = "await"
    /\ main' = IF main \in {"start", "run"} THEN "stop" ELSE main
    /\ UNCHANGED <<dispatcher, todo, process, shutVars>>

\* qs.Queue.ShutDown(), and the loop over the workers begins.
ShutDownMain ==
    /\ Ends
    /\ main = "stop"
    /\ main' = "each"
    /\ shutdown' = TRUE
    /\ todo' = workers
    /\ UNCHANGED <<dispatcher, nsShutdown, signal, process>>

\* The loop visits each worker that was there when it began, and may or may
\* not visit one that is added meanwhile.
ShutDownWorker(ns) ==
    /\ Ends
    /\ main = "each"
    /\ ns \in workers
    /\ ~nsShutdown[ns]
    /\ nsShutdown' = [nsShutdown EXCEPT ![ns] = TRUE]
    /\ todo' = todo \ {ns}
    /\ UNCHANGED <<dispatcher, shutdown, main, signal, process>>

EndOfLoop ==
    /\ Ends
    /\ main = "each" /\ todo = {}
    /\ main' = "wait"
    /\ UNCHANGED <<dispatcher, todo, signal, process, shutVars>>

\* The dispatcher writes the map while Stop iterates over it: where the
\* runtime notices, it ends the process.
MapFatal ==
    /\ Ends
    /\ dispatcher = "find" /\ taken.ns \notin workers
    /\ main = "each"
    /\ process' = "panicked"
    /\ UNCHANGED <<dispatcher, main, todo, signal, shutVars>>

\* qs.wg.Wait(), close(qs.DoneChan): Stop and Run return.
WaitReturns == wg = 0

Done ==
    /\ Ends
    /\ main = "wait" /\ WaitReturns
    /\ main' = "done"
    /\ UNCHANGED <<dispatcher, todo, signal, process, shutVars>>

\* main returns.
MainReturns ==
    /\ Ends
    /\ main = "done"
    /\ process' = "exited"
    /\ UNCHANGED <<dispatcher, main, todo, signal, shutVars>>

\* <-ingc.nsQs.DoneChan, the informers' stop, and then vc.Quit().
Quit ==
    /\ Ends
    /\ signal = "await" /\ main = "done"
    /\ signal' = "quit"
    /\ UNCHANGED <<dispatcher, main, todo, process, shutVars>>

\* vc.Quit has returned: os.Exit(0).
OsExit ==
    /\ Ends
    /\ signal = "quit"
    /\ signal' = "exit"
    /\ process' = "exited"
    /\ UNCHANGED <<dispatcher, main, todo, shutVars>>

Main ==
    \/ StartDispatcher \/ ShutDownMain \/ (\E ns \in Namespaces : ShutDownWorker(ns))
    \/ EndOfLoop \/ Done \/ MainReturns

Termination == SendStop \/ CloseStop \/ Quit \/ OsExit

Next ==
    \/ \E ns \in Namespaces : Notify(ns) \/ Worker(ns)
    \/ \E i \in Items : Retry(i)
    \/ Dispatcher \/ Main \/ Termination
    \/ ReceiveSignal \/ NoReadyFile \/ MapFatal

\* Each goroutine goes on when it can; the delay of an item ends.
Fairness ==
    /\ WF_vars(Dispatcher) /\ WF_vars(Main) /\ WF_vars(Termination)
    /\ \A ns \in Namespaces : WF_vars(Worker(ns))
    /\ \A i \in Items : WF_vars(Retry(i))

Spec == Init /\ [][Next]_vars /\ Fairness

-----------------------------------------------------------------------------
(* Properties.                                                             *)

\* Variables keep their types; a worker sees items of its namespace only.
ItemsOf(ns) == {i \in Items : i.ns = ns}

TypeOK ==
    /\ queue \in Seq(Items)
    /\ shutdown \in BOOLEAN
    /\ workers \subseteq Namespaces
    /\ wg \in Int
    /\ dispatcher \in {"none", "loop", "get", "find", "go", "count", "add", "exited"}
    /\ taken \in Items \cup {NoItem}
    /\ \A ns \in Namespaces : nsQueue[ns] \in Seq(ItemsOf(ns))
    /\ DOMAIN nsQueue = Namespaces
    /\ nsShutdown \in [Namespaces -> BOOLEAN]
    /\ worker \in [Namespaces -> {"none", "loop", "get", "sync", "exited"}]
    /\ \A ns \in Namespaces : hand[ns] \in ItemsOf(ns) \cup {NoItem}
    /\ DOMAIN hand = Namespaces
    /\ retries \subseteq Items
    /\ main \in {"start", "run", "stop", "each", "wait", "done"}
    /\ todo \subseteq Namespaces
    /\ signal \in {"waiting", "send", "close", "await", "quit", "exit"}
    /\ process \in {"up", "exited", "panicked"}
    /\ handedOver \in 0 .. MaxItems
    /\ notified \subseteq Items /\ tried \subseteq Items
    /\ synced \subseteq Items /\ dropped \subseteq Items
    /\ failures \in 0 .. MaxFailures

\* Where an item is.
InMain(i)  == i \in Range(queue)
Taken(i)   == i = taken
InQueue(i) == i \in Range(nsQueue[i.ns])
InHand(i)  == i = hand[i.ns]

Places(i) ==
    {p \in {"main", "taken", "queue", "hand", "retries", "synced", "dropped"} :
        \/ p = "main"    /\ InMain(i)
        \/ p = "taken"   /\ Taken(i)
        \/ p = "queue"   /\ InQueue(i)
        \/ p = "hand"    /\ InHand(i)
        \/ p = "retries" /\ i \in retries
        \/ p = "synced"  /\ i \in synced
        \/ p = "dropped" /\ i \in dropped}

\* No item is lost or doubled on its way from the informers over the two
\* queues, a worker's hand and the delay of a retry: once handed over, it is
\* at exactly one place, and it is dropped only if the queues shut down.
AtOnePlace ==
    /\ \A i \in Items : \A p, q \in Places(i) : p = q
    /\ IsInjective(queue)
    /\ \A ns \in Namespaces : IsInjective(nsQueue[ns])

NoneLost == \A n \in 1 .. handedOver : \E i \in Items : i.id = n /\ Places(i) # {}

DroppedAtShutdown == dropped # {} => shutdown

ItemsAccounted == AtOnePlace /\ NoneLost /\ DroppedAtShutdown

\* An item that came from the informers is not begun before an earlier one of
\* its namespace: only a failure changes the order in which a worker sees
\* them (worker.queue and the dispatcher keep it).
BegunInOrder ==
    \A i \in notified, j \in tried \cap notified :
        i.ns = j.ns /\ i.id < j.id => i \in tried \cup dropped

\* The WaitGroup counts the worker goroutines, but for the one that the
\* dispatcher has started and not yet counted.
Running == {ns \in Namespaces : worker[ns] \in {"loop", "get", "sync"}}
Uncounted == IF dispatcher = "count" THEN 1 ELSE 0
WaitGroupCounts == Up => wg + Uncounted = Cardinality(Running)

\* Where the namespaces' synchronisations can succeed they do, whatever
\* happens in other namespaces, until the shutdown: no namespace holds up
\* another one.
EachIsSynced ==
    \A i \in Items :
        i \in Range(queue) \cup Range(nsQueue[i.ns]) /\ i.ns \notin Hopeless
            ~> i \in synced \/ shutdown \/ process # "up"

\* A worker whose queue Stop did not shut down.
Missed == main = "wait" /\ \E ns \in workers : ~nsShutdown[ns]

\* Stop returns, unless the dispatcher creates a worker behind its back.
StopReturnsUnlessMissed == main = "stop" ~> (process # "up" \/ Missed)

\* "Stop shuts down the main queue loop initiated by Run(), and in turn shuts
\* down all of the NamespaceWorkers": Stop returns.  (It does not, when the
\* dispatcher creates a worker after Stop's loop.)
StopReturns == main = "stop" ~> process # "up"

\* When Stop has returned, all of the workers are shut down.  (They are not,
\* when a new worker calls wg.Done before the dispatcher has called wg.Add.)
StoppedMeansShutDown == main = "done" => Running = {}

\* The process that receives a signal exits after vc.Quit has waited for the
\* interactions with Varnish.  (It may exit before: main returns as soon as
\* Stop does.)
ExitAfterQuit == process = "exited" /\ signal # "waiting" => signal = "exit"

\* The queues implement NamespaceSync.
Queued == UNION {Range(nsQueue[ns]) : ns \in Namespaces}
Pending == Range(queue) \cup Queued \cup retries \cup ({taken} \ {NoItem})
NamespaceOf(i) == i.ns

NS == INSTANCE NamespaceSync
    WITH pending <- Pending, syncing <- hand, synced <- synced,
         stopping <- shutdown, Namespace <- NamespaceOf

ImplementsSync == NS!Spec
=============================================================================
