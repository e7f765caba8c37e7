---------------------------- MODULE WorkerQueue ----------------------------
(***************************************************************************)
(* The queue of one namespace as its only worker uses it                   *)
(* (pkg/controller/worker.go): a handler takes the first item, may add     *)
(* others, and succeeds or fails; an item that failed is added again after *)
(* a delay.  For the modules that model a worker's handlers, each of which *)
(* they take for one step; NamespaceQueues has the queues in detail.       *)
(***************************************************************************)
EXTENDS Integers, SequencesExt

VARIABLES
    queue,      \* items of the queue
    retries     \* items that failed and are to be added again

work == <<queue, retries>>

Waiting == ToSet(queue) \cup ToSet(retries)

\* An event of an informer: its item goes to the end of the queue.
Enqueue(items) == queue' = queue \o items /\ UNCHANGED retries

\* The worker takes an item of kind off the queue ...
Takes(kind) == queue # <<>> /\ Head(queue).kind = kind

\* ... and is done with it, after it has added items, ...
Synced(items) == queue' = Tail(queue) \o items /\ UNCHANGED retries

\* ... or has failed (AddRateLimited).
Failed(items) ==
    /\ queue' = Tail(queue) \o items
    /\ retries' = Append(retries, Head(queue))

\* The delay of the n-th item that failed is over.
Retry(n) ==
    /\ n \in DOMAIN retries
    /\ queue' = Append(queue, retries[n])
    /\ retries' = RemoveAt(retries, n)
=============================================================================
