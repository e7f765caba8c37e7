---------------------------- MODULE NamespaceSync ----------------------------
(***************************************************************************)
(* What the queues promise: "each namespace is synced separately and       *)
(* sequentially, and all of the namespaces are synced in parallel".  An    *)
(* item that the informers or a handler have handed over is pending, then  *)
(* it is being synchronised, one item of a namespace at a time, and then   *)
(* it is synced, or pending once more.                                     *)
(***************************************************************************)
CONSTANTS Namespaces, Items, NoItem, Namespace(_)

VARIABLES pending,   \* items to be synchronised
          syncing,   \* syncing[ns]: the item at work for the namespace
          synced,    \* items whose synchronisation succeeded
          stopping   \* the controller is shutting down
absvars == <<pending, syncing, synced, stopping>>

Busy == {syncing[ns] : ns \in Namespaces} \ {NoItem}

Init ==
    /\ pending = {}
    /\ syncing = [ns \in Namespaces |-> NoItem]
    /\ synced = {}
    /\ stopping = FALSE

\* A new item, from the informers or from a handler that leaves more to do.
Submit(i) ==
    /\ i \notin pending \cup Busy \cup synced
    /\ pending' = pending \cup {i}
    /\ UNCHANGED <<syncing, synced, stopping>>

Begin(i) ==
    /\ i \in pending
    /\ syncing[Namespace(i)] = NoItem
    /\ pending' = pending \ {i}
    /\ syncing' = [syncing EXCEPT ![Namespace(i)] = i]
    /\ UNCHANGED <<synced, stopping>>

Succeed(ns) ==
    /\ syncing[ns] # NoItem
    /\ syncing' = [syncing EXCEPT ![ns] = NoItem]
    /\ synced' = synced \cup {syncing[ns]}
    /\ UNCHANGED <<pending, stopping>>

\* A failed item is pending again.
Fail(ns) ==
    /\ syncing[ns] # NoItem
    /\ pending' = pending \cup {syncing[ns]}
    /\ syncing' = [syncing EXCEPT ![ns] = NoItem]
    /\ UNCHANGED <<synced, stopping>>

Stop ==
    /\ stopping' = TRUE
    /\ UNCHANGED <<pending, syncing, synced>>

\* Only when the controller is stopping is an item forgotten.
Forget(i) ==
    /\ stopping
    /\ \/ /\ i \in pending
          /\ pending' = pending \ {i}
          /\ UNCHANGED syncing
       \/ /\ i \in Busy
          /\ syncing' = [syncing EXCEPT ![Namespace(i)] = NoItem]
          /\ UNCHANGED pending
    /\ UNCHANGED <<synced, stopping>>

Next ==
    \/ \E i \in Items : Submit(i) \/ Begin(i) \/ Forget(i)
    \/ \E ns \in Namespaces : Succeed(ns) \/ Fail(ns)
    \/ Stop

Spec == Init /\ [][Next]_absvars
=============================================================================
