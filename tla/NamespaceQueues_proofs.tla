----------------------- MODULE NamespaceQueues_proofs -----------------------
(***************************************************************************)
(* Theorems about NamespaceQueues, for any namespaces and any number of    *)
(* items and failures: types, the counting of the WaitGroup, that no item  *)
(* is lost or doubled, that the queues implement NamespaceSync, and the    *)
(* order in which items are begun.                                         *)
(***************************************************************************)
EXTENDS NamespaceQueues, SequenceTheorems, FiniteSetTheorems, TLAPS

-----------------------------------------------------------------------------
(* Sequences without repetition, as queues.                                *)

LEMMA AppendItem ==
    ASSUME NEW S, NEW s \in Seq(S), NEW e \in S
    PROVE  /\ Append(s, e) \in Seq(S)
           /\ Range(Append(s, e)) = Range(s) \cup {e}
           /\ IsInjective(s) /\ e \notin Range(s) => IsInjective(Append(s, e))
<1>1. /\ DOMAIN Append(s, e) = 1 .. (Len(s) + 1)
      /\ DOMAIN s = 1 .. Len(s)
      /\ Len(s) \in Nat
      /\ \A k \in 1 .. Len(s) : Append(s, e)[k] = s[k]
      /\ Append(s, e)[Len(s) + 1] = e
  OBVIOUS
<1>2. Range(Append(s, e)) = Range(s) \cup {e}
  BY <1>1 DEF Range
<1>3. IsInjective(s) /\ e \notin Range(s) => IsInjective(Append(s, e))
  BY <1>1 DEF Range, IsInjective
<1> QED BY <1>2, <1>3

LEMMA TakeHead ==
    ASSUME NEW S, NEW s \in Seq(S), s # <<>>
    PROVE  /\ Tail(s) \in Seq(S)
           /\ Head(s) \in S
           /\ Head(s) \in Range(s)
           /\ IsInjective(s) => /\ Range(Tail(s)) = Range(s) \ {Head(s)}
                                /\ IsInjective(Tail(s))
<1>1. /\ DOMAIN s = 1 .. Len(s)
      /\ Len(s) \in Nat \ {0}
      /\ DOMAIN Tail(s) = 1 .. (Len(s) - 1)
      /\ \A k \in 1 .. (Len(s) - 1) : Tail(s)[k] = s[k + 1]
      /\ Head(s) = s[1]
      /\ Tail(s) \in Seq(S)
  OBVIOUS
<1>2. Head(s) \in Range(s) /\ Head(s) \in S
  BY <1>1 DEF Range
<1>3. ASSUME IsInjective(s) PROVE IsInjective(Tail(s))
  BY <1>1, <1>3 DEF IsInjective
<1>4. ASSUME IsInjective(s) PROVE Range(Tail(s)) = Range(s) \ {Head(s)}
  <2>1. ASSUME NEW x \in Range(Tail(s)) PROVE x \in Range(s) \ {Head(s)}
    BY <1>1, <1>4 DEF Range, IsInjective
  <2>2. ASSUME NEW x \in Range(s) \ {Head(s)} PROVE x \in Range(Tail(s))
    <3>1. PICK k \in 1 .. Len(s) : x = s[k]
      BY <1>1 DEF Range
    <3>2. k # 1 /\ k - 1 \in 1 .. (Len(s) - 1) /\ Tail(s)[k - 1] = s[k]
      BY <1>1, <3>1
    <3> QED BY <1>1, <3>1, <3>2 DEF Range
  <2> QED BY <2>1, <2>2
<1> QED BY <1>1, <1>2, <1>3, <1>4

-----------------------------------------------------------------------------
(* Types.  The dispatcher and a worker have an item in hand exactly where  *)
(* the code does, a worker goroutine is started once, and the dispatcher   *)
(* too.                                                                    *)

Holding ==
    /\ taken # NoItem <=> dispatcher \in {"find", "go", "count", "add"}
    /\ \A ns \in Namespaces : hand[ns] # NoItem <=> worker[ns] = "sync"
    /\ \A ns \in Namespaces : worker[ns] # "none" => ns \in workers
    /\ dispatcher = "go" => taken.ns \in workers /\ worker[taken.ns] = "none"
    /\ main = "start" => dispatcher = "none"

TypeInv == TypeOK /\ Holding

LEMMA NewItemType ==
    ASSUME TypeOK, handedOver < MaxItems, NEW ns \in Namespaces
    PROVE  /\ NewItem(ns) \in Items
           /\ NewItem(ns).ns = ns
           /\ NewItem(ns).id = handedOver + 1
           /\ handedOver + 1 \in 0 .. MaxItems
BY BoundsAssumption DEF TypeOK, NewItem, Items

\* An item is added to its namespace's queue.
LEMMA PutItem ==
    ASSUME TypeOK, NEW i \in Items,
           nsQueue' = [nsQueue EXCEPT ![i.ns] = Append(@, i)]
    PROVE  /\ i.ns \in Namespaces
           /\ DOMAIN nsQueue' = Namespaces
           /\ \A ns \in Namespaces : nsQueue'[ns] \in Seq(ItemsOf(ns))
           /\ Range(nsQueue'[i.ns]) = Range(nsQueue[i.ns]) \cup {i}
           /\ \A ns \in Namespaces \ {i.ns} : nsQueue'[ns] = nsQueue[ns]
           /\ IsInjective(nsQueue[i.ns]) /\ i \notin Range(nsQueue[i.ns])
                => IsInjective(nsQueue'[i.ns])
<1>1. i.ns \in Namespaces /\ i \in ItemsOf(i.ns)
  BY DEF Items, ItemsOf
<1>2. nsQueue[i.ns] \in Seq(ItemsOf(i.ns)) /\ DOMAIN nsQueue = Namespaces
  BY <1>1 DEF TypeOK
<1>3. nsQueue'[i.ns] = Append(nsQueue[i.ns], i)
  BY <1>1, <1>2
<1>4. \A ns \in Namespaces \ {i.ns} : nsQueue'[ns] = nsQueue[ns]
  BY <1>2
<1>5. \A ns \in Namespaces : nsQueue[ns] \in Seq(ItemsOf(ns))
  BY DEF TypeOK
<1> HIDE DEF ItemsOf
<1>6. /\ Append(nsQueue[i.ns], i) \in Seq(ItemsOf(i.ns))
      /\ Range(Append(nsQueue[i.ns], i)) = Range(nsQueue[i.ns]) \cup {i}
      /\ IsInjective(nsQueue[i.ns]) /\ i \notin Range(nsQueue[i.ns])
            => IsInjective(Append(nsQueue[i.ns], i))
  BY <1>1, <1>2, AppendItem
<1> QED BY <1>1, <1>2, <1>3, <1>4, <1>5, <1>6

LEMMA TypeInit == Init => TypeInv
<1> SUFFICES ASSUME Init PROVE TypeInv
  OBVIOUS
<1>1. 0 \in 0 .. MaxItems /\ 0 \in 0 .. MaxFailures /\ 0 \in Int
  BY BoundsAssumption
<1>2. <<>> \in Seq(Items) /\ \A ns \in Namespaces : <<>> \in Seq(ItemsOf(ns))
  OBVIOUS
<1>3. TypeOK
  BY <1>1, <1>2 DEF Init, TypeOK
<1>4. Holding
  BY NoItemAssumption DEF Init, Holding
<1> QED BY <1>3, <1>4 DEF TypeInv

LEMMA TypeStep == TypeInv /\ [Next]_vars => TypeInv'
<1> SUFFICES ASSUME TypeInv, [Next]_vars PROVE TypeInv'
  OBVIOUS
<1> USE NoItemAssumption
<1> USE DEF TypeInv
<1>1. CASE UNCHANGED vars
  BY <1>1 DEF vars, TypeOK, Holding
<1>2. ASSUME NEW ns \in Namespaces, Notify(ns) PROVE TypeInv'
  <2> USE <1>2 DEF Notify, workVars, shutVars, mainVars
  <2>1. handedOver' \in 0 .. MaxItems /\ NewItem(ns) \in Items
    BY NewItemType
  <2>2. queue' \in Seq(Items)
    <3>1. queue \in Seq(Items)
      BY DEF TypeOK
    <3>2. Append(queue, NewItem(ns)) \in Seq(Items)
      BY <2>1, <3>1, AppendItem
    <3> QED BY <3>1, <3>2
  <2>3. TypeOK'
    BY <2>1, <2>2 DEF TypeOK
  <2> QED BY <2>3 DEF Holding
<1>3. ASSUME NEW ns \in Namespaces, Worker(ns) PROVE TypeInv'
  <2> USE DEF Work, dispVars, shutVars, mainVars, workVars, history
  <2>1. CASE WorkLoop(ns)
    BY <2>1 DEF WorkLoop, TypeOK, Holding
  <2>2. CASE WorkExit(ns)
    BY <2>2 DEF WorkExit, TypeOK, Holding
  <2>3. CASE BeginSync(ns)
    <3>1. nsQueue[ns] \in Seq(ItemsOf(ns)) /\ nsQueue[ns] # <<>>
      BY <2>3 DEF BeginSync, TypeOK
    <3>2. Tail(nsQueue[ns]) \in Seq(ItemsOf(ns)) /\ Head(nsQueue[ns]) \in ItemsOf(ns)
      BY <3>1, TakeHead
    <3>3. Head(nsQueue[ns]) \in Items /\ Head(nsQueue[ns]) # NoItem
      BY <3>2 DEF ItemsOf
    <3>4. TypeOK'
      BY <2>3, <3>2, <3>3 DEF BeginSync, TypeOK
    <3> QED BY <2>3, <3>3, <3>4 DEF BeginSync, TypeOK, Holding
  <2>4. CASE QuitNsGet(ns)
    BY <2>4 DEF QuitNsGet, TypeOK, Holding
  <2>5. CASE Requeue(ns)
    <3>1. handedOver' \in 0 .. MaxItems /\ NewItem(ns) \in ItemsOf(ns) /\ NewItem(ns) \in Items
      BY <2>5, NewItemType DEF Requeue, ItemsOf
    <3>2. DOMAIN nsQueue' = Namespaces /\ \A m \in Namespaces : nsQueue'[m] \in Seq(ItemsOf(m))
      <4>1. CASE nsQueue' = nsQueue
        BY <4>1 DEF TypeOK
      <4>2. CASE nsQueue' = [nsQueue EXCEPT ![ns] = Append(@, NewItem(ns))]
        <5> DEFINE i == NewItem(ns)
        <5>1. i \in Items /\ i.ns = ns
          BY <3>1 DEF ItemsOf
        <5> HIDE DEF i
        <5> QED BY <4>2, <5>1, PutItem DEF i
      <4> QED BY <2>5, <4>1, <4>2 DEF Requeue
    <3>3. TypeOK'
      BY <2>5, <3>1, <3>2 DEF Requeue, TypeOK
    <3> QED BY <2>5, <3>3 DEF Requeue, Holding
  <2>6. CASE SyncSuccess(ns)
    <3>1. hand[ns] \in Items
      BY <2>6 DEF SyncSuccess, TypeOK, Holding, ItemsOf
    <3> QED BY <2>6, <3>1 DEF SyncSuccess, TypeOK, Holding
  <2>7. CASE SyncFailure(ns)
    <3>1. hand[ns] \in Items
      BY <2>7 DEF SyncFailure, TypeOK, Holding, ItemsOf
    <3>2. failures' \in 0 .. MaxFailures
      BY <2>7, BoundsAssumption DEF SyncFailure, TypeOK
    <3>3. TypeOK'
      BY <2>7, <3>1, <3>2 DEF SyncFailure, TypeOK
    <3> QED BY <2>7, <3>3 DEF SyncFailure, TypeOK, Holding
  <2> QED BY <1>3, <2>1, <2>2, <2>3, <2>4, <2>5, <2>6, <2>7 DEF Worker
<1>4. ASSUME NEW i \in Items, Retry(i) PROVE TypeInv'
  <2> USE DEF Retry, dispVars, shutVars, mainVars
  <2>1. i \in ItemsOf(i.ns) /\ i.ns \in Namespaces
    BY DEF Items, ItemsOf
  <2>2. DOMAIN nsQueue' = Namespaces /\ \A m \in Namespaces : nsQueue'[m] \in Seq(ItemsOf(m))
    BY <1>4, PutItem DEF TypeOK
  <2>3. TypeOK'
    BY <1>4, <2>1, <2>2 DEF TypeOK
  <2> QED BY <1>4, <2>3 DEF Holding
<1>5. CASE Dispatcher
  <2> USE DEF Dispatch, shutVars, mainVars, workVars, history
  <2>1. CASE RunLoop
    BY <2>1 DEF RunLoop, TypeOK, Holding
  <2>2. CASE TakeItem
    <3>1. Tail(queue) \in Seq(Items) /\ Head(queue) \in Items
      BY <2>2, TakeHead DEF TakeItem, TypeOK
    <3> QED BY <2>2, <3>1 DEF TakeItem, TypeOK, Holding
  <2>3. CASE QuitGet
    BY <2>3 DEF QuitGet, TypeOK, Holding
  <2>4. CASE FindWorker
    BY <2>4 DEF FindWorker, TypeOK, Holding
  <2>5. CASE CreateWorker
    <3>1. taken.ns \in Namespaces
      BY <2>5 DEF CreateWorker, TypeOK, Holding, Items
    <3> QED BY <2>5, <3>1 DEF CreateWorker, Target, TypeOK, Holding
  <2>6. CASE StartWorker
    <3>1. TypeOK'
      BY <2>6 DEF StartWorker, TypeOK
    <3>2. taken \in Items /\ taken.ns \in Namespaces /\ worker \in [Namespaces -> {"none", "loop", "get", "sync", "exited"}]
      BY <2>6 DEF StartWorker, TypeOK, Holding, Items
    <3>3. /\ dispatcher = "go" /\ dispatcher' = "count" /\ taken' = taken /\ hand' = hand
          /\ workers' = workers /\ main' = main
          /\ worker' = [worker EXCEPT ![taken.ns] = "loop"]
      BY <2>6 DEF StartWorker, Target
    <3>4. worker[taken.ns] = "none" /\ taken.ns \in workers
      BY <2>6, <3>2, <3>3 DEF Holding
    <3>5. Holding'
      BY <3>2, <3>3, <3>4 DEF Holding
    <3> QED BY <3>1, <3>5
  <2>7. CASE CountWorker
    BY <2>7 DEF CountWorker, TypeOK, Holding
  <2>8. CASE HandOver
    <3>1. taken \in ItemsOf(taken.ns) /\ taken.ns \in Namespaces /\ taken \in Items
      BY <2>8 DEF HandOver, TypeOK, Holding, Items, ItemsOf
    <3>2. DOMAIN nsQueue' = Namespaces /\ \A m \in Namespaces : nsQueue'[m] \in Seq(ItemsOf(m))
      BY <2>8, <3>1, PutItem DEF HandOver, Target, TypeOK
    <3>3. TypeOK'
      BY <2>8, <3>1, <3>2 DEF HandOver, Target, TypeOK
    <3> QED BY <2>8, <3>3 DEF HandOver, Holding
  <2> QED BY <1>5, <2>1, <2>2, <2>3, <2>4, <2>5, <2>6, <2>7, <2>8 DEF Dispatcher
<1>6. CASE Main \/ Termination \/ ReceiveSignal \/ NoReadyFile \/ MapFatal
  <2> USE DEF Ends, shutVars, workVars, history
  <2>1. CASE \E ns \in Namespaces : ShutDownWorker(ns)
    BY <2>1 DEF ShutDownWorker, TypeOK, Holding
  <2>2. CASE StartDispatcher
    BY <2>2 DEF StartDispatcher, TypeOK, Holding
  <2>6. CASE ShutDownMain
    <3>1. TypeOK'
      BY <2>6 DEF ShutDownMain, TypeOK
    <3> QED BY <2>6, <3>1 DEF ShutDownMain, Holding
  <2>5. CASE EndOfLoop \/ Done \/ MainReturns
    BY <2>5 DEF EndOfLoop, Done, MainReturns, TypeOK, Holding
  <2>3. CASE Termination
    BY <2>3 DEF Termination, SendStop, CloseStop, Quit, OsExit, TypeOK, Holding
  <2>4. CASE ReceiveSignal \/ NoReadyFile \/ MapFatal
    BY <2>4 DEF ReceiveSignal, NoReadyFile, MapFatal, TypeOK, Holding
  <2> QED BY <1>6, <2>1, <2>2, <2>3, <2>4, <2>5, <2>6 DEF Main
<1> QED BY <1>1, <1>2, <1>3, <1>4, <1>5, <1>6 DEF Next

\* Every variable keeps its type; a worker's queue and hand hold only items of
\* its own namespace (next routes an item by getNameSpace).
THEOREM QueuesTypeCorrect == Spec => []TypeOK
<1>1. Spec => []TypeInv
  BY TypeInit, TypeStep, PTL DEF Spec
<1> QED BY <1>1, PTL DEF TypeInv

-----------------------------------------------------------------------------
(* The WaitGroup.                                                          *)

LEMMA RunningFinite == IsFiniteSet(Running) /\ Cardinality(Running) \in Nat
BY FiniteAssumption, FS_Subset, FS_CardinalityType DEF Running

LEMMA WaitGroupInit == Init => WaitGroupCounts
<1> SUFFICES ASSUME Init PROVE WaitGroupCounts
  OBVIOUS
<1>1. Running = {} /\ wg = 0 /\ Uncounted = 0
  BY DEF Init, Running, Uncounted
<1> QED BY <1>1, FS_EmptySet DEF WaitGroupCounts

\* The steps that neither start, count nor end a worker.
LEMMA WaitGroupSame ==
    ASSUME WaitGroupCounts, Up' => Up, wg' = wg, Running' = Running,
           dispatcher' = "count" <=> dispatcher = "count"
    PROVE  WaitGroupCounts'
BY DEF WaitGroupCounts, Uncounted

LEMMA WaitGroupStep == TypeInv /\ WaitGroupCounts /\ [Next]_vars => WaitGroupCounts'
<1> SUFFICES ASSUME TypeInv, WaitGroupCounts, [Next]_vars PROVE WaitGroupCounts'
  OBVIOUS
<1> USE DEF TypeInv
<1>1. CASE UNCHANGED vars
  BY <1>1, WaitGroupSame DEF vars, Running, Up
<1>2. ASSUME NEW ns \in Namespaces, Notify(ns) PROVE WaitGroupCounts'
  BY <1>2, WaitGroupSame DEF Notify, workVars, mainVars, Running, Up
<1>3. ASSUME NEW ns \in Namespaces, Worker(ns) PROVE WaitGroupCounts'
  <2> USE DEF dispVars, mainVars
  <2>1. CASE WorkExit(ns)
    <3>1. Running' = Running \ {ns} /\ ns \in Running
      BY <2>1 DEF WorkExit, Running, TypeOK
    <3>2. Cardinality(Running') = Cardinality(Running) - 1
      BY <3>1, RunningFinite, FS_RemoveElement
    <3>3. Uncounted' = Uncounted /\ wg' = wg - 1 /\ wg \in Int /\ Uncounted \in {0, 1} /\ Up
      BY <2>1 DEF WorkExit, TypeOK, Uncounted
    <3> QED BY <3>2, <3>3, RunningFinite DEF WaitGroupCounts
  <2>2. ASSUME NEW from \in {"loop", "get", "sync"}, NEW to \in {"loop", "get", "sync"},
               Work(ns, from, to), wg' = wg
        PROVE  WaitGroupCounts'
    <3>1. Running' = Running
      BY <2>2 DEF Work, Running, TypeOK
    <3> QED BY <2>2, <3>1, WaitGroupSame DEF Work, Up
  <2>3. CASE Requeue(ns)
    BY <2>3, WaitGroupSame DEF Requeue, Running, Up
  <2>4. CASE WorkLoop(ns) \/ BeginSync(ns) \/ QuitNsGet(ns) \/ SyncSuccess(ns) \/ SyncFailure(ns)
    BY <2>2, <2>4 DEF WorkLoop, BeginSync, QuitNsGet, SyncSuccess, SyncFailure
  <2> QED BY <1>3, <2>1, <2>3, <2>4 DEF Worker
<1>4. ASSUME NEW i \in Items, Retry(i) PROVE WaitGroupCounts'
  BY <1>4, WaitGroupSame DEF Retry, dispVars, mainVars, Running, Up
<1>5. CASE Dispatcher
  <2> USE DEF Dispatch, mainVars, workVars
  <2>1. CASE StartWorker
    <3>1. taken.ns \in Namespaces /\ worker[taken.ns] = "none"
      BY <2>1 DEF StartWorker, TypeOK, Holding, Items
    <3>2. Running' = Running \cup {taken.ns} /\ taken.ns \notin Running
      BY <2>1, <3>1 DEF StartWorker, Target, Running, TypeOK
    <3>3. Cardinality(Running') = Cardinality(Running) + 1
      BY <3>2, RunningFinite, FS_AddElement
    <3>4. Uncounted' = 1 /\ Uncounted = 0 /\ wg' = wg /\ wg \in Int /\ Up
      BY <2>1 DEF StartWorker, TypeOK, Uncounted
    <3> QED BY <3>3, <3>4, RunningFinite DEF WaitGroupCounts
  <2>2. CASE CountWorker
    <3>1. Running' = Running
      BY <2>2 DEF CountWorker, Running
    <3>2. Uncounted' = 0 /\ Uncounted = 1 /\ wg' = wg + 1 /\ wg \in Int /\ Up
      BY <2>2 DEF CountWorker, TypeOK, Uncounted
    <3> QED BY <3>1, <3>2, RunningFinite DEF WaitGroupCounts
  <2>3. CASE RunLoop \/ TakeItem \/ QuitGet \/ FindWorker \/ CreateWorker \/ HandOver
    BY <2>3, WaitGroupSame DEF RunLoop, TakeItem, QuitGet, FindWorker, CreateWorker,
       HandOver, Running, Up
  <2> QED BY <1>5, <2>1, <2>2, <2>3 DEF Dispatcher
<1>6. CASE Main \/ Termination \/ ReceiveSignal \/ NoReadyFile \/ MapFatal
  <2>1. Ends
    BY <1>6 DEF Main, StartDispatcher, ShutDownMain, ShutDownWorker, EndOfLoop, Done,
       MainReturns, Termination, SendStop, CloseStop, Quit, OsExit, ReceiveSignal,
       NoReadyFile, MapFatal
  <2>2. dispatcher' = "count" <=> dispatcher = "count"
    BY <1>6 DEF Main, StartDispatcher, ShutDownMain, ShutDownWorker, EndOfLoop, Done,
       MainReturns, Termination, SendStop, CloseStop, Quit, OsExit, ReceiveSignal,
       NoReadyFile, MapFatal, Holding
  <2> QED BY <2>1, <2>2, WaitGroupSame DEF Ends, workVars, Running, Up
<1> QED BY <1>1, <1>2, <1>3, <1>4, <1>5, <1>6 DEF Next

\* While the process is up, the WaitGroup counts the worker goroutines, one
\* that has been started and not yet counted apart: next and work keep the
\* count with wg.Add(1) and wg.Done().
THEOREM WaitGroupCorrect == Spec => []WaitGroupCounts
<1>1. TypeInv /\ WaitGroupCounts /\ [Next]_vars => (TypeInv /\ WaitGroupCounts)'
  BY TypeStep, WaitGroupStep
<1> QED BY <1>1, TypeInit, WaitGroupInit, PTL DEF Spec

-----------------------------------------------------------------------------
(* Where the items are.  A step moves one item from a place to another one *)
(* or brings a new item; numbers tell a new one from all of the others.    *)

Numbered == \A i \in Items : Places(i) # {} => i.id <= handedOver

Unique == \A i \in Items : \A p, q \in Places(i) : p = q

ItemsInv == ItemsAccounted /\ Numbered

LEMMA Moved ==
    ASSUME ItemsInv, NEW x \in Items, NEW p, Places(x) # {}, Places(x)' = {p},
           \A i \in Items \ {x} : Places(i)' = Places(i),
           handedOver' = handedOver
    PROVE  Unique' /\ NoneLost' /\ Numbered'
<1>1. Unique'
  BY DEF ItemsInv, ItemsAccounted, AtOnePlace, Unique
<1>2. NoneLost'
  BY DEF ItemsInv, ItemsAccounted, NoneLost
<1>3. Numbered'
  BY DEF ItemsInv, Numbered
<1> QED BY <1>1, <1>2, <1>3

LEMMA Arrived ==
    ASSUME TypeOK, ItemsInv, NEW x \in Items, NEW p, Places(x)' = {p},
           \A i \in Items \ {x} : Places(i)' = Places(i),
           handedOver' = handedOver + 1, x.id = handedOver + 1
    PROVE  Unique' /\ NoneLost' /\ Numbered'
<1>0. handedOver \in Nat /\ \A i \in Items : i.id \in Nat
  BY BoundsAssumption DEF TypeOK, Items
<1>1. Unique'
  BY DEF ItemsInv, ItemsAccounted, AtOnePlace, Unique
<1>2. NoneLost'
  <2> SUFFICES ASSUME NEW n \in 1 .. handedOver'
               PROVE  \E i \in Items : i.id = n /\ Places(i)' # {}
    BY DEF NoneLost
  <2>1. CASE n = handedOver + 1
    BY <2>1
  <2>2. CASE n # handedOver + 1
    <3>1. n \in 1 .. handedOver
      BY <1>0, <2>2
    <3>2. PICK i \in Items : i.id = n /\ Places(i) # {}
      BY <3>1 DEF ItemsInv, ItemsAccounted, NoneLost
    <3> QED BY <2>2, <3>2
  <2> QED BY <2>1, <2>2
<1>3. Numbered'
  BY <1>0 DEF ItemsInv, Numbered
<1> QED BY <1>1, <1>2, <1>3

LEMMA Stayed ==
    ASSUME ItemsInv, \A i \in Items : Places(i)' = Places(i), handedOver' = handedOver,
           queue' = queue, nsQueue' = nsQueue, dropped' = dropped,
           shutdown => shutdown'
    PROVE  ItemsInv'
<1>1. Unique' /\ NoneLost' /\ Numbered'
  BY DEF ItemsInv, ItemsAccounted, AtOnePlace, NoneLost, Numbered, Unique
<1> QED BY <1>1 DEF ItemsInv, ItemsAccounted, AtOnePlace, DroppedAtShutdown, Unique

LEMMA ItemsInit == Init => ItemsInv
<1> SUFFICES ASSUME Init PROVE ItemsInv
  OBVIOUS
<1>1. Range(queue) = {} /\ \A ns \in Namespaces : Range(nsQueue[ns]) = {}
  BY DEF Init, Range
<1>2. \A i \in Items : i.ns \in Namespaces
  BY DEF Items
<1>3. \A i \in Items : Places(i) = {}
  BY <1>1, <1>2, NoItemAssumption DEF Init, Places, InMain, Taken, InQueue, InHand
<1>4. IsInjective(queue) /\ \A ns \in Namespaces : IsInjective(nsQueue[ns])
  BY DEF Init, IsInjective
<1>5. 1 .. handedOver = {} /\ dropped = {}
  BY DEF Init
<1> QED BY <1>3, <1>4, <1>5 DEF ItemsInv, ItemsAccounted, AtOnePlace, NoneLost,
       DroppedAtShutdown, Numbered

\* The steps that move no item.
LEMMA SamePlaces ==
    ASSUME queue' = queue, taken' = taken, nsQueue' = nsQueue, hand' = hand,
           retries' = retries, synced' = synced, dropped' = dropped
    PROVE  \A i \in Items : Places(i)' = Places(i)
BY DEF Places, InMain, Taken, InQueue, InHand

LEMMA NewIsNowhere ==
    ASSUME TypeOK, ItemsInv, NEW x \in Items, x.id = handedOver + 1
    PROVE  Places(x) = {}
<1>1. handedOver \in Nat
  BY BoundsAssumption DEF TypeOK
<1>2. ~(x.id <= handedOver)
  BY <1>1
<1> QED BY <1>2 DEF ItemsInv, Numbered

LEMMA NotifyStep ==
    ASSUME TypeInv, ItemsInv, NEW ns \in Namespaces, Notify(ns) PROVE ItemsInv'
<1>1. PICK x \in Items : x = NewItem(ns) /\ x.id = handedOver + 1 /\ x # NoItem
  BY NewItemType, NoItemAssumption DEF TypeInv, Notify
<1>2. Places(x) = {}
  BY <1>1, NewIsNowhere DEF TypeInv
<1>3. handedOver' = handedOver + 1
  BY DEF Notify
<1>4. /\ taken' = taken /\ nsQueue' = nsQueue /\ hand' = hand
      /\ retries' = retries /\ synced' = synced /\ shutdown' = shutdown
  BY DEF Notify, workVars, shutVars
<1>5. \/ ~shutdown /\ queue' = Append(queue, x) /\ dropped' = dropped
      \/ shutdown /\ queue' = queue /\ dropped' = dropped \cup {x}
  BY <1>1 DEF Notify
<1>6. /\ x \notin Range(queue) /\ x # taken /\ x \notin Range(nsQueue[x.ns])
      /\ x # hand[x.ns] /\ x \notin retries \cup synced \cup dropped
  BY <1>2 DEF Places, InMain, Taken, InQueue, InHand
<1>7. CASE ~shutdown /\ queue' = Append(queue, x) /\ dropped' = dropped
  <2>1. Range(queue') = Range(queue) \cup {x} /\ IsInjective(queue')
    BY <1>1, <1>6, <1>7, AppendItem DEF TypeInv, TypeOK, ItemsInv, ItemsAccounted, AtOnePlace
  <2>2. Places(x)' = {"main"}
    BY <1>4, <1>6, <1>7, <2>1 DEF Places, InMain, Taken, InQueue, InHand
  <2>3. \A i \in Items \ {x} : Places(i)' = Places(i)
    BY <1>4, <1>7, <2>1 DEF Places, InMain, Taken, InQueue, InHand
  <2>4. Unique' /\ NoneLost' /\ Numbered'
    BY <1>1, <1>3, <2>2, <2>3, Arrived DEF TypeInv
  <2> QED BY <1>4, <1>7, <2>1, <2>4 DEF ItemsInv, ItemsAccounted, AtOnePlace, Unique, DroppedAtShutdown
<1>8. CASE shutdown /\ queue' = queue /\ dropped' = dropped \cup {x}
  <2>2. Places(x)' = {"dropped"}
    BY <1>4, <1>6, <1>8 DEF Places, InMain, Taken, InQueue, InHand
  <2>3. \A i \in Items \ {x} : Places(i)' = Places(i)
    BY <1>4, <1>8 DEF Places, InMain, Taken, InQueue, InHand
  <2>4. Unique' /\ NoneLost' /\ Numbered'
    BY <1>1, <1>3, <2>2, <2>3, Arrived DEF TypeInv
  <2> QED BY <1>4, <1>8, <2>4 DEF ItemsInv, ItemsAccounted, AtOnePlace, Unique, DroppedAtShutdown
<1> QED BY <1>5, <1>7, <1>8

\* An item comes to its namespace's queue, or is dropped when that queue is
\* shutting down: HandOver, Requeue and Retry.
Put(x) ==
    /\ queue' = queue /\ synced' = synced
    /\ \/ /\ ~nsShutdown[x.ns]
          /\ nsQueue' = [nsQueue EXCEPT ![x.ns] = Append(@, x)]
          /\ dropped' = dropped
       \/ /\ nsShutdown[x.ns]
          /\ nsQueue' = nsQueue
          /\ dropped' = dropped \cup {x}

\* A worker's queue is shut down after the main one.
ShutdownOrder == \A ns \in Namespaces : nsShutdown[ns] => shutdown

LEMMA PutPlaces ==
    ASSUME TypeOK, ItemsInv, ShutdownOrder, shutdown' = shutdown, NEW x \in Items, Put(x),
           Places(x) \subseteq {"taken", "retries"},
           taken' # x, hand' = hand, x \notin retries',
           \A i \in Items \ {x} : (i = taken' <=> i = taken) /\ (i \in retries' <=> i \in retries)
    PROVE  /\ \E p : Places(x)' = {p}
           /\ \A i \in Items \ {x} : Places(i)' = Places(i)
           /\ IsInjective(queue') /\ \A ns \in Namespaces : IsInjective(nsQueue'[ns])
           /\ DroppedAtShutdown'
<1>1. /\ x.ns \in Namespaces /\ \A i \in Items : i.ns \in Namespaces
      /\ x \notin Range(queue) /\ x \notin Range(nsQueue[x.ns]) /\ x # hand[x.ns]
      /\ x \notin synced /\ x \notin dropped
  BY DEF Places, InMain, InQueue, InHand, Items
<1>2. CASE /\ nsQueue' = [nsQueue EXCEPT ![x.ns] = Append(@, x)]
           /\ queue' = queue /\ synced' = synced /\ dropped' = dropped
  <2>1. /\ Range(nsQueue'[x.ns]) = Range(nsQueue[x.ns]) \cup {x}
        /\ \A ns \in Namespaces \ {x.ns} : nsQueue'[ns] = nsQueue[ns]
        /\ IsInjective(nsQueue'[x.ns])
    BY <1>1, <1>2, PutItem DEF ItemsInv, ItemsAccounted, AtOnePlace
  <2>2. Places(x)' = {"queue"}
    BY <1>1, <1>2, <2>1 DEF Places, InMain, Taken, InQueue, InHand
  <2>3. \A i \in Items \ {x} : i \in Range(nsQueue'[i.ns]) <=> i \in Range(nsQueue[i.ns])
    BY <1>1, <2>1
  <2>4. \A i \in Items \ {x} : Places(i)' = Places(i)
    BY <1>2, <2>3 DEF Places, InMain, Taken, InQueue, InHand
  <2> QED BY <1>2, <2>1, <2>2, <2>4 DEF ItemsInv, ItemsAccounted, AtOnePlace, DroppedAtShutdown
<1>3. CASE /\ nsShutdown[x.ns] /\ nsQueue' = nsQueue
           /\ queue' = queue /\ synced' = synced /\ dropped' = dropped \cup {x}
  <2>1. Places(x)' = {"dropped"}
    BY <1>1, <1>3 DEF Places, InMain, Taken, InQueue, InHand
  <2>2. \A i \in Items \ {x} : Places(i)' = Places(i)
    BY <1>3 DEF Places, InMain, Taken, InQueue, InHand
  <2> QED BY <1>1, <1>3, <2>1, <2>2 DEF ItemsInv, ItemsAccounted, AtOnePlace, DroppedAtShutdown, ShutdownOrder
<1> QED BY <1>2, <1>3 DEF Put

LEMMA HandOverStep ==
    ASSUME TypeInv, ItemsInv, ShutdownOrder, HandOver PROVE ItemsInv'
<1> USE DEF TypeInv
<1>1. PICK x \in Items : x = taken /\ x # NoItem
  BY DEF HandOver, Dispatch, TypeOK, Holding
<1>2. Places(x) = {"taken"}
  BY <1>1 DEF Places, Taken, ItemsInv, ItemsAccounted, AtOnePlace
<1>3. /\ Put(x) /\ shutdown' = shutdown /\ hand' = hand /\ taken' = NoItem
      /\ retries' = retries /\ handedOver' = handedOver
  BY <1>1 DEF HandOver, Dispatch, Put, Target, shutVars
<1>4. x \notin retries
  BY <1>2 DEF Places
<1>5. \A i \in Items \ {x} : (i = taken' <=> i = taken) /\ (i \in retries' <=> i \in retries)
  BY <1>1, <1>3, NoItemAssumption
<1>6. /\ \E p : Places(x)' = {p}
      /\ \A i \in Items \ {x} : Places(i)' = Places(i)
      /\ IsInjective(queue') /\ \A ns \in Namespaces : IsInjective(nsQueue'[ns])
      /\ DroppedAtShutdown'
  BY <1>1, <1>2, <1>3, <1>4, <1>5, PutPlaces
<1>7. Unique' /\ NoneLost' /\ Numbered'
  BY <1>2, <1>3, <1>6, Moved
<1> QED BY <1>6, <1>7 DEF ItemsInv, ItemsAccounted, AtOnePlace, Unique

LEMMA RequeueStep ==
    ASSUME TypeInv, ItemsInv, ShutdownOrder, NEW ns \in Namespaces, Requeue(ns)
    PROVE  ItemsInv'
<1> USE DEF TypeInv
<1>1. PICK x \in Items : /\ x = NewItem(ns) /\ x.id = handedOver + 1 /\ x.ns = ns
                         /\ x # NoItem
  BY NewItemType, NoItemAssumption DEF Requeue
<1>2. Places(x) = {}
  BY <1>1, NewIsNowhere
<1>3. /\ Put(x) /\ shutdown' = shutdown /\ hand' = hand /\ taken' = taken
      /\ retries' = retries /\ handedOver' = handedOver + 1
  BY <1>1 DEF Requeue, Put, dispVars, shutVars
<1>4. x # taken /\ x \notin retries
  BY <1>2 DEF Places, Taken
<1>6. /\ \E p : Places(x)' = {p}
      /\ \A i \in Items \ {x} : Places(i)' = Places(i)
      /\ IsInjective(queue') /\ \A m \in Namespaces : IsInjective(nsQueue'[m])
      /\ DroppedAtShutdown'
  BY <1>1, <1>2, <1>3, <1>4, PutPlaces
<1>7. Unique' /\ NoneLost' /\ Numbered'
  BY <1>1, <1>3, <1>6, Arrived
<1> QED BY <1>6, <1>7 DEF ItemsInv, ItemsAccounted, AtOnePlace, Unique

LEMMA RetryStep ==
    ASSUME TypeInv, ItemsInv, ShutdownOrder, NEW x \in Items, Retry(x)
    PROVE  ItemsInv'
<1> USE DEF TypeInv
<1>2. Places(x) = {"retries"} /\ taken # x
  BY DEF Retry, Places, Taken, ItemsInv, ItemsAccounted, AtOnePlace
<1>3. /\ Put(x) /\ shutdown' = shutdown /\ hand' = hand /\ taken' = taken
      /\ retries' = retries \ {x} /\ handedOver' = handedOver
  BY DEF Retry, Put, dispVars, shutVars
<1>6. /\ \E p : Places(x)' = {p}
      /\ \A i \in Items \ {x} : Places(i)' = Places(i)
      /\ IsInjective(queue') /\ \A m \in Namespaces : IsInjective(nsQueue'[m])
      /\ DroppedAtShutdown'
  BY <1>2, <1>3, PutPlaces
<1>7. Unique' /\ NoneLost' /\ Numbered'
  BY <1>2, <1>3, <1>6, Moved
<1> QED BY <1>6, <1>7 DEF ItemsInv, ItemsAccounted, AtOnePlace, Unique

LEMMA TakeItemStep ==
    ASSUME TypeInv, ItemsInv, TakeItem PROVE ItemsInv'
<1> USE DEF TypeInv
<1>1. PICK x \in Items : x = Head(queue) /\ x # NoItem /\ x \in Range(queue)
  BY TakeHead, NoItemAssumption DEF TakeItem, TypeOK
<1>2. /\ Range(queue') = Range(queue) \ {x}
      /\ IsInjective(queue')
  BY <1>1, TakeHead DEF TakeItem, TypeOK, ItemsInv, ItemsAccounted, AtOnePlace
<1>3. /\ taken' = x /\ taken = NoItem /\ nsQueue' = nsQueue /\ hand' = hand
      /\ retries' = retries /\ synced' = synced /\ dropped' = dropped
      /\ handedOver' = handedOver /\ shutdown' = shutdown
  BY <1>1 DEF TakeItem, Dispatch, workVars, history, shutVars, Holding
<1>4. /\ x \notin Range(nsQueue[x.ns]) /\ x # hand[x.ns]
      /\ x \notin retries \cup synced \cup dropped /\ "main" \in Places(x)
  BY <1>1 DEF Places, InMain, InQueue, InHand, ItemsInv, ItemsAccounted, AtOnePlace
<1>5. Places(x)' = {"taken"}
  BY <1>2, <1>3, <1>4 DEF Places, InMain, Taken, InQueue, InHand
<1>6. \A i \in Items \ {x} : Places(i)' = Places(i)
  BY <1>2, <1>3, NoItemAssumption DEF Places, InMain, Taken, InQueue, InHand
<1>7. Unique' /\ NoneLost' /\ Numbered'
  BY <1>3, <1>4, <1>5, <1>6, Moved
<1> QED BY <1>2, <1>3, <1>7 DEF ItemsInv, ItemsAccounted, AtOnePlace, Unique, DroppedAtShutdown

LEMMA BeginSyncStep ==
    ASSUME TypeInv, ItemsInv, NEW ns \in Namespaces, BeginSync(ns) PROVE ItemsInv'
<1> USE DEF TypeInv
<1>0. nsQueue[ns] \in Seq(ItemsOf(ns)) /\ DOMAIN nsQueue = Namespaces
  BY DEF TypeOK
<1>1. PICK x \in ItemsOf(ns) : x = Head(nsQueue[ns]) /\ x \in Range(nsQueue[ns])
  BY <1>0, TakeHead DEF BeginSync
<1>2. x \in Items /\ x.ns = ns /\ x # NoItem
  BY NoItemAssumption DEF ItemsOf
<1>3. /\ Range(nsQueue'[ns]) = Range(nsQueue[ns]) \ {x}
      /\ IsInjective(nsQueue'[ns])
      /\ \A m \in Namespaces \ {ns} : nsQueue'[m] = nsQueue[m]
  <2>1. /\ Range(Tail(nsQueue[ns])) = Range(nsQueue[ns]) \ {x}
        /\ IsInjective(Tail(nsQueue[ns]))
    BY <1>0, <1>1, TakeHead DEF BeginSync, ItemsInv, ItemsAccounted, AtOnePlace
  <2> QED BY <1>0, <2>1 DEF BeginSync
<1>4. /\ hand' = [hand EXCEPT ![ns] = x] /\ hand[ns] = NoItem /\ DOMAIN hand = Namespaces
      /\ taken' = taken /\ queue' = queue /\ retries' = retries /\ synced' = synced
      /\ dropped' = dropped /\ handedOver' = handedOver /\ shutdown' = shutdown
  BY <1>1 DEF BeginSync, Work, dispVars, shutVars, Holding, TypeOK
<1>5. /\ x \notin Range(queue) /\ x # taken
      /\ x \notin retries \cup synced \cup dropped /\ "queue" \in Places(x)
  BY <1>1, <1>2 DEF Places, InMain, Taken, InQueue, ItemsInv, ItemsAccounted, AtOnePlace
<1>6. Places(x)' = {"hand"}
  BY <1>2, <1>3, <1>4, <1>5 DEF Places, InMain, Taken, InQueue, InHand
<1>7. \A i \in Items \ {x} : /\ i.ns \in Namespaces
                             /\ i = hand'[i.ns] <=> i = hand[i.ns]
                             /\ i \in Range(nsQueue'[i.ns]) <=> i \in Range(nsQueue[i.ns])
  BY <1>3, <1>4, NoItemAssumption DEF Items
<1>8. \A i \in Items \ {x} : Places(i)' = Places(i)
  BY <1>4, <1>7 DEF Places, InMain, Taken, InQueue, InHand
<1>9. Unique' /\ NoneLost' /\ Numbered'
  BY <1>2, <1>4, <1>5, <1>6, <1>8, Moved
<1>10. \A m \in Namespaces : IsInjective(nsQueue'[m])
  BY <1>3 DEF ItemsInv, ItemsAccounted, AtOnePlace
<1> QED BY <1>4, <1>9, <1>10 DEF ItemsInv, ItemsAccounted, AtOnePlace, Unique, DroppedAtShutdown

\* The synchronisation of x ends: x is synced, to be retried, or dropped.
LEMMA SyncEndStep ==
    ASSUME TypeInv, ItemsInv, ShutdownOrder, NEW ns \in Namespaces,
           SyncSuccess(ns) \/ SyncFailure(ns)
    PROVE  ItemsInv'
<1> USE DEF TypeInv
<1>1. PICK x \in Items : x = hand[ns] /\ x.ns = ns /\ x # NoItem
  BY NoItemAssumption DEF SyncSuccess, SyncFailure, Work, TypeOK, Holding, ItemsOf
<1>2. /\ hand' = [hand EXCEPT ![ns] = NoItem] /\ DOMAIN hand = Namespaces
      /\ taken' = taken /\ queue' = queue /\ nsQueue' = nsQueue
      /\ handedOver' = handedOver /\ shutdown' = shutdown
  BY DEF SyncSuccess, SyncFailure, Work, dispVars, shutVars, TypeOK
<1>3. \/ synced' = synced \cup {x} /\ retries' = retries /\ dropped' = dropped
      \/ synced' = synced /\ retries' = retries \cup {x} /\ dropped' = dropped
      \/ shutdown /\ synced' = synced /\ retries' = retries /\ dropped' = dropped \cup {x}
  BY <1>1 DEF SyncSuccess, SyncFailure, ShutdownOrder
<1>4. /\ x \notin Range(queue) /\ x # taken /\ x \notin Range(nsQueue[x.ns])
      /\ x \notin retries \cup synced \cup dropped /\ "hand" \in Places(x)
  BY <1>1 DEF Places, InMain, Taken, InQueue, InHand, ItemsInv, ItemsAccounted, AtOnePlace
<1>5. x # hand'[x.ns]
  BY <1>1, <1>2
<1>6. \A i \in Items \ {x} : i.ns \in Namespaces /\ (i = hand'[i.ns] <=> i = hand[i.ns])
  BY <1>1, <1>2, NoItemAssumption DEF Items
<1>7. \E p : Places(x)' = {p}
  <2>1. CASE synced' = synced \cup {x} /\ retries' = retries /\ dropped' = dropped
    <3>1. Places(x)' = {"synced"}
      BY <1>2, <1>4, <1>5, <2>1 DEF Places, InMain, Taken, InQueue, InHand
    <3> QED BY <3>1
  <2>2. CASE synced' = synced /\ retries' = retries \cup {x} /\ dropped' = dropped
    <3>1. Places(x)' = {"retries"}
      BY <1>2, <1>4, <1>5, <2>2 DEF Places, InMain, Taken, InQueue, InHand
    <3> QED BY <3>1
  <2>3. CASE synced' = synced /\ retries' = retries /\ dropped' = dropped \cup {x}
    <3>1. Places(x)' = {"dropped"}
      BY <1>2, <1>4, <1>5, <2>3 DEF Places, InMain, Taken, InQueue, InHand
    <3> QED BY <3>1
  <2> QED BY <1>3, <2>1, <2>2, <2>3
<1>8. \A i \in Items \ {x} : Places(i)' = Places(i)
  BY <1>2, <1>3, <1>6 DEF Places, InMain, Taken, InQueue, InHand
<1>9. Unique' /\ NoneLost' /\ Numbered'
  BY <1>2, <1>4, <1>7, <1>8, Moved
<1> QED BY <1>2, <1>3, <1>9 DEF ItemsInv, ItemsAccounted, AtOnePlace, Unique, DroppedAtShutdown

LEMMA ItemsStep ==
    TypeInv /\ ItemsInv /\ ShutdownOrder /\ [Next]_vars => ItemsInv'
<1> SUFFICES ASSUME TypeInv, ItemsInv, ShutdownOrder, [Next]_vars PROVE ItemsInv'
  OBVIOUS
<1>1. CASE UNCHANGED vars
  BY <1>1, SamePlaces, Stayed DEF vars
<1>2. ASSUME NEW ns \in Namespaces, Notify(ns) PROVE ItemsInv'
  BY <1>2, NotifyStep
<1>3. ASSUME NEW ns \in Namespaces, Worker(ns) PROVE ItemsInv'
  <2>1. CASE WorkLoop(ns) \/ WorkExit(ns) \/ QuitNsGet(ns)
    BY <2>1, SamePlaces, Stayed
    DEF WorkLoop, WorkExit, QuitNsGet, Work, dispVars, shutVars, history
  <2> QED BY <1>3, <2>1, BeginSyncStep, RequeueStep, SyncEndStep DEF Worker
<1>4. ASSUME NEW i \in Items, Retry(i) PROVE ItemsInv'
  BY <1>4, RetryStep
<1>5. CASE Dispatcher
  <2>1. CASE RunLoop \/ QuitGet \/ FindWorker \/ CreateWorker \/ StartWorker \/ CountWorker
    BY <2>1, SamePlaces, Stayed
    DEF RunLoop, QuitGet, FindWorker, CreateWorker, StartWorker, CountWorker, Dispatch,
        shutVars, workVars, history
  <2> QED BY <1>5, <2>1, TakeItemStep, HandOverStep DEF Dispatcher
<1>6. CASE Main \/ Termination \/ ReceiveSignal \/ NoReadyFile \/ MapFatal
  <2>1. Ends /\ (shutdown => shutdown')
    BY <1>6 DEF Main, StartDispatcher, ShutDownMain, ShutDownWorker, EndOfLoop, Done,
       MainReturns, Termination, SendStop, CloseStop, Quit, OsExit, ReceiveSignal,
       NoReadyFile, MapFatal, shutVars
  <2> QED BY <2>1, SamePlaces, Stayed DEF Ends, workVars, history
<1> QED BY <1>1, <1>2, <1>3, <1>4, <1>5, <1>6 DEF Next

\* Queues are shut down by Stop only, the main one first.
ShutInv == (main \in {"each", "wait", "done"} => shutdown) /\ ShutdownOrder

LEMMA ShutStep == TypeInv /\ ShutInv /\ [Next]_vars => ShutInv'
<1> SUFFICES ASSUME TypeInv, ShutInv, [Next]_vars PROVE ShutInv'
  OBVIOUS
<1> USE DEF ShutInv, ShutdownOrder
<1>1. CASE UNCHANGED <<main, shutVars>>
  BY <1>1 DEF shutVars
<1>2. CASE Main
  <2>1. CASE \E ns \in Namespaces : ShutDownWorker(ns)
    BY <2>1 DEF ShutDownWorker, TypeInv, TypeOK
  <2>2. CASE StartDispatcher \/ ShutDownMain \/ EndOfLoop \/ Done \/ MainReturns
    BY <2>2 DEF StartDispatcher, ShutDownMain, EndOfLoop, Done, MainReturns, shutVars
  <2> QED BY <1>2, <2>1, <2>2 DEF Main
<1>3. CASE Termination \/ ReceiveSignal \/ NoReadyFile \/ MapFatal
  BY <1>3 DEF Termination, SendStop, CloseStop, Quit, OsExit, ReceiveSignal, NoReadyFile,
     MapFatal, shutVars
<1>4. CASE Dispatcher
  <2>1. \E from, to : Dispatch(from, to)
    BY <1>4 DEF Dispatcher, RunLoop, TakeItem, QuitGet, FindWorker, CreateWorker,
       StartWorker, CountWorker, HandOver
  <2> QED BY <1>1, <2>1 DEF Dispatch, mainVars
<1>5. ASSUME NEW ns \in Namespaces, Notify(ns) \/ Worker(ns) PROVE ShutInv'
  BY <1>1, <1>5 DEF Notify, Worker, WorkLoop, WorkExit, BeginSync, QuitNsGet, Requeue,
     SyncSuccess, SyncFailure, Work, mainVars
<1>6. ASSUME NEW i \in Items, Retry(i) PROVE ShutInv'
  BY <1>1, <1>6 DEF Retry, mainVars
<1> QED BY <1>1, <1>2, <1>3, <1>4, <1>5, <1>6 DEF Next, vars, shutVars

QueuesInv == TypeInv /\ ShutInv /\ ItemsInv

LEMMA QueuesInvariant == Spec => []QueuesInv
<1>1. Init => QueuesInv
  BY TypeInit, ItemsInit DEF QueuesInv, Init, ShutInv, ShutdownOrder
<1>2. QueuesInv /\ [Next]_vars => QueuesInv'
  BY TypeStep, ShutStep, ItemsStep DEF QueuesInv, ShutInv
<1> QED BY <1>1, <1>2, PTL DEF Spec

\* No item is lost or doubled between the informers' callbacks and a worker's
\* result: it is at one place, and dropped only when the queues shut down.
THEOREM NoItemLost == Spec => []ItemsAccounted
<1>1. QueuesInv => ItemsAccounted
  BY DEF QueuesInv, ItemsInv
<1> QED BY <1>1, QueuesInvariant, PTL

-----------------------------------------------------------------------------
(* The queues implement NamespaceSync.                                     *)

Abs == <<Pending, hand, synced, shutdown>>

LEMMA QueuedItem ==
    ASSUME TypeOK, NEW i \in Queued
    PROVE  i \in Items /\ i.ns \in Namespaces /\ i \in Range(nsQueue[i.ns])
<1>1. PICK ns \in Namespaces : i \in Range(nsQueue[ns])
  BY DEF Queued
<1>2. nsQueue[ns] \in Seq(ItemsOf(ns))
  BY DEF TypeOK
<1>3. i \in ItemsOf(ns)
  BY <1>1, <1>2 DEF Range
<1> QED BY <1>1, <1>3 DEF ItemsOf

LEMMA BusyItem ==
    ASSUME TypeOK, NEW i \in NS!Busy
    PROVE  i \in Items /\ i.ns \in Namespaces /\ i = hand[i.ns]
BY DEF NS!Busy, TypeOK, ItemsOf

\* A new item is none of those that are pending, at work or synced.
LEMMA Fresh ==
    ASSUME TypeOK, NEW x \in Items, Places(x) = {}
    PROVE  x \notin Pending \cup NS!Busy \cup synced
<1>1. x \notin Range(queue) /\ x # taken /\ x \notin Range(nsQueue[x.ns])
      /\ x # hand[x.ns] /\ x \notin retries \cup synced
  BY DEF Places, InMain, Taken, InQueue, InHand
<1>2. x \notin Queued /\ x \notin NS!Busy
  BY <1>1, QueuedItem, BusyItem
<1> QED BY <1>1, <1>2 DEF Pending

LEMMA PutPending ==
    ASSUME TypeOK, NEW x \in Items, nsQueue' = [nsQueue EXCEPT ![x.ns] = Append(@, x)]
    PROVE  Queued' = Queued \cup {x}
<1>1. /\ x.ns \in Namespaces
      /\ Range(nsQueue'[x.ns]) = Range(nsQueue[x.ns]) \cup {x}
      /\ \A ns \in Namespaces \ {x.ns} : nsQueue'[ns] = nsQueue[ns]
  BY PutItem
<1> QED BY <1>1 DEF Queued

LEMMA RefinesInit == Init => NS!Init
<1> SUFFICES ASSUME Init PROVE NS!Init
  OBVIOUS
<1>1. Range(queue) = {} /\ \A ns \in Namespaces : Range(nsQueue[ns]) = {}
  BY DEF Init, Range
<1>2. Pending = {}
  BY <1>1 DEF Init, Pending, Queued
<1> QED BY <1>2 DEF Init, NS!Init

LEMMA RefinesNotify ==
    ASSUME QueuesInv, NEW ns \in Namespaces, Notify(ns) PROVE [NS!Next]_Abs
<1> USE DEF QueuesInv, TypeInv
<1>1. PICK x \in Items : x = NewItem(ns) /\ x.id = handedOver + 1
  BY NewItemType DEF Notify
<1>2. x \notin Pending \cup NS!Busy \cup synced
  BY <1>1, NewIsNowhere, Fresh
<1>3. /\ taken' = taken /\ nsQueue' = nsQueue /\ hand' = hand
      /\ retries' = retries /\ synced' = synced /\ shutdown' = shutdown
  BY DEF Notify, workVars, shutVars
<1>4. CASE queue' = queue
  BY <1>3, <1>4 DEF Abs, Pending, Queued
<1>5. CASE queue' = Append(queue, x)
  <2>1. Range(queue') = Range(queue) \cup {x}
    BY <1>5, AppendItem DEF TypeOK
  <2>2. Pending' = Pending \cup {x}
    BY <1>3, <2>1 DEF Pending, Queued
  <2>3. NS!Submit(x)
    BY <1>2, <1>3, <2>2 DEF NS!Submit
  <2> QED BY <2>3 DEF NS!Next
<1> QED BY <1>1, <1>4, <1>5 DEF Notify

LEMMA RefinesDispatcher ==
    ASSUME QueuesInv, Dispatcher PROVE [NS!Next]_Abs
<1> USE DEF QueuesInv, TypeInv
<1>1. CASE RunLoop \/ QuitGet \/ FindWorker \/ CreateWorker \/ StartWorker \/ CountWorker
  BY <1>1 DEF RunLoop, QuitGet, FindWorker, CreateWorker, StartWorker, CountWorker,
     Dispatch, shutVars, workVars, history, Abs, Pending, Queued
<1>2. CASE TakeItem
  <2>1. /\ Range(queue') = Range(queue) \ {Head(queue)} /\ Head(queue) \in Range(queue)
        /\ Head(queue) # NoItem
    BY <1>2, TakeHead, NoItemAssumption DEF TakeItem, TypeOK, ItemsInv, ItemsAccounted, AtOnePlace
  <2>2. /\ taken' = Head(queue) /\ taken = NoItem /\ UNCHANGED <<workVars, history, shutVars>>
    BY <1>2 DEF TakeItem, Dispatch, Holding
  <2>3. Pending' = Pending
    BY <2>1, <2>2 DEF Pending, Queued, workVars
  <2> QED BY <2>2, <2>3 DEF Abs, workVars, history, shutVars
<1>3. CASE HandOver
  <2>1. PICK x \in Items : x = taken /\ x # NoItem
    BY <1>3 DEF HandOver, Dispatch, TypeOK, Holding
  <2>2. /\ taken' = NoItem /\ queue' = queue /\ retries' = retries /\ hand' = hand
        /\ synced' = synced /\ shutdown' = shutdown
    BY <1>3 DEF HandOver, Dispatch, shutVars
  <2>3. CASE nsQueue' = [nsQueue EXCEPT ![x.ns] = Append(@, x)]
    <3>1. Pending' = Pending
      BY <2>1, <2>2, <2>3, PutPending DEF Pending
    <3> QED BY <2>2, <3>1 DEF Abs
  <2>4. CASE nsShutdown[x.ns] /\ nsQueue' = nsQueue
    <3>1. x \notin Range(queue) \cup Queued \cup retries /\ x.ns \in Namespaces
      BY <2>1, QueuedItem DEF Places, InMain, Taken, InQueue, ItemsInv, ItemsAccounted, AtOnePlace, Items
    <3>2. Pending' = Pending \ {x} /\ x \in Pending
      BY <2>1, <2>2, <2>4, <3>1 DEF Pending, Queued
    <3>3. shutdown
      BY <2>4, <3>1 DEF ShutInv, ShutdownOrder
    <3>4. NS!Forget(x)
      BY <2>2, <3>2, <3>3 DEF NS!Forget
    <3> QED BY <3>4 DEF NS!Next
  <2> QED BY <1>3, <2>1, <2>3, <2>4 DEF HandOver, Target
<1> QED BY <1>1, <1>2, <1>3 DEF Dispatcher

LEMMA RefinesRetry ==
    ASSUME QueuesInv, NEW x \in Items, Retry(x) PROVE [NS!Next]_Abs
<1> USE DEF QueuesInv, TypeInv
<1>1. /\ retries' = retries \ {x} /\ x \in retries /\ queue' = queue /\ taken' = taken
      /\ hand' = hand /\ synced' = synced /\ shutdown' = shutdown
  BY DEF Retry, dispVars, shutVars
<1>2. CASE nsQueue' = [nsQueue EXCEPT ![x.ns] = Append(@, x)]
  <2>1. Pending' = Pending
    BY <1>1, <1>2, PutPending DEF Pending
  <2> QED BY <1>1, <2>1 DEF Abs
<1>3. CASE nsShutdown[x.ns] /\ nsQueue' = nsQueue
  <2>1. x \notin Range(queue) \cup Queued /\ x # taken /\ x.ns \in Namespaces
    BY <1>1, QueuedItem DEF Places, InMain, Taken, InQueue, ItemsInv, ItemsAccounted, AtOnePlace, Items
  <2>2. Pending' = Pending \ {x} /\ x \in Pending
    BY <1>1, <1>3, <2>1 DEF Pending, Queued
  <2>3. NS!Forget(x)
    BY <1>1, <1>3, <2>1, <2>2 DEF NS!Forget, ShutInv, ShutdownOrder
  <2> QED BY <2>3 DEF NS!Next
<1> QED BY <1>2, <1>3 DEF Retry

LEMMA RefinesWorker ==
    ASSUME QueuesInv, NEW ns \in Namespaces, Worker(ns) PROVE [NS!Next]_Abs
<1> USE DEF QueuesInv, TypeInv
<1>1. CASE WorkLoop(ns) \/ WorkExit(ns) \/ QuitNsGet(ns)
  BY <1>1 DEF WorkLoop, WorkExit, QuitNsGet, Work, dispVars, shutVars, history, Abs,
     Pending, Queued
<1>2. CASE BeginSync(ns)
  <2>0. nsQueue[ns] \in Seq(ItemsOf(ns)) /\ DOMAIN nsQueue = Namespaces
    BY DEF TypeOK
  <2>1. PICK x \in ItemsOf(ns) : x = Head(nsQueue[ns]) /\ x \in Range(nsQueue[ns])
    BY <1>2, <2>0, TakeHead DEF BeginSync
  <2>2. x \in Items /\ x.ns = ns /\ x # NoItem
    BY NoItemAssumption DEF ItemsOf
  <2>3. /\ Range(nsQueue'[ns]) = Range(nsQueue[ns]) \ {x}
        /\ \A m \in Namespaces \ {ns} : nsQueue'[m] = nsQueue[m]
    <3>1. Range(Tail(nsQueue[ns])) = Range(nsQueue[ns]) \ {x}
      BY <1>2, <2>0, <2>1, TakeHead DEF BeginSync, ItemsInv, ItemsAccounted, AtOnePlace
    <3> QED BY <1>2, <2>0, <3>1 DEF BeginSync
  <2>4. /\ hand' = [hand EXCEPT ![ns] = x] /\ hand[ns] = NoItem
        /\ taken' = taken /\ queue' = queue /\ retries' = retries /\ synced' = synced
        /\ shutdown' = shutdown
    BY <1>2, <2>1 DEF BeginSync, Work, dispVars, shutVars, Holding
  <2>5. x \notin Range(queue) /\ x # taken /\ x \notin retries
    BY <2>1, <2>2 DEF Places, InMain, Taken, InQueue, ItemsInv, ItemsAccounted, AtOnePlace
  <2>6. Queued' = Queued \ {x} /\ x \in Queued
    <3>1. \A m \in Namespaces \ {ns} : x \notin Range(nsQueue[m])
      <4> SUFFICES ASSUME NEW m \in Namespaces, x \in Range(nsQueue[m]) PROVE m = ns
        OBVIOUS
      <4>1. nsQueue[m] \in Seq(ItemsOf(m))
        BY DEF TypeOK
      <4>2. x \in ItemsOf(m)
        BY <4>1 DEF Range
      <4> QED BY <2>2, <4>2 DEF ItemsOf
    <3> QED BY <2>1, <2>3, <3>1 DEF Queued
  <2>7. Pending' = Pending \ {x} /\ x \in Pending
    BY <2>4, <2>5, <2>6 DEF Pending
  <2>8. NS!Begin(x)
    BY <2>2, <2>4, <2>7 DEF NS!Begin, NamespaceOf
  <2> QED BY <2>2, <2>8 DEF NS!Next
<1>3. CASE Requeue(ns)
  <2>1. PICK x \in Items : x = NewItem(ns) /\ x.id = handedOver + 1 /\ x.ns = ns
    BY <1>3, NewItemType DEF Requeue
  <2>2. x \notin Pending \cup NS!Busy \cup synced
    BY <2>1, NewIsNowhere, Fresh
  <2>3. /\ taken' = taken /\ queue' = queue /\ hand' = hand
        /\ retries' = retries /\ synced' = synced /\ shutdown' = shutdown
    BY <1>3 DEF Requeue, dispVars, shutVars
  <2>4. CASE nsQueue' = nsQueue
    BY <2>3, <2>4 DEF Abs, Pending, Queued
  <2>5. CASE nsQueue' = [nsQueue EXCEPT ![x.ns] = Append(@, x)]
    <3>1. Pending' = Pending \cup {x}
      BY <2>3, <2>5, PutPending DEF Pending
    <3>2. NS!Submit(x)
      BY <2>2, <2>3, <3>1 DEF NS!Submit
    <3> QED BY <3>2 DEF NS!Next
  <2> QED BY <1>3, <2>1, <2>4, <2>5 DEF Requeue
<1>4. CASE SyncSuccess(ns)
  <2>1. hand[ns] # NoItem
    BY <1>4 DEF SyncSuccess, Work, Holding
  <2>2. /\ hand' = [hand EXCEPT ![ns] = NoItem] /\ synced' = synced \cup {hand[ns]}
        /\ Pending' = Pending /\ shutdown' = shutdown
    BY <1>4 DEF SyncSuccess, Work, dispVars, shutVars, Pending, Queued
  <2>3. NS!Succeed(ns)
    BY <2>1, <2>2 DEF NS!Succeed
  <2> QED BY <2>3 DEF NS!Next
<1>5. CASE SyncFailure(ns)
  <2>1. PICK x \in Items : x = hand[ns] /\ x # NoItem /\ x.ns = ns
    BY <1>5, NoItemAssumption DEF SyncFailure, Work, Holding, TypeOK, ItemsOf
  <2>2. /\ hand' = [hand EXCEPT ![ns] = NoItem] /\ synced' = synced /\ shutdown' = shutdown
        /\ queue' = queue /\ taken' = taken /\ nsQueue' = nsQueue
    BY <1>5 DEF SyncFailure, Work, dispVars, shutVars
  <2>3. CASE retries' = retries \cup {x}
    <3>1. Pending' = Pending \cup {x}
      BY <2>2, <2>3 DEF Pending, Queued
    <3>2. NS!Fail(ns)
      BY <2>1, <2>2, <3>1 DEF NS!Fail
    <3> QED BY <3>2 DEF NS!Next
  <2>4. CASE nsShutdown[ns] /\ retries' = retries
    <3>1. Pending' = Pending
      BY <2>2, <2>4 DEF Pending, Queued
    <3>2. x \in NS!Busy /\ shutdown
      BY <2>1, <2>4 DEF NS!Busy, ShutInv, ShutdownOrder
    <3>3. NS!Forget(x)
      BY <2>1, <2>2, <3>1, <3>2 DEF NS!Forget, NamespaceOf
    <3> QED BY <3>3 DEF NS!Next
  <2> QED BY <1>5, <2>1, <2>3, <2>4 DEF SyncFailure
<1> QED BY <1>1, <1>2, <1>3, <1>4, <1>5 DEF Worker

LEMMA RefinesStep == QueuesInv /\ [Next]_vars => [NS!Next]_Abs
<1> SUFFICES ASSUME QueuesInv, [Next]_vars PROVE [NS!Next]_Abs
  OBVIOUS
<1>1. CASE UNCHANGED vars
  BY <1>1 DEF vars, Abs, Pending, Queued
<1>2. CASE Main \/ Termination \/ ReceiveSignal \/ NoReadyFile \/ MapFatal
  <2>1. Ends /\ (shutdown' = shutdown \/ shutdown' = TRUE)
    BY <1>2 DEF Main, StartDispatcher, ShutDownMain, ShutDownWorker, EndOfLoop, Done,
       MainReturns, Termination, SendStop, CloseStop, Quit, OsExit, ReceiveSignal,
       NoReadyFile, MapFatal, shutVars
  <2>2. Pending' = Pending /\ hand' = hand /\ synced' = synced
    BY <2>1 DEF Ends, workVars, history, Pending, Queued
  <2>3. CASE shutdown' = TRUE
    BY <2>2, <2>3 DEF NS!Stop, NS!Next
  <2> QED BY <2>1, <2>2, <2>3 DEF Abs
<1> QED BY <1>1, <1>2, RefinesNotify, RefinesDispatcher, RefinesRetry, RefinesWorker DEF Next

\* Each namespace is synchronised on its own and one item at a time, and no
\* item is forgotten before the shutdown: the dispatcher, the workers and the
\* retries implement NamespaceSync.
THEOREM QueuesRefinement == Spec => ImplementsSync
<1>1. Spec => [][NS!Next]_Abs
  BY QueuesInvariant, RefinesStep, PTL DEF Spec
<1>2. Spec => NS!Init
  BY RefinesInit DEF Spec
<1> QED BY <1>1, <1>2, PTL DEF ImplementsSync, NS!Spec, NS!absvars, Abs

-----------------------------------------------------------------------------
(* The order in which a worker begins what the informers have reported.    *)

\* Those items of s that are in F have ascending numbers.
Ordered(s, F) ==
    \A m, n \in DOMAIN s : m < n /\ s[m] \in F /\ s[n] \in F => s[m].id < s[n].id

LEMMA OrderedAppend ==
    ASSUME NEW S, NEW s \in Seq(S), NEW e \in S, NEW F, Ordered(s, F),
           e \in F => \A x \in Range(s) \cap F : x.id < e.id
    PROVE  Ordered(Append(s, e), F)
<1>1. /\ DOMAIN Append(s, e) = 1 .. (Len(s) + 1)
      /\ DOMAIN s = 1 .. Len(s)
      /\ Len(s) \in Nat
      /\ \A k \in 1 .. Len(s) : Append(s, e)[k] = s[k]
      /\ Append(s, e)[Len(s) + 1] = e
  OBVIOUS
<1> DEFINE a == Append(s, e)
<1> SUFFICES ASSUME NEW m \in DOMAIN a, NEW n \in DOMAIN a, m < n, a[m] \in F, a[n] \in F
             PROVE  a[m].id < a[n].id
  BY DEF Ordered
<1>2. m \in DOMAIN s /\ a[m] = s[m]
  BY <1>1
<1>3. CASE n = Len(s) + 1
  <2>1. a[n] = e /\ s[m] \in Range(s) \cap F
    BY <1>1, <1>2, <1>3 DEF Range
  <2> QED BY <1>2, <2>1
<1>4. CASE n # Len(s) + 1
  <2>1. n \in DOMAIN s /\ a[n] = s[n]
    BY <1>1, <1>4
  <2> QED BY <1>2, <2>1 DEF Ordered
<1> QED BY <1>3, <1>4

LEMMA OrderedTail ==
    ASSUME NEW S, NEW s \in Seq(S), s # <<>>, NEW F, Ordered(s, F)
    PROVE  /\ Ordered(Tail(s), F)
           /\ Head(s) \in F => \A x \in Range(Tail(s)) \cap F : Head(s).id < x.id
           /\ Range(s) = Range(Tail(s)) \cup {Head(s)}
<1>1. /\ DOMAIN s = 1 .. Len(s)
      /\ Len(s) \in Nat \ {0}
      /\ DOMAIN Tail(s) = 1 .. (Len(s) - 1)
      /\ \A k \in 1 .. (Len(s) - 1) : Tail(s)[k] = s[k + 1]
      /\ Head(s) = s[1]
  OBVIOUS
<1>2. Ordered(Tail(s), F)
  <2> SUFFICES ASSUME NEW m \in DOMAIN Tail(s), NEW n \in DOMAIN Tail(s), m < n,
                      Tail(s)[m] \in F, Tail(s)[n] \in F
               PROVE  Tail(s)[m].id < Tail(s)[n].id
    BY DEF Ordered
  <2>1. /\ m + 1 \in DOMAIN s /\ n + 1 \in DOMAIN s /\ m + 1 < n + 1
        /\ Tail(s)[m] = s[m + 1] /\ Tail(s)[n] = s[n + 1]
    BY <1>1
  <2> QED BY <2>1 DEF Ordered
<1>3. ASSUME Head(s) \in F, NEW x \in Range(Tail(s)) \cap F PROVE Head(s).id < x.id
  <2>1. PICK k \in DOMAIN Tail(s) : x = Tail(s)[k]
    BY DEF Range
  <2>2. 1 \in DOMAIN s /\ k + 1 \in DOMAIN s /\ 1 < k + 1 /\ x = s[k + 1]
    BY <1>1, <2>1
  <2> QED BY <1>1, <1>3, <2>2 DEF Ordered
<1>4. Range(s) = Range(Tail(s)) \cup {Head(s)}
  <2>1. Range(Tail(s)) \subseteq Range(s) /\ Head(s) \in Range(s)
    BY <1>1 DEF Range
  <2>2. ASSUME NEW x \in Range(s), x # Head(s) PROVE x \in Range(Tail(s))
    <3>1. PICK k \in 1 .. Len(s) : x = s[k]
      BY <1>1 DEF Range
    <3>2. k - 1 \in 1 .. (Len(s) - 1) /\ Tail(s)[k - 1] = s[k]
      BY <1>1, <2>2, <3>1
    <3> QED BY <1>1, <3>1, <3>2 DEF Range
  <2> QED BY <2>1, <2>2
<1> QED BY <1>2, <1>3, <1>4

\* What waits to be tried again, or is at work, has been begun.
BegunBefore ==
    retries \subseteq tried /\ \A ns \in Namespaces : hand[ns] # NoItem => hand[ns] \in tried

NumberedSoFar == \A i \in notified \cup tried : i.id <= handedOver

\* Reported items come off the main queue in their order, and are begun in it,
\* unless they were begun before.
Coming == Range(queue) \cup ({taken} \ {NoItem})
ComeInOrder ==
    /\ Coming \subseteq notified
    /\ Ordered(queue, notified)
    /\ taken # NoItem => \A i \in Range(queue) : taken.id < i.id
    /\ \A ns \in Namespaces :
           /\ Ordered(nsQueue[ns], notified \ tried)
           /\ \A i \in Range(nsQueue[ns]) \cap (notified \ tried), j \in Coming : i.id < j.id

Unbegun == notified \ (tried \cup dropped)
Whereabouts == \A i \in Unbegun : i \in Coming \cup Range(nsQueue[i.ns])

OrderInv == BegunBefore /\ NumberedSoFar /\ ComeInOrder /\ Whereabouts /\ BegunInOrder

LEMMA OrderInit == Init => OrderInv
<1> SUFFICES ASSUME Init PROVE OrderInv
  OBVIOUS
<1>1. Coming = {} /\ Range(queue) = {} /\ \A ns \in Namespaces : Range(nsQueue[ns]) = {}
  BY DEF Init, Coming, Range
<1>2. \A F : Ordered(<<>>, F)
  BY DEF Ordered
<1>3. ComeInOrder
  BY <1>1, <1>2 DEF Init, ComeInOrder
<1> QED BY <1>3 DEF Init, OrderInv, BegunBefore, NumberedSoFar, Whereabouts, Unbegun, BegunInOrder

\* The steps that move no item.
LEMMA OrderSame ==
    ASSUME OrderInv, UNCHANGED <<queue, taken, nsQueue, hand, retries, history>>
    PROVE  OrderInv'
BY DEF history, OrderInv, BegunBefore, NumberedSoFar, ComeInOrder, Coming, Whereabouts, Unbegun,
   BegunInOrder

\* Fewer of the items of a sequence in order are in order.
LEMMA OrderedOn ==
    ASSUME NEW s, NEW F, NEW G, Ordered(s, F), Range(s) \cap G \subseteq F
    PROVE  Ordered(s, G)
BY DEF Ordered, Range

LEMMA OrderNotify ==
    ASSUME QueuesInv, OrderInv, NEW ns \in Namespaces, Notify(ns) PROVE OrderInv'
<1> USE DEF QueuesInv, TypeInv, OrderInv
<1>1. PICK x \in Items : x = NewItem(ns) /\ x.id = handedOver + 1 /\ x.ns = ns
  BY NewItemType DEF Notify
<1>2. /\ notified' = notified \cup {x} /\ handedOver' = handedOver + 1
      /\ UNCHANGED <<taken, nsQueue, hand, retries, tried>>
      /\ \/ queue' = Append(queue, x) /\ dropped' = dropped
         \/ queue' = queue /\ dropped' = dropped \cup {x}
  BY <1>1 DEF Notify, workVars
<1>3. /\ \A i \in notified \cup tried : i \in Items /\ i.id \in Nat /\ i.id < x.id /\ i # x
      /\ handedOver \in Nat
  BY <1>1 DEF NumberedSoFar, TypeOK, Items
<1>4. queue \in Seq(Items) /\ Range(queue) \subseteq notified /\ Coming \subseteq notified
  BY DEF ComeInOrder, Coming, TypeOK
<1>5. queue' = Append(queue, x) => Range(queue') = Range(queue) \cup {x}
  BY <1>4, AppendItem
<1>6. Coming' \subseteq Coming \cup {x} /\ Coming \subseteq Coming'
  BY <1>2, <1>5 DEF Coming
<1>7. \A m \in Namespaces : x \notin Range(nsQueue[m])
  <2> SUFFICES ASSUME NEW m \in Namespaces, x \in Range(nsQueue[m]) PROVE FALSE
    OBVIOUS
  <2>1. nsQueue[m] \in Seq(ItemsOf(m))
    BY DEF TypeOK
  <2>2. x \in ItemsOf(m)
    BY <2>1 DEF Range
  <2>3. InQueue(x)
    BY <2>2 DEF ItemsOf, InQueue
  <2> QED BY <1>1, <2>3, NewIsNowhere DEF Places
<1>8. Ordered(queue', notified')
  <2>1. Ordered(queue, notified')
    BY <1>2, <1>3, <1>4, OrderedOn DEF ComeInOrder
  <2>2. \A i \in Range(queue) \cap notified' : i.id < x.id
    BY <1>3, <1>4
  <2>3. Ordered(Append(queue, x), notified')
    BY <1>4, <2>1, <2>2, OrderedAppend
  <2> QED BY <1>2, <2>1, <2>3
<1>9. ASSUME NEW m \in Namespaces
      PROVE  /\ Ordered(nsQueue'[m], notified' \ tried')
             /\ \A i \in Range(nsQueue'[m]) \cap (notified' \ tried'), j \in Coming' : i.id < j.id
  <2>1. Range(nsQueue[m]) \cap (notified' \ tried') \subseteq notified \ tried
    BY <1>2, <1>7
  <2>2. Ordered(nsQueue[m], notified' \ tried')
    BY <2>1, OrderedOn DEF ComeInOrder
  <2>3. \A i \in Range(nsQueue[m]) \cap (notified \ tried), j \in Coming' : i.id < j.id
    BY <1>3, <1>6 DEF ComeInOrder
  <2> QED BY <1>2, <2>1, <2>2, <2>3
<1>10. taken' # NoItem => \A i \in Range(queue') : taken'.id < i.id
  BY <1>2, <1>3, <1>4, <1>5 DEF ComeInOrder, Coming
<1>11. ComeInOrder'
  BY <1>2, <1>4, <1>6, <1>8, <1>9, <1>10 DEF ComeInOrder
<1>12. Whereabouts'
  BY <1>2, <1>5, <1>6 DEF Whereabouts, Unbegun, Coming
<1>13. NumberedSoFar'
  BY <1>1, <1>2, <1>3 DEF NumberedSoFar
<1>14. BegunInOrder'
  <2> SUFFICES ASSUME NEW i \in notified', NEW j \in tried' \cap notified', i.ns = j.ns, i.id < j.id
               PROVE  i \in tried' \cup dropped'
    BY DEF BegunInOrder
  <2>1. j \in tried \cap notified
    BY <1>2, <1>3
  <2>2. i \in notified
    <3>1. i # x
      BY <1>1, <1>3, <2>1 DEF Items
    <3> QED BY <1>2, <3>1
  <2> QED BY <1>2, <2>1, <2>2 DEF BegunInOrder
<1>15. BegunBefore'
  BY <1>2 DEF BegunBefore
<1> QED BY <1>11, <1>12, <1>13, <1>14, <1>15

LEMMA OrderTakeItem ==
    ASSUME QueuesInv, OrderInv, TakeItem PROVE OrderInv'
<1> USE DEF QueuesInv, TypeInv, OrderInv
<1>1. PICK x \in Items : x = Head(queue)
  BY TakeHead DEF TakeItem, TypeOK
<1>2. /\ taken = NoItem /\ taken' = x /\ queue' = Tail(queue)
      /\ UNCHANGED <<nsQueue, hand, retries, history>>
  BY <1>1 DEF TakeItem, Dispatch, workVars, Holding
<1>3. /\ Ordered(queue', notified)
      /\ x \in notified => \A y \in Range(queue') \cap notified : x.id < y.id
      /\ Range(queue) = Range(queue') \cup {x}
  BY <1>1, <1>2, OrderedTail DEF TakeItem, TypeOK, ComeInOrder
<1>4. Coming' = Coming
  <2>1. queue \in Seq(Items) /\ NoItem \notin Range(queue)
    BY NoItemAssumption DEF TypeOK, Range
  <2> QED BY <1>2, <1>3, <2>1 DEF Coming
<1>5. x \in notified /\ Range(queue') \subseteq notified
  BY <1>3 DEF ComeInOrder, Coming, TypeOK
<1>6. \A i \in Range(queue') : taken'.id < i.id
  BY <1>2, <1>3, <1>5
<1>7. ComeInOrder'
  BY <1>2, <1>3, <1>4, <1>6 DEF ComeInOrder, history
<1> QED BY <1>2, <1>4, <1>7 DEF history, BegunBefore, NumberedSoFar, Whereabouts, Unbegun,
          BegunInOrder

LEMMA OrderHandOver ==
    ASSUME QueuesInv, OrderInv, HandOver PROVE OrderInv'
<1> USE DEF QueuesInv, TypeInv, OrderInv
<1>1. PICK x \in Items : x = taken /\ x # NoItem /\ x.ns \in Namespaces
  BY DEF HandOver, Dispatch, Holding, TypeOK, Items
<1>2. /\ taken' = NoItem
      /\ UNCHANGED <<queue, hand, retries, handedOver, notified, tried>>
      /\ \/ nsQueue' = [nsQueue EXCEPT ![x.ns] = Append(@, x)] /\ dropped' = dropped
         \/ nsQueue' = nsQueue /\ dropped' = dropped \cup {x}
  BY <1>1 DEF HandOver, Target
<1>3. /\ queue \in Seq(Items) /\ NoItem \notin Range(queue)
      /\ Coming = Range(queue) \cup {x} /\ Coming' = Range(queue)
      /\ \A i \in Range(queue) : x.id < i.id
  BY <1>1, <1>2, NoItemAssumption DEF TypeOK, Range, Coming, ComeInOrder
<1>4. nsQueue' # nsQueue =>
        /\ Range(nsQueue'[x.ns]) = Range(nsQueue[x.ns]) \cup {x}
        /\ \A m \in Namespaces \ {x.ns} : nsQueue'[m] = nsQueue[m]
        /\ nsQueue'[x.ns] = Append(nsQueue[x.ns], x)
        /\ nsQueue[x.ns] \in Seq(ItemsOf(x.ns)) /\ x \in ItemsOf(x.ns)
  BY <1>1, <1>2, PutItem DEF TypeOK, ItemsOf
<1>5. ASSUME NEW m \in Namespaces
      PROVE  /\ Ordered(nsQueue'[m], notified \ tried)
             /\ \A i \in Range(nsQueue'[m]) \cap (notified \ tried), j \in Coming' : i.id < j.id
  <2>1. CASE nsQueue'[m] = nsQueue[m]
    BY <1>3, <2>1 DEF ComeInOrder
  <2>2. CASE m = x.ns /\ nsQueue' # nsQueue
    <3>1. \A i \in Range(nsQueue[m]) \cap (notified \ tried) : i.id < x.id
      BY <1>3 DEF ComeInOrder
    <3>2. Ordered(nsQueue[m], notified \ tried)
      BY DEF ComeInOrder
    <3>3. Ordered(Append(nsQueue[m], x), notified \ tried)
      <4> HIDE DEF ItemsOf
      <4> QED BY <1>4, <2>2, <3>1, <3>2, OrderedAppend
    <3>4. \A i \in Range(nsQueue[m]) \cap (notified \ tried), j \in Coming' : i.id < j.id
      BY <1>3 DEF ComeInOrder
    <3> QED BY <1>3, <1>4, <2>2, <3>3, <3>4
  <2> QED BY <1>4, <2>1, <2>2
<1>6. ComeInOrder'
  BY <1>2, <1>3, <1>5 DEF ComeInOrder
<1>7. Whereabouts'
  <2> SUFFICES ASSUME NEW i \in Unbegun' PROVE i \in Coming' \cup Range(nsQueue'[i.ns])
    BY DEF Whereabouts
  <2>1. i \in Unbegun /\ i \in Coming \cup Range(nsQueue[i.ns])
    BY <1>2 DEF Whereabouts, Unbegun
  <2>2. CASE i = x
    BY <1>1, <1>2, <1>4, <2>2 DEF Unbegun, TypeOK
  <2>3. CASE i # x
    <3>1. i.ns \in Namespaces
      BY <2>1 DEF Unbegun, TypeOK, Items
    <3> QED BY <1>2, <1>3, <1>4, <2>1, <2>3, <3>1
  <2> QED BY <2>2, <2>3
<1> QED BY <1>2, <1>6, <1>7 DEF BegunBefore, NumberedSoFar, BegunInOrder

LEMMA OrderBeginSync ==
    ASSUME QueuesInv, OrderInv, NEW ns \in Namespaces, BeginSync(ns) PROVE OrderInv'
<1> USE DEF QueuesInv, TypeInv, OrderInv
<1>1. nsQueue[ns] \in Seq(ItemsOf(ns)) /\ nsQueue[ns] # <<>> /\ DOMAIN nsQueue = Namespaces
  BY DEF BeginSync, TypeOK
<1>2. PICK x \in Items : x = Head(nsQueue[ns]) /\ x.ns = ns /\ x \in Range(nsQueue[ns])
  BY <1>1, TakeHead DEF ItemsOf
<1>3. /\ nsQueue' = [nsQueue EXCEPT ![ns] = Tail(@)] /\ hand' = [hand EXCEPT ![ns] = x]
      /\ tried' = tried \cup {x}
      /\ UNCHANGED <<queue, taken, retries, handedOver, notified, dropped>>
  BY <1>2 DEF BeginSync, Work, dispVars
<1>4. /\ nsQueue'[ns] = Tail(nsQueue[ns])
      /\ \A m \in Namespaces \ {ns} : nsQueue'[m] = nsQueue[m]
  BY <1>1, <1>3
<1>5. /\ Ordered(nsQueue'[ns], notified \ tried)
      /\ x \in notified \ tried =>
            \A y \in Range(nsQueue'[ns]) \cap (notified \ tried) : x.id < y.id
      /\ Range(nsQueue[ns]) = Range(nsQueue'[ns]) \cup {x}
  <2> HIDE DEF ItemsOf
  <2> QED BY <1>1, <1>2, <1>4, OrderedTail DEF ComeInOrder
<1>6. ASSUME NEW m \in Namespaces
      PROVE  /\ Ordered(nsQueue'[m], notified' \ tried')
             /\ \A i \in Range(nsQueue'[m]) \cap (notified' \ tried'), j \in Coming' : i.id < j.id
  <2>1. Ordered(nsQueue'[m], notified \ tried)
    BY <1>4, <1>5 DEF ComeInOrder
  <2>2. Ordered(nsQueue'[m], notified' \ tried')
    BY <1>3, <2>1, OrderedOn
  <2>3. Range(nsQueue'[m]) \subseteq Range(nsQueue[m]) /\ Coming' = Coming
    BY <1>3, <1>4, <1>5 DEF Coming
  <2> QED BY <1>3, <2>2, <2>3 DEF ComeInOrder
<1>7. ComeInOrder'
  BY <1>3, <1>6 DEF ComeInOrder, Coming
<1>8. Whereabouts'
  <2> SUFFICES ASSUME NEW i \in Unbegun' PROVE i \in Coming' \cup Range(nsQueue'[i.ns])
    BY DEF Whereabouts
  <2>1. i \in Unbegun /\ i # x /\ i \in Coming \cup Range(nsQueue[i.ns])
    BY <1>3 DEF Whereabouts, Unbegun
  <2>2. i.ns \in Namespaces /\ Coming' = Coming
    BY <1>3, <2>1 DEF Unbegun, TypeOK, Items, Coming
  <2> QED BY <1>4, <1>5, <2>1, <2>2
<1>9. BegunInOrder'
  <2> SUFFICES ASSUME NEW i \in notified, NEW j \in tried' \cap notified, i.ns = j.ns,
                      i.id < j.id, i \notin tried' \cup dropped
               PROVE  FALSE
    BY <1>3 DEF BegunInOrder
  <2>1. j = x /\ x \notin tried
    BY <1>3 DEF BegunInOrder
  <2>2. i \in Unbegun /\ i # x
    BY <1>3 DEF Unbegun
  <2>3. x.id < i.id
    <3>1. CASE i \in Coming
      BY <1>2, <2>1, <3>1 DEF ComeInOrder
    <3>2. CASE i \in Range(nsQueue[ns])
      BY <1>2, <1>5, <2>1, <2>2, <3>2 DEF Unbegun
    <3> QED BY <1>2, <2>1, <2>2, <3>1, <3>2 DEF Whereabouts
  <2>4. x.id \in Int /\ i.id \in Int
    BY DEF TypeOK, Items
  <2> QED BY <2>1, <2>3, <2>4
<1>10. BegunBefore'
  BY <1>3 DEF BegunBefore, TypeOK
<1>11. NumberedSoFar'
  <2>1. x.id <= handedOver
    BY <1>2 DEF ItemsInv, Numbered, Places, InQueue
  <2> QED BY <1>3, <2>1 DEF NumberedSoFar
<1> QED BY <1>7, <1>8, <1>9, <1>10, <1>11

\* An item that needs no place in the order is put on its worker's queue.
LEMMA OrderPut ==
    ASSUME QueuesInv, OrderInv, NEW x \in Items, x \notin notified \ tried,
           nsQueue' = [nsQueue EXCEPT ![x.ns] = Append(@, x)],
           UNCHANGED <<queue, taken, notified, tried, dropped>>
    PROVE  ComeInOrder' /\ Whereabouts'
<1> USE DEF QueuesInv, TypeInv, OrderInv
<1>1. /\ Range(nsQueue'[x.ns]) = Range(nsQueue[x.ns]) \cup {x}
      /\ \A m \in Namespaces \ {x.ns} : nsQueue'[m] = nsQueue[m]
      /\ nsQueue'[x.ns] = Append(nsQueue[x.ns], x)
      /\ nsQueue[x.ns] \in Seq(ItemsOf(x.ns)) /\ x \in ItemsOf(x.ns)
      /\ x.ns \in Namespaces /\ Coming' = Coming
  BY PutItem DEF TypeOK, ItemsOf, Items, Coming
<1>2. ASSUME NEW m \in Namespaces
      PROVE  /\ Ordered(nsQueue'[m], notified \ tried)
             /\ \A i \in Range(nsQueue'[m]) \cap (notified \ tried), j \in Coming : i.id < j.id
  <2>1. CASE m # x.ns
    BY <1>1, <2>1 DEF ComeInOrder
  <2>2. CASE m = x.ns
    <3>1. Ordered(nsQueue[m], notified \ tried)
      BY DEF ComeInOrder
    <3>2. Ordered(Append(nsQueue[m], x), notified \ tried)
      <4> HIDE DEF ItemsOf
      <4> QED BY <1>1, <2>2, <3>1, OrderedAppend
    <3> QED BY <1>1, <2>2, <3>2 DEF ComeInOrder
  <2> QED BY <2>1, <2>2
<1>3. ComeInOrder'
  BY <1>1, <1>2 DEF ComeInOrder
<1>4. Whereabouts'
  <2> SUFFICES ASSUME NEW i \in Unbegun PROVE i \in Coming \cup Range(nsQueue'[i.ns])
    BY <1>1 DEF Whereabouts, Unbegun
  <2>1. i.ns \in Namespaces /\ i \in Coming \cup Range(nsQueue[i.ns])
    BY DEF Whereabouts, Unbegun, TypeOK, Items
  <2> QED BY <1>1, <2>1
<1> QED BY <1>3, <1>4

LEMMA OrderRequeue ==
    ASSUME QueuesInv, OrderInv, NEW ns \in Namespaces, Requeue(ns) PROVE OrderInv'
<1> USE DEF QueuesInv, TypeInv, OrderInv
<1>1. PICK x \in Items : x = NewItem(ns) /\ x.id = handedOver + 1 /\ x.ns = ns
  BY NewItemType DEF Requeue
<1>2. /\ handedOver' = handedOver + 1 /\ handedOver \in Nat
      /\ UNCHANGED <<queue, taken, hand, retries, notified, tried>>
  BY BoundsAssumption DEF Requeue, dispVars, TypeOK
<1>3. \A i \in notified \cup tried : i.id \in Nat /\ i.id <= handedOver
  BY DEF NumberedSoFar, TypeOK, Items
<1>4. x \notin notified
  BY <1>1, <1>2, <1>3
<1>5. ComeInOrder' /\ Whereabouts'
  <2>1. CASE nsQueue' = [nsQueue EXCEPT ![x.ns] = Append(@, x)] /\ dropped' = dropped
    BY <1>2, <1>4, <2>1, OrderPut
  <2>2. CASE nsQueue' = nsQueue /\ dropped' = dropped \cup {x}
    BY <1>2, <2>2 DEF ComeInOrder, Coming, Whereabouts, Unbegun
  <2> QED BY <1>1, <2>1, <2>2 DEF Requeue
<1>6. NumberedSoFar'
  BY <1>2, <1>3 DEF NumberedSoFar
<1>7. dropped \subseteq dropped'
  BY DEF Requeue
<1> QED BY <1>2, <1>5, <1>6, <1>7 DEF BegunBefore, BegunInOrder

LEMMA OrderRetry ==
    ASSUME QueuesInv, OrderInv, NEW x \in Items, Retry(x) PROVE OrderInv'
<1> USE DEF QueuesInv, TypeInv, OrderInv
<1>1. x \in tried
  BY DEF Retry, BegunBefore
<1>2. /\ retries' = retries \ {x}
      /\ UNCHANGED <<queue, taken, hand, handedOver, notified, tried>>
  BY DEF Retry, dispVars
<1>3. ComeInOrder' /\ Whereabouts'
  <2>1. CASE nsQueue' = [nsQueue EXCEPT ![x.ns] = Append(@, x)] /\ dropped' = dropped
    BY <1>1, <1>2, <2>1, OrderPut
  <2>2. CASE nsQueue' = nsQueue /\ dropped' = dropped \cup {x}
    BY <1>2, <2>2 DEF ComeInOrder, Coming, Whereabouts, Unbegun
  <2> QED BY <2>1, <2>2 DEF Retry
<1>4. dropped \subseteq dropped'
  BY DEF Retry
<1> QED BY <1>2, <1>3, <1>4 DEF BegunBefore, BegunInOrder, NumberedSoFar

LEMMA OrderSyncEnd ==
    ASSUME QueuesInv, OrderInv, NEW ns \in Namespaces, SyncSuccess(ns) \/ SyncFailure(ns)
    PROVE  OrderInv'
<1> USE DEF QueuesInv, TypeInv, OrderInv
<1>1. hand[ns] \in tried /\ DOMAIN hand = Namespaces
  BY DEF SyncSuccess, SyncFailure, Work, Holding, BegunBefore, TypeOK
<1>2. /\ hand' = [hand EXCEPT ![ns] = NoItem]
      /\ retries' \subseteq retries \cup {hand[ns]} /\ dropped \subseteq dropped'
      /\ UNCHANGED <<queue, taken, nsQueue, handedOver, notified, tried>>
  BY DEF SyncSuccess, SyncFailure, Work, dispVars
<1>3. BegunBefore'
  BY <1>1, <1>2 DEF BegunBefore
<1>4. ComeInOrder' /\ Whereabouts'
  BY <1>2 DEF ComeInOrder, Coming, Whereabouts, Unbegun
<1> QED BY <1>2, <1>3, <1>4 DEF BegunInOrder, NumberedSoFar

LEMMA OrderStep == QueuesInv /\ OrderInv /\ [Next]_vars => OrderInv'
<1> SUFFICES ASSUME QueuesInv, OrderInv, [Next]_vars PROVE OrderInv'
  OBVIOUS
<1>1. CASE UNCHANGED vars
  BY <1>1, OrderSame DEF vars, history
<1>2. CASE Main \/ Termination \/ ReceiveSignal \/ NoReadyFile \/ MapFatal
  <2>1. Ends
    BY <1>2 DEF Main, StartDispatcher, ShutDownMain, ShutDownWorker, EndOfLoop, Done,
       MainReturns, Termination, SendStop, CloseStop, Quit, OsExit, ReceiveSignal,
       NoReadyFile, MapFatal
  <2> QED BY <2>1, OrderSame DEF Ends, workVars
<1>3. CASE Dispatcher
  <2>1. CASE RunLoop \/ QuitGet \/ FindWorker \/ CreateWorker \/ StartWorker \/ CountWorker
    BY <2>1, OrderSame DEF RunLoop, QuitGet, FindWorker, CreateWorker, StartWorker,
       CountWorker, workVars
  <2> QED BY <1>3, <2>1, OrderTakeItem, OrderHandOver DEF Dispatcher
<1>4. ASSUME NEW ns \in Namespaces, Worker(ns) PROVE OrderInv'
  <2>1. CASE WorkLoop(ns) \/ WorkExit(ns) \/ QuitNsGet(ns)
    BY <2>1, OrderSame DEF WorkLoop, WorkExit, QuitNsGet, Work, dispVars
  <2> QED BY <1>4, <2>1, OrderBeginSync, OrderRequeue, OrderSyncEnd DEF Worker
<1> QED BY <1>1, <1>2, <1>3, <1>4, OrderNotify, OrderRetry DEF Next

\* What the informers report of a namespace is begun in the order in which
\* they report it, whatever the dispatcher, the retries and the handlers'
\* own items do in between: only a shutdown takes an item away.
THEOREM QueuesInOrder == Spec => []BegunInOrder
<1>1. Spec => []OrderInv
  BY QueuesInvariant, OrderInit, OrderStep, PTL DEF Spec
<1>2. OrderInv => BegunInOrder
  BY DEF OrderInv
<1> QED BY <1>1, <1>2, PTL
=============================================================================
