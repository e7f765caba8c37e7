-------------------------- MODULE VarnishController --------------------------
(***************************************************************************)
(* The Varnish side of the controller (pkg/varnish): the record it keeps   *)
(* of one Varnish Service, the calls that the namespace workers make, the  *)
(* monitor goroutine, and the administration of the Varnish instances over *)
(* their CLI.                                                              *)
(*                                                                         *)
(* The goroutines share vc.svcs and vc.secrets without a lock; the only    *)
(* mutual exclusion is the admin mutex of each instance object.  A step is *)
(* what a goroutine does between two points where another one can be       *)
(* observed: a call into the controller, one turn of a loop over           *)
(* instances, the connection to an instance, one CLI command, the release  *)
(* of the connection and its mutex.                                        *)
(***************************************************************************)
EXTENDS Naturals, FiniteSets

CONSTANTS
    Workers,    \* the namespace workers that call the controller
    Monitor,    \* the monitor goroutine
    CallsOf,    \* CallsOf[w]: the calls that worker w makes
    Addrs,      \* admin addresses that the Service's endpoints may have
    Gens,       \* instance objects that may exist for one address
    SvcRefs,    \* service objects (two, when one is deleted under a reader)
    Configs,    \* Ingress configurations: a spec, and the name of its VCL
    NoSvc, NoSpec, NoInst, NoThread,   \* nil
    NotAvail,   \* vk8s_notavailable
    monIntvl,   \* the monitor interval; the monitor does not run if it is 0
    MaxCalls,   \* bound on the calls of the workers
    MaxFaults   \* bound on failed connections and commands, and on restarts

Threads == Workers \cup {Monitor}

\* An instance object is created for an address each time the address newly
\* appears among the endpoints.
Insts == Addrs \X Gens
Addr(i) == i[1]

CallNames == {"SyncIngress", "IngressGone", "SyncService", "SyncServiceNoLoad",
              "ServiceGone", "SyncSecret", "SecretGone"}

ASSUME ThreadsAssumption == Monitor \notin Workers /\ NoThread \notin Threads
ASSUME NilAssumption ==
    /\ NoSvc \notin SvcRefs
    /\ NoSpec \notin Configs
    /\ NoInst \notin Insts
    /\ NotAvail \notin Configs
ASSUME CallsAssumption == CallsOf \in [Workers -> SUBSET CallNames]
ASSUME BoundsAssumption == monIntvl \in Nat /\ MaxCalls \in Nat /\ MaxFaults \in Nat

VARIABLES
    \* the controller's memory
    svc,        \* vc.svcs[key]: a service object, or NoSvc
    obj,        \* the service objects
    secret,     \* vc.secrets holds the Service's admin secret
    admSecret,  \* admSecret[i]: the object's pointer is not nil
    admMtx,     \* admMtx[i]: the thread that holds the object's mutex
    th,         \* the frame of each thread
    \* the Varnish instances
    loaded,     \* loaded[a]: the Ingress configurations loaded at a
    cold,       \* cold[a]: those of them in the cold state
    regular,    \* regular[a]: the configuration labelled vk8s_regular
    ready,      \* ready[a]: vk8s_readiness labels vk8s_ready
    \* the bounds
    calls, faults

memory  == <<svc, obj, secret, admSecret>>
varnish == <<loaded, cold, regular, ready>>
bounds  == <<calls, faults>>
vars    == <<svc, obj, secret, admSecret, admMtx, th,
             loaded, cold, regular, ready, calls, faults>>

-----------------------------------------------------------------------------
(* Service objects and frames.                                             *)

SvcObj == [instances : SUBSET Insts, spec : Configs \cup {NoSpec},
           secrName : BOOLEAN, cfgLoaded : BOOLEAN]

NewSvc == [instances |-> {}, spec |-> NoSpec, secrName |-> FALSE,
           cfgLoaded |-> FALSE]

\* What a loop over instances is for.  "remove", "delete" and "notReady" are
\* the three loops that call setCfgLabel.
Kinds == {"update", "check", "remove", "delete", "notReady"}

Commands == {"load", "label", "ready", "notReady"}

Frame == [pc    : {"idle", "store", "update", "loop", "connect", "command"},
          kind  : Kinds,
          ref   : SvcRefs \cup {NoSvc},     \* the service object it points to
          cfg   : Configs \cup {NoSpec},    \* the configuration it carries
          todo  : SUBSET Insts,             \* instances still to visit
          inst  : Insts \cup {NoInst},      \* the instance it is visiting
          conn  : BOOLEAN,                  \* the connection is alive
          need  : SUBSET Commands,          \* labels and loads left to do
          drop  : SUBSET Configs,           \* VCLs left to discard
          errs  : BOOLEAN,                  \* the loop has collected errors
          loadVCL : BOOLEAN]                \* update after the removals

Idle == [pc |-> "idle", kind |-> "update", ref |-> NoSvc, cfg |-> NoSpec,
         todo |-> {}, inst |-> NoInst, conn |-> FALSE, need |-> {},
         drop |-> {}, errs |-> FALSE, loadVCL |-> FALSE]

\* The thread's next frame.
Goto(t, frame) == th' = [th EXCEPT ![t] = frame]

UpdateFrame == [Idle EXCEPT !.pc = "update"]

LoopFrame(k, s, insts, load) ==
    [Idle EXCEPT !.pc = "loop", !.kind = k, !.ref = s, !.todo = insts,
                 !.loadVCL = load]

\* Objects that a thread or the map still refers to; the others are garbage
\* and may be allocated again.
LiveSvcs == {svc} \cup {th[t].ref : t \in Threads}
LiveInsts ==
    (UNION {obj[s].instances : s \in LiveSvcs \cap SvcRefs})
        \cup UNION {th[t].todo \cup {th[t].inst} : t \in Threads}

Known == svc # NoSvc

Init ==
    /\ svc = NoSvc
    /\ obj = [s \in SvcRefs |-> NewSvc]
    /\ secret = FALSE
    /\ admSecret = [i \in Insts |-> FALSE]
    /\ admMtx = [i \in Insts |-> NoThread]
    /\ th = [t \in Threads |-> Idle]
    /\ loaded = [a \in Addrs |-> {}]
    /\ cold = [a \in Addrs |-> {}]
    /\ regular = [a \in Addrs |-> NotAvail]
    /\ ready = [a \in Addrs |-> FALSE]
    /\ calls = 0
    /\ faults = 0

-----------------------------------------------------------------------------
(* The calls of the workers.  A worker's synchronisation of a resource is  *)
(* one call here, with any argument the listers may have given it.         *)

Call(w, name) ==
    /\ th[w].pc = "idle"
    /\ name \in CallsOf[w]
    /\ calls < MaxCalls
    /\ calls' = calls + 1
    /\ UNCHANGED <<faults, varnish, admMtx>>

\* HasConfig dereferences the spec of a service that is marked as loaded.
NilSpec(s) == obj[s].cfgLoaded /\ obj[s].spec = NoSpec

HasConfig(c) == Known /\ obj[svc].cfgLoaded /\ obj[svc].spec = c

\* addOrUpdateIng, with the configuration c generated from the Ingresses:
\* nothing more to do if HasConfig, else Update follows.
addOrUpdateIng(w, c) ==
    /\ Call(w, "SyncIngress")
    /\ Known => ~NilSpec(svc)
    /\ ~HasConfig(c)
    /\ Goto(w, [Idle EXCEPT !.pc = "store", !.cfg = c])
    /\ UNCHANGED memory

configLoaded(w, c) ==
    /\ Call(w, "SyncIngress")
    /\ HasConfig(c)
    /\ UNCHANGED <<memory, th>>

\* Update: set the spec of the service, creating it if need be; without
\* instances it stops with an error, else updateVarnishSvc follows.
Update(w) ==
    /\ th[w].pc = "store"
    /\ \E s \in IF Known THEN {svc} ELSE SvcRefs \ LiveSvcs :
          LET old == IF Known THEN obj[s] ELSE NewSvc
          IN  /\ svc' = s
              /\ obj' = [obj EXCEPT ![s] =
                          [old EXCEPT !.spec = th[w].cfg, !.cfgLoaded = FALSE]]
              /\ Goto(w, IF old.instances = {} THEN Idle ELSE UpdateFrame)
    /\ UNCHANGED <<secret, admSecret, admMtx, varnish, bounds>>

\* SetNotReady: forget the spec and make every instance not ready.
SetNotReady(w) ==
    /\ Call(w, "IngressGone")
    /\ IF Known
       THEN /\ obj' = [obj EXCEPT ![svc].spec = NoSpec]
            /\ Goto(w, LoopFrame("notReady", svc, obj[svc].instances, FALSE))
       ELSE UNCHANGED <<obj, th>>
    /\ UNCHANGED <<svc, secret, admSecret>>

\* updateVarnishSvcAddrs for the service object s, up to the loop over the
\* removed instances: instances whose address is kept stay, one of the objects
\* in new is created for each new address.
updateVarnishSvcAddrs(w, s, old, new, addrs, load) ==
    LET keep == {i \in old.instances : Addr(i) \in addrs}
    IN  /\ {Addr(i) : i \in keep \cup new} = addrs
        /\ \A i, j \in keep \cup new : Addr(i) = Addr(j) => i = j
        /\ obj' = [obj EXCEPT ![s] = [old EXCEPT !.instances = keep \cup new,
                                                 !.secrName = TRUE]]
        /\ Goto(w, LoopFrame("remove", s, old.instances \ keep, load))

\* AddOrUpdateVarnishSvc: every instance gets the present secret, if any.
AddOrUpdateVarnishSvc(w, addrs, load) ==
    \E s \in IF Known THEN {svc} ELSE SvcRefs \ LiveSvcs,
       new \in SUBSET (Insts \ LiveInsts) :
       LET old == IF Known THEN obj[s] ELSE NewSvc
       IN  /\ svc' = s
           /\ admSecret' = [i \in Insts |-> IF i \in old.instances \cup new
                                            THEN secret' ELSE admSecret[i]]
           /\ updateVarnishSvcAddrs(w, s, old, new, addrs, load)

\* syncSvc: SetAdmSecret if the secret was found, then AddOrUpdateVarnishSvc,
\* unless an endpoint has no admin port.
syncSvc(w, addrs, found, load) ==
    /\ Call(w, IF load THEN "SyncService" ELSE "SyncServiceNoLoad")
    /\ secret' = (secret \/ found)
    /\ \/ AddOrUpdateVarnishSvc(w, addrs, load)
       \/ UNCHANGED <<svc, obj, admSecret, th>>

\* DeleteVarnishSvc, up to removeVarnishInstances.
DeleteVarnishSvc(w) ==
    /\ Call(w, "ServiceGone")
    /\ IF Known
       THEN Goto(w, LoopFrame("delete", svc, obj[svc].instances, FALSE))
       ELSE UNCHANGED th
    /\ UNCHANGED memory

\* UpdateSvcForSecret, up to updateVarnishSvc, with the secret known or not.
UpdateSvcForSecret(w, exists) ==
    IF ~Known /\ ~exists
    THEN UNCHANGED <<svc, obj, admSecret, th>>
    ELSE \E s \in IF Known THEN {svc} ELSE SvcRefs \ LiveSvcs :
            LET old == IF Known THEN obj[s] ELSE NewSvc
            IN  /\ svc' = s
                /\ obj' = [obj EXCEPT ![s] =
                                        [old EXCEPT !.secrName = exists]]
                /\ admSecret' = [i \in Insts |-> IF i \in old.instances
                                                 THEN exists ELSE admSecret[i]]
                /\ Goto(w, UpdateFrame)

SetAdmSecret == secret' = TRUE

DeleteAdmSecret == secret' = FALSE

\* The admin secret of the Varnish Service is added or updated.
syncSecret(w) ==
    /\ Call(w, "SyncSecret")
    /\ SetAdmSecret
    /\ UpdateSvcForSecret(w, TRUE)

\* The admin secret of the Varnish Service is deleted.
deleteSecret(w) ==
    /\ Call(w, "SecretGone")
    /\ DeleteAdmSecret
    /\ UpdateSvcForSecret(w, FALSE)

\* One turn of the monitor's loop: its checks run over the instances that
\* the service has now.
monitor ==
    /\ monIntvl > 0
    /\ th[Monitor].pc = "idle"
    /\ Known
    /\ Goto(Monitor, LoopFrame("check", svc, obj[svc].instances, FALSE))
    /\ UNCHANGED <<memory, admMtx, varnish, bounds>>

-----------------------------------------------------------------------------
(* The loops over instances.                                               *)

\* A service has what an update needs; the second form forgets the spec.
CanLoadWithoutSpec(s) == obj[s].secrName
CanLoad(s) == obj[s].secrName /\ obj[s].spec # NoSpec

\* updateVarnishSvc looks the service up again, and captures the spec's
\* configuration and the instances for its loop.
updateVarnishSvc(t) ==
    /\ th[t].pc = "update"
    /\ IF Known
       THEN /\ obj' = [obj EXCEPT ![svc].cfgLoaded = FALSE]
            /\ Goto(t, IF CanLoad(svc)
                       THEN [LoopFrame("update", svc, obj[svc].instances, FALSE)
                                EXCEPT !.cfg = obj[svc].spec]
                       ELSE Idle)
       ELSE Goto(t, Idle) /\ UNCHANGED obj
    /\ UNCHANGED <<svc, secret, admSecret, admMtx, varnish, bounds>>

\* Go on to instance i, unless it has no admin secret.
NextInst(t, i) ==
    /\ th[t].pc = "loop"
    /\ i \in th[t].todo
    /\ Goto(t, IF admSecret[i]
               THEN [th[t] EXCEPT !.pc = "connect", !.todo = @ \ {i}, !.inst = i]
               ELSE [th[t] EXCEPT !.todo = @ \ {i}, !.errs = TRUE])
    /\ UNCHANGED <<memory, admMtx, varnish, bounds>>

LoopDone(t, k) == th[t].pc = "loop" /\ th[t].todo = {} /\ th[t].kind = k

\* The end of updateVarnishSvc: the service is loaded if nothing failed.
EndUpdate(t) ==
    /\ LoopDone(t, "update")
    /\ obj' = IF th[t].errs THEN obj
                            ELSE [obj EXCEPT ![th[t].ref].cfgLoaded = TRUE]
    /\ Goto(t, Idle)
    /\ UNCHANGED <<svc, secret, admSecret, admMtx, varnish, bounds>>

\* The end of the monitor's checks; it updates the service in any case.
EndCheck(t) ==
    /\ LoopDone(t, "check")
    /\ Goto(t, UpdateFrame)
    /\ UNCHANGED <<memory, admMtx, varnish, bounds>>

\* The end of updateVarnishSvcAddrs, which may go on to updateVarnishSvc.
EndRemove(t) ==
    /\ LoopDone(t, "remove")
    /\ Goto(t, IF th[t].loadVCL THEN UpdateFrame ELSE Idle)
    /\ UNCHANGED <<memory, admMtx, varnish, bounds>>

\* The end of DeleteVarnishSvc: the service leaves the map if there were
\* errors, and stays in it if there were none.
EndDelete(t) ==
    /\ LoopDone(t, "delete")
    /\ svc' = IF th[t].errs THEN NoSvc ELSE svc
    /\ Goto(t, Idle)
    /\ UNCHANGED <<obj, secret, admSecret, admMtx, varnish, bounds>>

\* The end of SetNotReady.
EndNotReady(t) ==
    /\ LoopDone(t, "notReady")
    /\ Goto(t, Idle)
    /\ UNCHANGED <<memory, admMtx, varnish, bounds>>

-----------------------------------------------------------------------------
(* One instance: updateVarnishInstance, checkInst and setCfgLabel.         *)

here(t) == Addr(th[t].inst)

Fault == faults < MaxFaults /\ faults' = faults + 1 /\ UNCHANGED calls

\* What is left to do after the list of VCLs has been read.  Of the faulty
\* forms, the first takes a loaded configuration for a labelled one, the second
\* a labelled configuration for a ready one.
NeedOfLoadedIsLabelled(t) ==
    CASE th[t].kind = "update" ->
            (IF th[t].cfg \in loaded[here(t)] THEN {} ELSE {"load", "label"})
             \cup (IF ready[here(t)] THEN {} ELSE {"ready"})
      [] th[t].kind = "check" -> {}
      [] OTHER -> {"notReady"}

NeedOfLabelledIsReady(t) ==
    CASE th[t].kind = "update" ->
            (IF th[t].cfg \in loaded[here(t)] THEN {} ELSE {"load"})
             \cup (IF regular[here(t)] = th[t].cfg THEN {} ELSE {"label", "ready"})
      [] th[t].kind = "check" -> {}
      [] OTHER -> {"notReady"}

NeedOf(t) ==
    CASE th[t].kind = "update" ->
            (IF th[t].cfg \in loaded[here(t)] THEN {} ELSE {"load"})
             \cup (IF regular[here(t)] = th[t].cfg THEN {} ELSE {"label"})
             \cup (IF ready[here(t)] THEN {} ELSE {"ready"})
      [] th[t].kind = "check" -> {}
      [] OTHER -> {"notReady"}

\* The faulty form passes over instances that are not ready.
DropOfReady(t) ==
    IF th[t].kind = "check" /\ ready[here(t)] THEN cold[here(t)] ELSE {}
DropOf(t) == IF th[t].kind = "check" THEN cold[here(t)] ELSE {}

MutexIgnored(t) == TRUE
MutexFree(t) == admMtx[th[t].inst] = NoThread

\* Lock the admin mutex and dial; an update and a check then read the list
\* of VCLs.
Connect(t) ==
    /\ th[t].pc = "connect"
    /\ MutexFree(t)
    /\ admSecret[th[t].inst]
    /\ admMtx' = [admMtx EXCEPT ![th[t].inst] = t]
    /\ Goto(t, [th[t] EXCEPT !.pc = "command", !.conn = TRUE,
                             !.need = NeedOf(t), !.drop = DropOf(t)])
    /\ UNCHANGED <<memory, varnish, bounds>>

\* Losing the connection is no error to setCfgLabel with mayClose.
MayClose(t) == th[t].kind \in {"remove", "delete"}

NextFrame(t, failed) ==
    [th[t] EXCEPT !.pc = "loop", !.inst = NoInst, !.conn = FALSE,
                  !.need = {}, !.drop = {}, !.errs = @ \/ failed]

\* The connection, or one of the requests that only read, fails; the mutex
\* is free again.
ConnectFails(t) ==
    /\ th[t].pc = "connect"
    /\ MutexFree(t)
    /\ admSecret[th[t].inst]
    /\ Fault
    /\ Goto(t, NextFrame(t, ~MayClose(t)))
    /\ UNCHANGED <<memory, admMtx, varnish>>

Commanding(t) == th[t].pc = "command" /\ th[t].conn

VCLInline(t) ==
    /\ Commanding(t)
    /\ "load" \in th[t].need
    /\ th[t].cfg \notin loaded[here(t)]
    /\ loaded' = [loaded EXCEPT ![here(t)] = @ \cup {th[t].cfg}]
    /\ Goto(t, [th[t] EXCEPT !.need = @ \ {"load"}])
    /\ UNCHANGED <<memory, admMtx, cold, regular, ready, bounds>>

VCLLabelRegular(t) ==
    /\ Commanding(t)
    /\ "label" \in th[t].need
    /\ "load" \notin th[t].need
    /\ th[t].cfg \in loaded[here(t)]
    /\ regular' = [regular EXCEPT ![here(t)] = th[t].cfg]
    /\ cold' = [cold EXCEPT ![here(t)] = @ \ {th[t].cfg}]
    /\ Goto(t, [th[t] EXCEPT !.need = @ \ {"label"}])
    /\ UNCHANGED <<memory, admMtx, loaded, ready, bounds>>

\* vk8s_readiness is the last label, in the faulty form the first.
ReadyFirst(t) == "ready" \in th[t].need
ReadyLast(t) == th[t].need = {"ready"}

VCLLabelReady(t) ==
    /\ Commanding(t)
    /\ ReadyLast(t)
    /\ ready' = [ready EXCEPT ![here(t)] = TRUE]
    /\ Goto(t, [th[t] EXCEPT !.need = @ \ {"ready"}])
    /\ UNCHANGED <<memory, admMtx, loaded, cold, regular, bounds>>

VCLLabelNotReady(t) ==
    /\ Commanding(t)
    /\ th[t].need = {"notReady"}
    /\ ready' = [ready EXCEPT ![here(t)] = FALSE]
    /\ Goto(t, [th[t] EXCEPT !.need = {}])
    /\ UNCHANGED <<memory, admMtx, loaded, cold, regular, bounds>>

\* Varnish discards a VCL unless a label refers to it.
VCLDiscard(t, c) ==
    /\ Commanding(t)
    /\ c \in th[t].drop
    /\ c \in loaded[here(t)] /\ c # regular[here(t)]
    /\ loaded' = [loaded EXCEPT ![here(t)] = @ \ {c}]
    /\ cold' = [cold EXCEPT ![here(t)] = @ \ {c}]
    /\ Goto(t, [th[t] EXCEPT !.drop = @ \ {c}])
    /\ UNCHANGED <<memory, admMtx, regular, ready, bounds>>

\* Varnish refuses to load a name twice, to label a VCL that is not loaded,
\* and to discard one that is not loaded or that a label refers to.
Refused(t) ==
    LET f == th[t]
    IN  \/ "load" \in f.need /\ f.cfg \in loaded[here(t)]
        \/ "label" \in f.need /\ "load" \notin f.need
           /\ f.cfg \notin loaded[here(t)]
        \/ \E c \in f.drop : c \notin loaded[here(t)] \/ c = regular[here(t)]

\* The connection is closed and the mutex unlocked on every return; the faulty
\* form does not unlock when there was an error.
ReleaseOnSuccess(t, failed) ==
    /\ admMtx' = IF failed THEN admMtx
                            ELSE [admMtx EXCEPT ![th[t].inst] = NoThread]
    /\ Goto(t, NextFrame(t, failed))
    /\ UNCHANGED <<memory, varnish>>

Release(t, failed) ==
    /\ admMtx' = [admMtx EXCEPT ![th[t].inst] = NoThread]
    /\ Goto(t, NextFrame(t, failed))
    /\ UNCHANGED <<memory, varnish>>

Finish(t) ==
    /\ th[t].pc = "command"
    /\ th[t].need = {} /\ th[t].drop = {}
    /\ Release(t, FALSE)
    /\ UNCHANGED bounds

\* A command that ends at EOF because the connection is lost: an error,
\* unless Varnish may be shutting down.
ConnectionLost(t) ==
    /\ th[t].pc = "command"
    /\ th[t].need # {} \/ th[t].drop # {}
    /\ ~th[t].conn
    /\ Release(t, ~MayClose(t))
    /\ UNCHANGED bounds

\* A command that Varnish refuses.
CommandRefused(t) ==
    /\ Commanding(t)
    /\ Refused(t)
    /\ Release(t, TRUE)
    /\ UNCHANGED bounds

\* A command that fails in another way; setCfgLabel returns nil.
CommandFails(t) ==
    /\ Commanding(t)
    /\ th[t].need # {} \/ th[t].drop # {}
    /\ Fault
    /\ Release(t, th[t].kind \in {"update", "check"})

-----------------------------------------------------------------------------
(* Varnish and the process.                                                *)

\* A VCL that no label refers to is set to cold some time later.
Cool(a) ==
    /\ \E c \in loaded[a] \ (cold[a] \cup {regular[a]}) :
          cold' = [cold EXCEPT ![a] = @ \cup {c}]
    /\ UNCHANGED <<memory, admMtx, th, loaded, regular, ready, bounds>>

\* Varnish restarts with the configuration of start.cli and closes its
\* connections.
Restart(a) ==
    /\ Fault
    /\ loaded' = [loaded EXCEPT ![a] = {}]
    /\ cold' = [cold EXCEPT ![a] = {}]
    /\ regular' = [regular EXCEPT ![a] = NotAvail]
    /\ ready' = [ready EXCEPT ![a] = FALSE]
    /\ th' = [t \in Threads |->
                IF th[t].conn /\ here(t) = a THEN [th[t] EXCEPT !.conn = FALSE]
                                             ELSE th[t]]
    /\ UNCHANGED <<memory, admMtx>>

\* The controller's process ends; its successor knows nothing.
Exit ==
    /\ svc' = NoSvc
    /\ obj' = [s \in SvcRefs |-> NewSvc]
    /\ secret' = FALSE
    /\ admSecret' = [i \in Insts |-> FALSE]
    /\ admMtx' = [i \in Insts |-> NoThread]
    /\ th' = [t \in Threads |-> Idle]
    /\ UNCHANGED varnish

\* The process is stopped, or the runtime stops it (concurrent map access).
Crash == Known /\ Fault /\ Exit

\* nil dereferences: the spec in HasConfig, and the secret that was not nil
\* before the mutex was locked.
PanicHasConfig(w) ==
    /\ th[w].pc = "idle" /\ "SyncIngress" \in CallsOf[w] /\ calls < MaxCalls
    /\ Known /\ NilSpec(svc)
    /\ calls' = calls + 1 /\ UNCHANGED faults
    /\ Exit

PanicDial(t) ==
    /\ th[t].pc = "connect"
    /\ MutexFree(t)
    /\ ~admSecret[th[t].inst]
    /\ Exit
    /\ UNCHANGED bounds

-----------------------------------------------------------------------------

WorkerCall(w) ==
    \/ \E c \in Configs : addOrUpdateIng(w, c) \/ configLoaded(w, c)
    \/ SetNotReady(w)
    \/ \E addrs \in SUBSET Addrs, found, load \in BOOLEAN :
          syncSvc(w, addrs, found, load)
    \/ DeleteVarnishSvc(w)
    \/ syncSecret(w)
    \/ deleteSecret(w)
    \/ PanicHasConfig(w)

Instance(t) ==
    \/ VCLInline(t)
    \/ VCLLabelRegular(t)
    \/ VCLLabelReady(t)
    \/ VCLLabelNotReady(t)
    \/ \E c \in Configs : VCLDiscard(t, c)
    \/ Finish(t)
    \/ ConnectionLost(t)
    \/ CommandRefused(t)

Loop(t) ==
    \/ updateVarnishSvc(t)
    \/ \E i \in Insts : NextInst(t, i)
    \/ EndUpdate(t)
    \/ EndCheck(t)
    \/ EndRemove(t)
    \/ EndDelete(t)
    \/ EndNotReady(t)

Failure(t) == ConnectFails(t) \/ CommandFails(t) \/ PanicDial(t)

Environment == Crash \/ \E a \in Addrs : Cool(a) \/ Restart(a)

Next ==
    \/ \E w \in Workers : WorkerCall(w) \/ Update(w)
    \/ monitor
    \/ \E t \in Threads : Connect(t) \/ Instance(t) \/ Loop(t) \/ Failure(t)
    \/ Environment

Spec == Init /\ [][Next]_vars

\* Every goroutine goes on, and the mutexes are starvation-free, as those of
\* the Go runtime are: who waits for one that is released again and again
\* gets it.  No call, no failure and no cooling has to happen.
Fairness ==
    /\ WF_vars(monitor)
    /\ \A w \in Workers : WF_vars(Update(w))
    /\ \A t \in Threads : WF_vars(Loop(t)) /\ WF_vars(Instance(t))
                          /\ SF_vars(Connect(t) \/ PanicDial(t))

\* Unused VCLs get cold in the end.
CoolingFairness == \A a \in Addrs : WF_vars(Cool(a))

FairSpec == Spec /\ Fairness /\ CoolingFairness

-----------------------------------------------------------------------------
(* Properties.                                                             *)

\* The state has its type.
TypeOK ==
    /\ svc \in SvcRefs \cup {NoSvc}
    /\ obj \in [SvcRefs -> SvcObj]
    /\ secret \in BOOLEAN
    /\ admSecret \in [Insts -> BOOLEAN]
    /\ admMtx \in [Insts -> Threads \cup {NoThread}]
    /\ th \in [Threads -> Frame]
    /\ loaded \in [Addrs -> SUBSET Configs]
    /\ cold \in [Addrs -> SUBSET Configs]
    /\ regular \in [Addrs -> Configs \cup {NotAvail}]
    /\ ready \in [Addrs -> BOOLEAN]
    /\ calls \in Nat /\ faults \in Nat

\* A ready instance serves an Ingress configuration: whatever the goroutines
\* do to it at the same time, and wherever Varnish restarts between the
\* commands of updateVarnishInstance, the readiness probe is answered with
\* 200 only where regular traffic does not go to vk8s_notavailable.
ReadyImpliesConfigured ==
    \A a \in Addrs : ready[a] => regular[a] \in loaded[a]

\* Each step of the controller or of Varnish is a step of the instances'
\* specification, or changes no label: the refinement mapping is the identity
\* on the labels.
Instances == INSTANCE VarnishInstances
ImplementsInstances == Instances!Spec

\* The flags that updateVarnishInstance and checkInst derive from the list of
\* VCLs stay true until their commands are done: under the instance's mutex
\* no other goroutine loads, labels or discards what the list has shown.
\* The flags are the commands that are not needed (any more).
ListStaysValid ==
    \A t \in Threads :
        th[t].pc = "command" /\ th[t].conn =>
            LET f == th[t]
                a == Addr(f.inst)
            IN  /\ f.kind = "update" =>
                      /\ ("load" \in f.need) <=> (f.cfg \notin loaded[a])
                      /\ ("label" \in f.need) <=> (f.cfg # regular[a])
                      /\ ("ready" \in f.need) <=> ~ready[a]
                /\ f.drop \subseteq loaded[a] \ {regular[a]}

\* An admin connection is dialled with a secret: the check at the head of
\* updateVarnishInstance, setCfgLabel and checkInst is still true once the
\* mutex is locked.
DialHasSecret ==
    \A t \in Threads : th[t].pc = "connect" => admSecret[th[t].inst]

\* HasConfig finds a spec in a service that is marked as loaded.
HasConfigFindsSpec == Known => ~NilSpec(svc)

Quiet == \A t \in Threads : th[t].pc = "idle"

\* When HasConfig answers that a configuration is loaded, and no goroutine is
\* at work on it, every instance of the service serves it.
HasConfigMeansServed ==
    \A c \in Configs : HasConfig(c) /\ Quiet =>
        \A i \in obj[svc].instances : regular[Addr(i)] = c

\* When SetNotReady returns without an error, the service is not ready.
NotReadyWhenReturned ==
    \A w \in Workers : LoopDone(w, "notReady") /\ ~th[w].errs =>
        \A i \in obj[th[w].ref].instances : ~ready[Addr(i)]

\* When SetNotReady returns without an error, no instance of the service
\* directs regular traffic to an Ingress configuration any more.
NotServedWhenNotReady ==
    \A w \in Workers : LoopDone(w, "notReady") /\ ~th[w].errs =>
        \A i \in obj[th[w].ref].instances : regular[Addr(i)] = NotAvail

\* Once every call is made and DeleteVarnishSvc has returned without an
\* error, the deleted service's instances stay as they are: not ready.
DeletedStaysNotReady ==
    [](\A w \in Workers :
          LoopDone(w, "delete") /\ ~th[w].errs /\ calls = MaxCalls =>
            [](\A a \in Addrs : ~ready[a]))

\* The instances that the controller can administer.
Administered ==
    IF Known /\ obj[svc].secrName THEN {i \in obj[svc].instances : admSecret[i]}
                                  ELSE {}

\* After the last call and the last failure, and whatever happened before
\* (overlapping updates with different configurations, failed commands,
\* restarts of Varnish), the monitor brings every instance to the service's
\* present configuration and readiness, for good.
Converges ==
    <>[](\A i \in Administered : obj[svc].spec # NoSpec =>
            regular[Addr(i)] = obj[svc].spec /\ ready[Addr(i)])

\* The VCLs of replaced configurations do not pile up at an instance.
UnusedAreDiscarded ==
    <>[](\A i \in Administered : loaded[Addr(i)] \subseteq {regular[Addr(i)]})

\* Every call returns: no worker waits for ever for an instance's mutex,
\* although the monitor takes it again in each of its turns.
CallsReturn == \A w \in Workers : th[w].pc # "idle" ~> th[w].pc = "idle"
=============================================================================
