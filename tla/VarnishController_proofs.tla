---------------------- MODULE VarnishController_proofs ----------------------
(***************************************************************************)
(* Theorems about VarnishController, for any number of workers, addresses, *)
(* instance objects and configurations, any calls and any bounds.          *)
(***************************************************************************)
EXTENDS VarnishController, TLAPS

\* What the type of a frame does not say: a thread that administers an
\* instance has one, and only an update, which carries a configuration, loads
\* and labels configurations.
FrameOK(f) ==
    /\ f.pc \in {"connect", "command"} => f.inst \in Insts
    /\ f.pc = "store" => f.cfg \in Configs
    /\ f.pc \in {"loop", "connect", "command"} /\ f.kind = "update"
         => f.cfg \in Configs
    /\ f.need \cap {"load", "label", "ready"} # {} => f.kind = "update"
    /\ f.pc # "command" => f.need = {} /\ f.drop = {} /\ ~f.conn

TypeInv == TypeOK /\ \A t \in Threads : FrameOK(th[t])

-----------------------------------------------------------------------------
(* The frames that a step may put in place.                                *)

\* The idle frame and the frame of a call to updateVarnishSvc are well-formed.
LEMMA IdleFrames ==
    /\ Idle \in Frame /\ FrameOK(Idle)
    /\ UpdateFrame \in Frame /\ FrameOK(UpdateFrame)
BY DEF Idle, UpdateFrame, Frame, FrameOK, Kinds

\* A loop that carries no configuration starts with a well-formed frame.
LEMMA LoopFrameOK ==
    ASSUME NEW k \in Kinds \ {"update"}, NEW s \in SvcRefs,
           NEW insts \in SUBSET Insts, NEW load \in BOOLEAN
    PROVE  /\ LoopFrame(k, s, insts, load) \in Frame
           /\ FrameOK(LoopFrame(k, s, insts, load))
BY DEF LoopFrame, Idle, Frame, FrameOK, Kinds

\* updateVarnishSvc starts its loop with a well-formed frame.
LEMMA UpdateLoopOK ==
    ASSUME NEW s \in SvcRefs, NEW insts \in SUBSET Insts, NEW c \in Configs
    PROVE  LET f == [LoopFrame("update", s, insts, FALSE) EXCEPT !.cfg = c]
           IN  f \in Frame /\ FrameOK(f)
BY DEF LoopFrame, Idle, Frame, FrameOK, Kinds

\* Leaving an instance, with or without an error, gives a well-formed frame.
LEMMA NextFrameOK ==
    ASSUME TypeInv, NEW t \in Threads, NEW failed \in BOOLEAN,
           th[t].pc \in {"connect", "command"}
    PROVE  NextFrame(t, failed) \in Frame /\ FrameOK(NextFrame(t, failed))
<1>1. th[t] \in Frame /\ FrameOK(th[t])
  BY DEF TypeInv, TypeOK
<1> DEFINE f == th[t]
<1>2. /\ f \in Frame /\ f.pc \in {"connect", "command"}
      /\ f.kind = "update" => f.cfg \in Configs
  BY <1>1 DEF FrameOK
<1>3. NextFrame(t, failed) = [f EXCEPT !.pc = "loop", !.inst = NoInst,
         !.conn = FALSE, !.need = {}, !.drop = {}, !.errs = @ \/ failed]
  BY DEF NextFrame
<1> HIDE DEF f
<1>4. (f.errs \/ failed) \in BOOLEAN
  OBVIOUS
<1>5. NextFrame(t, failed) \in Frame
  BY <1>2, <1>3, <1>4 DEF Frame
<1>6. FrameOK(NextFrame(t, failed))
  BY <1>2, <1>3 DEF Frame, FrameOK
<1> QED
  BY <1>5, <1>6

\* Replacing one frame by a well-formed one leaves all of them well-formed.
LEMMA GotoOK ==
    ASSUME TypeInv, NEW t \in Threads, NEW f \in Frame, FrameOK(f), Goto(t, f)
    PROVE  th' \in [Threads -> Frame] /\ \A u \in Threads : FrameOK(th'[u])
BY DEF TypeInv, TypeOK, Goto

-----------------------------------------------------------------------------
(* Every step preserves TypeInv.                                           *)

\* TypeOK without the frames.
RestOK ==
    /\ svc \in SvcRefs \cup {NoSvc}
    /\ obj \in [SvcRefs -> SvcObj]
    /\ secret \in BOOLEAN
    /\ admSecret \in [Insts -> BOOLEAN]
    /\ admMtx \in [Insts -> Threads \cup {NoThread}]
    /\ loaded \in [Addrs -> SUBSET Configs]
    /\ cold \in [Addrs -> SUBSET Configs]
    /\ regular \in [Addrs -> Configs \cup {NotAvail}]
    /\ ready \in [Addrs -> BOOLEAN]
    /\ calls \in Nat /\ faults \in Nat

\* The type invariant is RestOK and well-formed frames.
LEMMA TypeInvParts ==
    TypeInv <=> /\ RestOK
                /\ th \in [Threads -> Frame]
                /\ \A t \in Threads : FrameOK(th[t])
BY DEF TypeInv, TypeOK, RestOK

\* A step that replaces one frame by a well-formed one, and keeps the rest in
\* its type, preserves the type invariant.
LEMMA GotoTypeInv ==
    ASSUME TypeInv, NEW t \in Threads, NEW f \in Frame, FrameOK(f), Goto(t, f),
           RestOK'
    PROVE  TypeInv'
BY GotoOK, TypeInvParts DEF TypeInv, TypeOK, RestOK

\* A known service is a service object.
LEMMA KnownSvc == TypeInv /\ Known => svc \in SvcRefs /\ obj[svc] \in SvcObj
BY DEF TypeInv, TypeOK, Known

\* A new service object has its type.
LEMMA NewSvcOK == NewSvc \in SvcObj
BY DEF NewSvc, SvcObj

\* The program starts well-typed.
LEMMA InitTypeInv == Init => TypeInv
<1> SUFFICES ASSUME Init PROVE TypeInv
  OBVIOUS
<1>1. RestOK
  BY NewSvcOK DEF Init, RestOK
<1>2. th \in [Threads -> Frame] /\ \A t \in Threads : FrameOK(th[t])
  BY IdleFrames DEF Init
<1> QED
  BY <1>1, <1>2, TypeInvParts

\* The end of the process leaves an empty memory.
LEMMA ExitTypeInv ==
    ASSUME TypeInv, Exit, calls' \in Nat, faults' \in Nat
    PROVE  TypeInv'
<1>1. RestOK'
  BY NewSvcOK DEF Exit, RestOK, varnish, TypeInv, TypeOK
<1>2. th' \in [Threads -> Frame] /\ \A t \in Threads : FrameOK(th'[t])
  BY IdleFrames DEF Exit
<1> QED
  BY <1>1, <1>2 DEF TypeInv, TypeOK, RestOK

\* The calls of the workers keep the type.
LEMMA WorkerCallTypeInv ==
    ASSUME TypeInv, NEW w \in Workers, WorkerCall(w)
    PROVE  TypeInv'
<1> w \in Threads
  BY DEF Threads
<1> USE DEF Call, memory, varnish, bounds
<1>1. CASE \E c \in Configs : addOrUpdateIng(w, c)
  <2>1. PICK c \in Configs : addOrUpdateIng(w, c)
    BY <1>1
  <2> DEFINE f == [Idle EXCEPT !.pc = "store", !.cfg = c]
  <2>2. f \in Frame /\ FrameOK(f)
    BY DEF Idle, Frame, FrameOK, Kinds
  <2>3. RestOK'
    BY <2>1 DEF addOrUpdateIng, RestOK, TypeInv, TypeOK
  <2>4. Goto(w, f)
    BY <2>1 DEF addOrUpdateIng
  <2> HIDE DEF f
  <2> QED
    BY <2>2, <2>3, <2>4, GotoTypeInv
<1>2. CASE \E c \in Configs : configLoaded(w, c)
  BY <1>2 DEF configLoaded, TypeInv, TypeOK
<1>3. CASE SetNotReady(w)
  <2>1. CASE Known
    <3>1. RestOK'
      BY <1>3, <2>1 DEF SetNotReady, RestOK, TypeInv, TypeOK, SvcObj
    <3> DEFINE f == LoopFrame("notReady", svc, obj[svc].instances, FALSE)
    <3>2. f \in Frame /\ FrameOK(f)
      <4>1. obj[svc].instances \in SUBSET Insts /\ svc \in SvcRefs
        BY <2>1, KnownSvc DEF SvcObj
      <4>2. "notReady" \in Kinds \ {"update"}
        BY DEF Kinds
      <4> QED
        BY <4>1, <4>2, LoopFrameOK
    <3>3. Goto(w, f)
      BY <1>3, <2>1 DEF SetNotReady
    <3> HIDE DEF f
    <3> QED
      BY <3>1, <3>2, <3>3, GotoTypeInv
  <2>2. CASE ~Known
    BY <1>3, <2>2 DEF SetNotReady, TypeInv, TypeOK
  <2> QED
    BY <2>1, <2>2
<1>4. CASE \E addrs \in SUBSET Addrs, found, load \in BOOLEAN :
              syncSvc(w, addrs, found, load)
  <2>1. PICK addrs \in SUBSET Addrs, found \in BOOLEAN, load \in BOOLEAN :
               syncSvc(w, addrs, found, load)
    BY <1>4
  <2>2. /\ secret' = (secret \/ found)
        /\ calls' = calls + 1
        /\ UNCHANGED <<faults, varnish, admMtx>>
    BY <2>1 DEF syncSvc
  <2>3. secret' \in BOOLEAN
    BY <2>2 DEF TypeInv, TypeOK
  <2>4. CASE UNCHANGED <<svc, obj, admSecret, th>>
    BY <2>2, <2>3, <2>4 DEF TypeInv, TypeOK
  <2>5. CASE AddOrUpdateVarnishSvc(w, addrs, load)
    <3>1. PICK s \in (IF Known THEN {svc} ELSE SvcRefs \ LiveSvcs),
               new \in SUBSET (Insts \ LiveInsts) :
            LET old == IF Known THEN obj[s] ELSE NewSvc
            IN  /\ svc' = s
                /\ admSecret' = [i \in Insts |-> IF i \in old.instances \cup new
                                                 THEN secret' ELSE admSecret[i]]
                /\ updateVarnishSvcAddrs(w, s, old, new, addrs, load)
      BY <2>5 DEF AddOrUpdateVarnishSvc
    <3> DEFINE old == IF Known THEN obj[s] ELSE NewSvc
               keep == {i \in old.instances : Addr(i) \in addrs}
               f == LoopFrame("remove", s, old.instances \ keep, load)
    <3>2. s \in SvcRefs /\ old \in SvcObj
      BY KnownSvc, NewSvcOK
    <3>3. old.instances \in SUBSET Insts /\ keep \in SUBSET Insts
      BY <3>2 DEF SvcObj
    <3>4. f \in Frame /\ FrameOK(f)
      <4>1. "remove" \in Kinds \ {"update"}
        BY DEF Kinds
      <4> QED
        BY <3>2, <3>3, <4>1, LoopFrameOK
    <3>5. /\ svc' = s
          /\ obj' = [obj EXCEPT ![s] = [old EXCEPT !.instances = keep \cup new,
                                                   !.secrName = TRUE]]
          /\ admSecret' = [i \in Insts |-> IF i \in old.instances \cup new
                                           THEN secret' ELSE admSecret[i]]
          /\ Goto(w, f)
      BY <3>1 DEF updateVarnishSvcAddrs
    <3> HIDE DEF old, f
    <3>6. [old EXCEPT !.instances = keep \cup new, !.secrName = TRUE] \in SvcObj
      BY <3>2, <3>3 DEF SvcObj
    <3>7. RestOK'
      BY <2>2, <2>3, <3>2, <3>5, <3>6 DEF RestOK, TypeInv, TypeOK
    <3> QED
      BY <3>4, <3>5, <3>7, GotoTypeInv
  <2> QED
    BY <2>1, <2>4, <2>5 DEF syncSvc
<1>5. CASE DeleteVarnishSvc(w)
  <2>1. CASE Known
    <3>1. RestOK'
      BY <1>5 DEF DeleteVarnishSvc, RestOK, TypeInv, TypeOK
    <3> DEFINE f == LoopFrame("delete", svc, obj[svc].instances, FALSE)
    <3>2. f \in Frame /\ FrameOK(f)
      <4>1. obj[svc].instances \in SUBSET Insts /\ svc \in SvcRefs
        BY <2>1, KnownSvc DEF SvcObj
      <4>2. "delete" \in Kinds \ {"update"}
        BY DEF Kinds
      <4> QED
        BY <4>1, <4>2, LoopFrameOK
    <3>3. Goto(w, f)
      BY <1>5, <2>1 DEF DeleteVarnishSvc
    <3> HIDE DEF f
    <3> QED
      BY <3>1, <3>2, <3>3, GotoTypeInv
  <2>2. CASE ~Known
    BY <1>5, <2>2 DEF DeleteVarnishSvc, TypeInv, TypeOK
  <2> QED
    BY <2>1, <2>2
<1>6. ASSUME NEW e \in BOOLEAN, UpdateSvcForSecret(w, e), secret' = e,
             calls' = calls + 1, UNCHANGED <<faults, varnish, admMtx>>
      PROVE  TypeInv'
  <2>1. CASE ~Known /\ ~e
    BY <1>6, <2>1 DEF UpdateSvcForSecret, TypeInv, TypeOK
  <2>2. CASE ~(~Known /\ ~e)
    <3>1. PICK s \in (IF Known THEN {svc} ELSE SvcRefs \ LiveSvcs) :
            LET old == IF Known THEN obj[s] ELSE NewSvc
            IN  /\ svc' = s
                /\ obj' = [obj EXCEPT ![s] = [old EXCEPT !.secrName = e]]
                /\ admSecret' = [i \in Insts |-> IF i \in old.instances
                                                 THEN e ELSE admSecret[i]]
                /\ Goto(w, UpdateFrame)
      BY <1>6, <2>2 DEF UpdateSvcForSecret
    <3>2. s \in SvcRefs /\ (IF Known THEN obj[s] ELSE NewSvc) \in SvcObj
      BY KnownSvc, NewSvcOK
    <3>3. [IF Known THEN obj[s] ELSE NewSvc EXCEPT !.secrName = e] \in SvcObj
      BY <3>2 DEF SvcObj
    <3>4. RestOK'
      BY <1>6, <3>1, <3>2, <3>3 DEF RestOK, TypeInv, TypeOK
    <3> QED
      BY <3>1, <3>4, IdleFrames, GotoTypeInv
  <2> QED
    BY <2>1, <2>2
<1>7. CASE syncSecret(w) \/ deleteSecret(w)
  BY <1>6, <1>7 DEF syncSecret, deleteSecret, SetAdmSecret, DeleteAdmSecret
<1>8. CASE PanicHasConfig(w)
  <2>1. calls' \in Nat /\ faults' \in Nat
    BY <1>8 DEF PanicHasConfig, TypeInv, TypeOK
  <2> QED
    BY <1>8, <2>1, ExitTypeInv DEF PanicHasConfig
<1> QED
  BY <1>1, <1>2, <1>3, <1>4, <1>5, <1>7, <1>8 DEF WorkerCall

\* A thread's frame and the instance it administers.
LEMMA FrameFacts ==
    ASSUME TypeInv, NEW t \in Threads
    PROVE  /\ th[t] \in Frame /\ FrameOK(th[t])
           /\ th[t].pc \in {"connect", "command"} => here(t) \in Addrs
BY DEF TypeInv, TypeOK, FrameOK, here, Addr, Insts

\* Update and the monitor's turn keep the type.
LEMMA StartTypeInv ==
    ASSUME TypeInv, monitor \/ \E w \in Workers : Update(w)
    PROVE  TypeInv'
<1> USE DEF memory, varnish, bounds
<1>1. CASE monitor
  <2> DEFINE f == LoopFrame("check", svc, obj[svc].instances, FALSE)
  <2>1. f \in Frame /\ FrameOK(f)
    <3>1. obj[svc].instances \in SUBSET Insts /\ svc \in SvcRefs
      BY <1>1, KnownSvc DEF SvcObj, monitor
    <3>2. "check" \in Kinds \ {"update"}
      BY DEF Kinds
    <3> QED
      BY <3>1, <3>2, LoopFrameOK
  <2>2. Goto(Monitor, f) /\ RestOK' /\ Monitor \in Threads
    BY <1>1 DEF monitor, RestOK, TypeInv, TypeOK, Threads
  <2> HIDE DEF f
  <2> QED
    BY <2>1, <2>2, GotoTypeInv
<1>2. ASSUME NEW w \in Workers, Update(w)
      PROVE  TypeInv'
  <2>1. w \in Threads /\ th[w].cfg \in Configs
    BY <1>2, FrameFacts DEF Update, Threads, FrameOK
  <2>2. PICK s \in (IF Known THEN {svc} ELSE SvcRefs \ LiveSvcs) :
          LET old == IF Known THEN obj[s] ELSE NewSvc
          IN  /\ svc' = s
              /\ obj' = [obj EXCEPT ![s] =
                          [old EXCEPT !.spec = th[w].cfg, !.cfgLoaded = FALSE]]
              /\ Goto(w, IF old.instances = {} THEN Idle ELSE UpdateFrame)
    BY <1>2 DEF Update
  <2> DEFINE old == IF Known THEN obj[s] ELSE NewSvc
  <2>3. s \in SvcRefs /\ old \in SvcObj
    BY KnownSvc, NewSvcOK
  <2>4. [old EXCEPT !.spec = th[w].cfg, !.cfgLoaded = FALSE] \in SvcObj
    <3> HIDE DEF old
    <3> QED BY <2>1, <2>3 DEF SvcObj
  <2>5. RestOK'
    BY <1>2, <2>2, <2>3, <2>4 DEF Update, RestOK, TypeInv, TypeOK
  <2>6. CASE old.instances = {}
    BY <2>1, <2>2, <2>5, <2>6, IdleFrames, GotoTypeInv
  <2>7. CASE old.instances # {}
    BY <2>1, <2>2, <2>5, <2>7, IdleFrames, GotoTypeInv
  <2> QED
    BY <2>6, <2>7
<1> QED
  BY <1>1, <1>2

\* The loops over instances keep the type.
LEMMA LoopTypeInv ==
    ASSUME TypeInv, NEW t \in Threads, Loop(t)
    PROVE  TypeInv'
<1> USE DEF memory, varnish, bounds
<1>1. CASE updateVarnishSvc(t)
  <2>1. CASE Known
    <3>1. svc \in SvcRefs /\ obj[svc] \in SvcObj
      BY <2>1, KnownSvc
    <3>2. RestOK'
      <4>1. /\ obj' = [obj EXCEPT ![svc].cfgLoaded = FALSE]
            /\ UNCHANGED <<svc, secret, admSecret, admMtx, varnish, bounds>>
        BY <1>1, <2>1 DEF updateVarnishSvc
      <4>2. obj' \in [SvcRefs -> SvcObj]
        BY <3>1, <4>1 DEF TypeInv, TypeOK, SvcObj
      <4> QED
        BY <4>1, <4>2 DEF RestOK, TypeInv, TypeOK
    <3>3. CASE CanLoad(svc)
      <4> DEFINE f == [LoopFrame("update", svc, obj[svc].instances, FALSE)
                         EXCEPT !.cfg = obj[svc].spec]
      <4>1. obj[svc].instances \in SUBSET Insts /\ obj[svc].spec \in Configs
        BY <3>1, <3>3 DEF CanLoad, SvcObj
      <4>2. f \in Frame /\ FrameOK(f)
        BY <3>1, <4>1, UpdateLoopOK
      <4>3. Goto(t, f)
        BY <1>1, <2>1, <3>3 DEF updateVarnishSvc
      <4> HIDE DEF f
      <4> QED
        BY <3>2, <4>2, <4>3, GotoTypeInv
    <3>4. CASE ~CanLoad(svc)
      <4>1. Goto(t, Idle)
        BY <1>1, <2>1, <3>4 DEF updateVarnishSvc
      <4> QED
        BY <3>2, <4>1, IdleFrames, GotoTypeInv
    <3> QED
      BY <3>3, <3>4
  <2>2. CASE ~Known
    <3>1. Goto(t, Idle) /\ RestOK'
      BY <1>1, <2>2 DEF updateVarnishSvc, RestOK, TypeInv, TypeOK
    <3> QED
      BY <3>1, IdleFrames, GotoTypeInv
  <2> QED
    BY <2>1, <2>2
<1>2. ASSUME NEW i \in Insts, NextInst(t, i)
      PROVE  TypeInv'
  <2> DEFINE f == IF admSecret[i]
               THEN [th[t] EXCEPT !.pc = "connect", !.todo = @ \ {i}, !.inst = i]
               ELSE [th[t] EXCEPT !.todo = @ \ {i}, !.errs = TRUE]
             g == th[t]
  <2>1. g \in Frame /\ FrameOK(g) /\ g.pc = "loop"
    BY <1>2, FrameFacts DEF NextInst
  <2>2. [g EXCEPT !.pc = "connect", !.todo = @ \ {i}, !.inst = i] \in Frame
    <3> HIDE DEF g
    <3> QED BY <2>1 DEF Frame
  <2>3. FrameOK([g EXCEPT !.pc = "connect", !.todo = @ \ {i}, !.inst = i])
    <3> HIDE DEF g
    <3> QED BY <2>1 DEF Frame, FrameOK
  <2>4. [g EXCEPT !.todo = @ \ {i}, !.errs = TRUE] \in Frame
    <3> HIDE DEF g
    <3> QED BY <2>1 DEF Frame
  <2>5. FrameOK([g EXCEPT !.todo = @ \ {i}, !.errs = TRUE])
    <3> HIDE DEF g
    <3> QED BY <2>1 DEF Frame, FrameOK
  <2>6. Goto(t, f) /\ RestOK'
    BY <1>2 DEF NextInst, RestOK, TypeInv, TypeOK
  <2>7. f \in Frame /\ FrameOK(f)
    BY <2>2, <2>3, <2>4, <2>5
  <2> HIDE DEF f
  <2> QED
    BY <2>6, <2>7, GotoTypeInv
<1>3. CASE EndUpdate(t)
  <2>1. Goto(t, Idle)
    BY <1>3 DEF EndUpdate
  <2>2. RestOK'
    BY <1>3 DEF EndUpdate, RestOK, TypeInv, TypeOK, SvcObj
  <2> QED
    BY <2>1, <2>2, IdleFrames, GotoTypeInv
<1>4. CASE EndCheck(t) \/ EndRemove(t) \/ EndDelete(t) \/ EndNotReady(t)
  <2>1. Goto(t, Idle) \/ Goto(t, UpdateFrame)
    BY <1>4 DEF EndCheck, EndRemove, EndDelete, EndNotReady
  <2>2. RestOK'
    BY <1>4 DEF EndCheck, EndRemove, EndDelete, EndNotReady,
                RestOK, TypeInv, TypeOK
  <2> QED
    BY <2>1, <2>2, IdleFrames, GotoTypeInv
<1> QED
  BY <1>1, <1>2, <1>3, <1>4 DEF Loop

\* What is done at an instance keeps the type.
LEMMA InstanceTypeInv ==
    ASSUME TypeInv, NEW t \in Threads, Connect(t) \/ Instance(t) \/ Failure(t)
    PROVE  TypeInv'
<1> USE DEF memory, varnish, bounds
<1> DEFINE f == th[t]
<1>1. f \in Frame /\ FrameOK(f)
  BY FrameFacts
<1>2. f.pc \in {"connect", "command"} => here(t) \in Addrs
  BY FrameFacts
<1>3. ASSUME f.pc = "command", NEW n \in SUBSET f.need, NEW d \in SUBSET f.drop,
             Goto(t, [f EXCEPT !.need = n, !.drop = d]), RestOK'
      PROVE  TypeInv'
  <2> DEFINE g == [f EXCEPT !.need = n, !.drop = d]
  <2>1. g \in Frame /\ FrameOK(g)
    <3> HIDE DEF f
    <3> QED BY <1>1, <1>3 DEF Frame, FrameOK
  <2> HIDE DEF g
  <2> QED
    BY <1>3, <2>1, GotoTypeInv DEF g
<1>4. CASE Connect(t)
  <2> DEFINE g == [f EXCEPT !.pc = "command", !.conn = TRUE,
                            !.need = NeedOf(t), !.drop = DropOf(t)]
  <2>1. /\ NeedOf(t) \in SUBSET Commands
        /\ NeedOf(t) \cap {"load", "label", "ready"} # {} => f.kind = "update"
    BY <1>1 DEF NeedOf, Commands, Frame, Kinds
  <2>2. DropOf(t) \in SUBSET Configs
    BY <1>2, <1>4 DEF DropOf, Connect, TypeInv, TypeOK
  <2>3. f.pc = "connect"
    BY <1>4 DEF Connect
  <2>4. g \in Frame /\ FrameOK(g)
    <3> HIDE DEF f
    <3> QED BY <1>1, <2>1, <2>2, <2>3 DEF Frame, FrameOK
  <2>5. Goto(t, g)
    BY <1>4 DEF Connect
  <2>6. RestOK'
    BY <1>4 DEF Connect, RestOK, TypeInv, TypeOK
  <2> HIDE DEF g
  <2> QED
    BY <2>4, <2>5, <2>6, GotoTypeInv
<1>5. CASE VCLInline(t)
  <2>1. f.pc = "command" /\ f.cfg \in Configs /\ here(t) \in Addrs
    BY <1>1, <1>2, <1>5 DEF VCLInline, Commanding, FrameOK
  <2>2. RestOK'
    BY <1>5, <2>1 DEF VCLInline, RestOK, TypeInv, TypeOK
  <2>3. Goto(t, [f EXCEPT !.need = @ \ {"load"}, !.drop = f.drop])
    BY <1>1, <1>5 DEF VCLInline, Goto, Frame
  <2> QED
    BY <1>3, <2>1, <2>2, <2>3
<1>6. CASE VCLLabelRegular(t)
  <2>1. f.pc = "command" /\ f.cfg \in Configs /\ here(t) \in Addrs
    BY <1>1, <1>2, <1>6 DEF VCLLabelRegular, Commanding, FrameOK
  <2>2. RestOK'
    BY <1>6, <2>1 DEF VCLLabelRegular, RestOK, TypeInv, TypeOK
  <2>3. Goto(t, [f EXCEPT !.need = @ \ {"label"}, !.drop = f.drop])
    BY <1>1, <1>6 DEF VCLLabelRegular, Goto, Frame
  <2> QED
    BY <1>3, <2>1, <2>2, <2>3
<1>7. CASE VCLLabelReady(t) \/ VCLLabelNotReady(t)
  <2>1. f.pc = "command" /\ here(t) \in Addrs
    BY <1>2, <1>7 DEF VCLLabelReady, VCLLabelNotReady, Commanding
  <2>2. RestOK'
    BY <1>7, <2>1 DEF VCLLabelReady, VCLLabelNotReady, RestOK, TypeInv, TypeOK
  <2>3. \/ Goto(t, [f EXCEPT !.need = f.need \ {"ready"}, !.drop = f.drop])
        \/ Goto(t, [f EXCEPT !.need = {}, !.drop = f.drop])
    BY <1>1, <1>7 DEF VCLLabelReady, VCLLabelNotReady, Goto, Frame
  <2> QED
    BY <1>3, <2>1, <2>2, <2>3
<1>8. ASSUME NEW c \in Configs, VCLDiscard(t, c)
      PROVE  TypeInv'
  <2>1. f.pc = "command" /\ here(t) \in Addrs
    BY <1>2, <1>8 DEF VCLDiscard, Commanding
  <2>2. RestOK'
    BY <1>8, <2>1 DEF VCLDiscard, RestOK, TypeInv, TypeOK
  <2>3. Goto(t, [f EXCEPT !.need = f.need, !.drop = f.drop \ {c}])
    BY <1>1, <1>8 DEF VCLDiscard, Goto, Frame
  <2> QED
    BY <1>3, <2>1, <2>2, <2>3
<1>9. ASSUME NEW failed \in BOOLEAN, f.pc \in {"connect", "command"},
             Goto(t, NextFrame(t, failed)), RestOK'
      PROVE  TypeInv'
  BY <1>9, NextFrameOK, GotoTypeInv
<1>10. ASSUME NEW failed \in BOOLEAN, Release(t, failed), f.pc = "command",
              calls' \in Nat, faults' \in Nat
       PROVE  TypeInv'
  <2>1. RestOK'
    BY <1>10 DEF Release, RestOK, TypeInv, TypeOK
  <2> QED
    BY <1>9, <1>10, <2>1 DEF Release
<1>11. CASE Finish(t) \/ ConnectionLost(t) \/ CommandRefused(t)
            \/ CommandFails(t)
  <2>1. f.pc = "command"
    BY <1>11 DEF Finish, ConnectionLost, CommandRefused, CommandFails, Commanding
  <2>4. UNCHANGED bounds \/ Fault
    BY <1>11 DEF Finish, ConnectionLost, CommandRefused, CommandFails
  <2>5. calls' \in Nat /\ faults' \in Nat
    BY <2>4 DEF Fault, TypeInv, TypeOK
  <2>2. (~MayClose(t)) \in BOOLEAN /\ (f.kind \in {"update", "check"}) \in BOOLEAN
    BY DEF MayClose
  <2>3. \/ Release(t, FALSE) \/ Release(t, TRUE) \/ Release(t, ~MayClose(t))
        \/ Release(t, f.kind \in {"update", "check"})
    BY <1>11 DEF Finish, ConnectionLost, CommandRefused, CommandFails
  <2> QED
    BY <1>10, <2>1, <2>2, <2>3, <2>5
<1>13. CASE ConnectFails(t)
  <2>1. RestOK' /\ f.pc = "connect"
    BY <1>13 DEF ConnectFails, Fault, RestOK, TypeInv, TypeOK
  <2>2. Goto(t, NextFrame(t, ~MayClose(t))) /\ (~MayClose(t)) \in BOOLEAN
    BY <1>13 DEF ConnectFails, MayClose
  <2> QED
    BY <1>9, <2>1, <2>2
<1>12. CASE PanicDial(t)
  BY <1>12, ExitTypeInv DEF PanicDial, TypeInv, TypeOK
<1> QED
  BY <1>4, <1>5, <1>6, <1>7, <1>8, <1>11, <1>12, <1>13 DEF Instance, Failure

\* Varnish and the end of the process keep the type.
LEMMA EnvironmentTypeInv ==
    ASSUME TypeInv, Environment
    PROVE  TypeInv'
<1> USE DEF memory, varnish, bounds
<1>1. CASE Crash
  BY <1>1, ExitTypeInv DEF Crash, Fault, TypeInv, TypeOK
<1>2. ASSUME NEW a \in Addrs, Cool(a)
      PROVE  TypeInv'
  BY <1>2 DEF Cool, TypeInv, TypeOK
<1>3. ASSUME NEW a \in Addrs, Restart(a)
      PROVE  TypeInv'
  <2>1. RestOK'
    BY <1>3 DEF Restart, Fault, RestOK, TypeInv, TypeOK
  <2>2. ASSUME NEW t \in Threads
        PROVE  /\ [th[t] EXCEPT !.conn = FALSE] \in Frame
               /\ FrameOK([th[t] EXCEPT !.conn = FALSE])
    <3> DEFINE f == th[t]
    <3>1. f \in Frame /\ FrameOK(f)
      BY FrameFacts
    <3> HIDE DEF f
    <3>2. [f EXCEPT !.conn = FALSE] \in Frame /\ FrameOK([f EXCEPT !.conn = FALSE])
      BY <3>1 DEF Frame, FrameOK
    <3> QED
      BY <3>2 DEF f
  <2>3. th' \in [Threads -> Frame] /\ \A t \in Threads : FrameOK(th'[t])
    BY <1>3, <2>2, FrameFacts DEF Restart
  <2> QED
    BY <2>1, <2>3 DEF TypeInv, TypeOK, RestOK
<1> QED
  BY <1>1, <1>2, <1>3 DEF Environment

\* The type invariant is inductive.
LEMMA NextTypeInv == TypeInv /\ [Next]_vars => TypeInv'
<1> SUFFICES ASSUME TypeInv, [Next]_vars PROVE TypeInv'
  OBVIOUS
<1>1. CASE UNCHANGED vars
  BY <1>1 DEF vars, TypeInv, TypeOK
<1>2. CASE Next
  BY <1>2, WorkerCallTypeInv, StartTypeInv, LoopTypeInv, InstanceTypeInv,
     EnvironmentTypeInv DEF Next
<1> QED
  BY <1>1, <1>2

\* Type correctness of the controller and of the Varnish instances.
THEOREM TypeCorrect == Spec => []TypeOK
<1>1. Spec => []TypeInv
  BY InitTypeInv, NextTypeInv, PTL DEF Spec
<1>2. TypeInv => TypeOK
  BY DEF TypeInv
<1> QED
  BY <1>1, <1>2, PTL

-----------------------------------------------------------------------------
(* Readiness.  The invariant says what the label of readiness rests on: the *)
(* regular label points to a loaded configuration or to vk8s_notavailable, *)
(* to the latter only where the instance is not ready, and not any more    *)
(* when only the label of readiness is left to be set in a connection.     *)

RegularIsLoaded == \A a \in Addrs : regular[a] \in loaded[a] \cup {NotAvail}

ReadyIsConfigured == \A a \in Addrs : ready[a] => regular[a] # NotAvail

LabelledBeforeReady ==
    \A t \in Threads :
        /\ th[t].pc = "command" /\ th[t].conn
        /\ "ready" \in th[t].need /\ "label" \notin th[t].need
        => regular[here(t)] # NotAvail

LabelsInv == RegularIsLoaded /\ ReadyIsConfigured /\ LabelledBeforeReady

\* The steps that change a label or a list of VCLs.
Labelling(t) ==
    \/ VCLInline(t) \/ VCLLabelRegular(t)
    \/ VCLLabelReady(t) \/ VCLLabelNotReady(t)
    \/ \E c \in Configs : VCLDiscard(t, c)

\* A step that changes no label puts only frames in place that keep what
\* LabelledBeforeReady says of them: a frame is not at its commands, or it is
\* as before, or it has just been connected.
Unlabelling(t) ==
    \/ WorkerCall(t) \/ Update(t) \/ Loop(t) \/ Failure(t) \/ Finish(t)
    \/ ConnectionLost(t) \/ CommandRefused(t) \/ (t = Monitor /\ monitor)

\* Every step of Next is one of these.
LEMMA NextCases ==
    Next => \/ \E t \in Threads : Unlabelling(t)
            \/ \E t \in Threads : Connect(t)
            \/ \E t \in Threads : Labelling(t)
            \/ Crash
            \/ \E a \in Addrs : Cool(a) \/ Restart(a)
BY DEF Next, Instance, Unlabelling, Labelling, Environment, Threads

\* Outside of the commands, Varnish is left alone, and no thread comes to its
\* commands or changes what is left of them.
LEMMA UnlabellingFrames ==
    ASSUME TypeInv, NEW t \in Threads, Unlabelling(t)
    PROVE  /\ UNCHANGED varnish
           /\ \A u \in Threads : th'[u] = th[u] \/ th'[u].pc # "command"
<1> USE DEF memory, bounds
<1>1. Idle.pc = "idle" /\ UpdateFrame.pc = "update"
  BY DEF Idle, UpdateFrame
<1>2. \A k, s, i, l : LoopFrame(k, s, i, l).pc = "loop"
  BY DEF LoopFrame, Idle
<1>3. ASSUME NEW f, Goto(t, f), f.pc # "command"
      PROVE  \A u \in Threads : th'[u] = th[u] \/ th'[u].pc # "command"
  BY <1>3 DEF Goto, TypeInv, TypeOK
<1>4. ASSUME th' = th
      PROVE  \A u \in Threads : th'[u] = th[u] \/ th'[u].pc # "command"
  BY <1>4
<1>5. ASSUME Exit
      PROVE  \A u \in Threads : th'[u] = th[u] \/ th'[u].pc # "command"
  BY <1>1, <1>5 DEF Exit
<1>6. CASE WorkerCall(t)
  <2>1. UNCHANGED varnish
    BY <1>6 DEF WorkerCall, addOrUpdateIng, configLoaded, SetNotReady,
         syncSvc, DeleteVarnishSvc, syncSecret, deleteSecret,
         PanicHasConfig, Exit, Call
  <2>2. CASE \E c \in Configs : addOrUpdateIng(t, c)
    <3>1. \A c : [Idle EXCEPT !.pc = "store", !.cfg = c].pc = "store"
      BY DEF Idle
    <3> QED
      BY <1>3, <2>1, <2>2, <3>1 DEF addOrUpdateIng
  <2>3. CASE \E c \in Configs : configLoaded(t, c)
    BY <1>4, <2>1, <2>3 DEF configLoaded
  <2>4. CASE SetNotReady(t)
    BY <1>2, <1>3, <1>4, <2>1, <2>4 DEF SetNotReady
  <2>5. CASE \E addrs \in SUBSET Addrs, found, load \in BOOLEAN :
                syncSvc(t, addrs, found, load)
    <3>1. (\E k, s, i, l : Goto(t, LoopFrame(k, s, i, l))) \/ th' = th
      BY <2>5 DEF syncSvc, AddOrUpdateVarnishSvc, updateVarnishSvcAddrs
    <3> QED
      BY <1>2, <1>3, <1>4, <2>1, <3>1
  <2>6. CASE DeleteVarnishSvc(t)
    BY <1>2, <1>3, <1>4, <2>1, <2>6 DEF DeleteVarnishSvc
  <2>7. CASE syncSecret(t) \/ deleteSecret(t)
    BY <1>1, <1>3, <1>4, <2>1, <2>7
       DEF syncSecret, deleteSecret, UpdateSvcForSecret
  <2>8. CASE PanicHasConfig(t)
    BY <1>5, <2>1, <2>8 DEF PanicHasConfig
  <2> QED
    BY <1>6, <2>2, <2>3, <2>4, <2>5, <2>6, <2>7, <2>8 DEF WorkerCall
<1>7. CASE Update(t) \/ (t = Monitor /\ monitor)
  <2>1. UNCHANGED varnish
    BY <1>7 DEF Update, monitor
  <2>2. CASE Update(t)
    <3>1. Goto(t, Idle) \/ Goto(t, UpdateFrame)
      BY <2>2 DEF Update
    <3> QED
      BY <1>1, <1>3, <2>1, <3>1
  <2>3. CASE t = Monitor /\ monitor
    BY <1>2, <1>3, <2>1, <2>3 DEF monitor
  <2> QED
    BY <1>7, <2>2, <2>3
<1>8. CASE Loop(t)
  <2>1. UNCHANGED varnish
    BY <1>8 DEF Loop, updateVarnishSvc, NextInst, EndUpdate, EndCheck,
         EndRemove, EndDelete, EndNotReady
  <2>2. CASE updateVarnishSvc(t)
    <3>1. \A c, s, i : [LoopFrame("update", s, i, FALSE) EXCEPT !.cfg = c].pc
                         = "loop"
      BY DEF LoopFrame, Idle
    <3> QED
      BY <1>1, <1>3, <2>1, <2>2, <3>1 DEF updateVarnishSvc
  <2>3. ASSUME NEW i \in Insts, NextInst(t, i)
        PROVE  \A u \in Threads : th'[u] = th[u] \/ th'[u].pc # "command"
    <3> DEFINE f == th[t]
    <3>1. f \in Frame /\ f.pc = "loop"
      BY <2>3, FrameFacts DEF NextInst
    <3>2. /\ [f EXCEPT !.pc = "connect", !.todo = @ \ {i}, !.inst = i].pc
                = "connect"
          /\ [f EXCEPT !.todo = @ \ {i}, !.errs = TRUE].pc = "loop"
      <4> HIDE DEF f
      <4> QED BY <3>1 DEF Frame
    <3> QED
      BY <1>3, <2>3, <3>2 DEF NextInst
  <2>4. CASE EndUpdate(t) \/ EndCheck(t) \/ EndRemove(t) \/ EndDelete(t)
             \/ EndNotReady(t)
    <3>1. Goto(t, Idle) \/ Goto(t, UpdateFrame)
      BY <2>4 DEF EndUpdate, EndCheck, EndRemove, EndDelete, EndNotReady
    <3> QED
      BY <1>1, <1>3, <2>1, <3>1
  <2> QED
    BY <1>8, <2>1, <2>2, <2>3, <2>4 DEF Loop
<1>9. CASE Failure(t) \/ Finish(t) \/ ConnectionLost(t) \/ CommandRefused(t)
  <2>1. UNCHANGED varnish
    BY <1>9 DEF Failure, ConnectFails, CommandFails, PanicDial, Finish,
         ConnectionLost, CommandRefused, Release, Exit
  <2>2. \A e : NextFrame(t, e).pc = "loop"
    BY FrameFacts DEF NextFrame, Frame
  <2>3. (\E e : Goto(t, NextFrame(t, e))) \/ Exit
    BY <1>9 DEF Failure, ConnectFails, CommandFails, PanicDial, Finish,
         ConnectionLost, CommandRefused, Release
  <2> QED
    BY <1>3, <1>5, <2>1, <2>2, <2>3
<1> QED
  BY <1>6, <1>7, <1>8, <1>9 DEF Unlabelling

\* A step outside of the commands preserves the invariant.
LEMMA UnlabellingLabels ==
    ASSUME TypeInv, LabelsInv, NEW t \in Threads, Unlabelling(t)
    PROVE  LabelsInv'
<1>1. /\ UNCHANGED <<loaded, regular, ready>>
      /\ \A u \in Threads : th'[u] = th[u] \/ th'[u].pc # "command"
  BY UnlabellingFrames DEF varnish
<1> QED
  BY <1>1 DEF LabelsInv, RegularIsLoaded, ReadyIsConfigured,
              LabelledBeforeReady, here

\* A connection finds the labels as the list of VCLs shows them.
LEMMA ConnectLabels ==
    ASSUME TypeInv, LabelsInv, NEW t \in Threads, Connect(t)
    PROVE  LabelsInv'
<1>1. UNCHANGED <<loaded, cold, regular, ready>>
  BY DEF Connect, varnish
<1> DEFINE f == th[t]
<1>2. f \in Frame /\ FrameOK(f) /\ f.pc = "connect" /\ here(t) \in Addrs
  BY FrameFacts DEF Connect
<1>3. th' = [th EXCEPT ![t] = [f EXCEPT !.pc = "command", !.conn = TRUE,
                                        !.need = NeedOf(t), !.drop = DropOf(t)]]
  BY DEF Connect, Goto
<1>4. th'[t].need = NeedOf(t) /\ th'[t].inst = f.inst
  BY <1>2, <1>3 DEF TypeInv, TypeOK, Frame
<1>5. \A u \in Threads \ {t} : th'[u] = th[u]
  BY <1>3 DEF TypeInv, TypeOK
<1>6. "ready" \in NeedOf(t) /\ "label" \notin NeedOf(t)
        => regular[here(t)] \in Configs
  <2>1. "ready" \in NeedOf(t) => f.kind = "update"
    BY <1>2 DEF NeedOf, Frame, Kinds
  <2>2. f.kind = "update" => f.cfg \in Configs
    BY <1>2 DEF FrameOK
  <2>3. f.kind = "update" /\ "label" \notin NeedOf(t) => regular[here(t)] = f.cfg
    BY DEF NeedOf
  <2> QED
    BY <2>1, <2>2, <2>3
<1>7. LabelledBeforeReady'
  <2> SUFFICES ASSUME NEW u \in Threads,
                      th'[u].pc = "command" /\ th'[u].conn,
                      "ready" \in th'[u].need /\ "label" \notin th'[u].need
               PROVE  regular[Addr(th'[u].inst)] # NotAvail
    BY <1>1 DEF LabelledBeforeReady, here
  <2>1. CASE u = t
    BY <1>4, <1>6, <2>1, NilAssumption DEF here
  <2>2. CASE u # t
    BY <1>5, <2>2 DEF LabelsInv, LabelledBeforeReady, here
  <2> QED
    BY <2>1, <2>2
<1> QED
  BY <1>1, <1>7 DEF LabelsInv, RegularIsLoaded, ReadyIsConfigured

\* The commands preserve the invariant.
LEMMA LabellingLabels ==
    ASSUME TypeInv, LabelsInv, NEW t \in Threads, Labelling(t)
    PROVE  LabelsInv'
<1> DEFINE f == th[t]
           a == here(t)
<1>1. /\ f \in Frame /\ FrameOK(f) /\ f.pc = "command" /\ f.conn
      /\ a \in Addrs
  BY FrameFacts DEF Labelling, VCLInline, VCLLabelRegular, VCLLabelReady,
     VCLLabelNotReady, VCLDiscard, Commanding
<1>2. ASSUME NEW n \in SUBSET f.need, Goto(t, [f EXCEPT !.need = n])
      PROVE  /\ \A u \in Threads \ {t} : th'[u] = th[u]
             /\ th'[t] = [f EXCEPT !.need = n]
             /\ th'[t].need = n /\ th'[t].inst = f.inst
  BY <1>1, <1>2 DEF Goto, TypeInv, TypeOK, Frame
<1>3. ASSUME NEW n \in SUBSET f.need, Goto(t, [f EXCEPT !.need = n]),
             \A b \in Addrs : regular[b] # NotAvail => regular'[b] # NotAvail,
             "label" \in f.need \ n => regular'[a] # NotAvail
      PROVE  LabelledBeforeReady'
  <2> SUFFICES ASSUME NEW u \in Threads,
                      th'[u].pc = "command" /\ th'[u].conn,
                      "ready" \in th'[u].need /\ "label" \notin th'[u].need
               PROVE  regular'[Addr(th'[u].inst)] # NotAvail
    BY DEF LabelledBeforeReady, here
  <2>1. CASE u = t
    <3>1. "ready" \in f.need /\ Addr(th'[u].inst) = a
      BY <1>2, <1>3, <2>1 DEF here
    <3>2. CASE "label" \in f.need
      BY <1>2, <1>3, <2>1, <3>1, <3>2
    <3>3. CASE "label" \notin f.need
      <4>1. regular[a] # NotAvail
        BY <1>1, <3>1, <3>3 DEF LabelsInv, LabelledBeforeReady
      <4> QED
        BY <1>1, <1>3, <3>1, <4>1
    <3> QED
      BY <3>2, <3>3
  <2>2. CASE u # t
    <3>1. th'[u] = th[u]
      BY <1>2, <1>3, <2>2
    <3>2. regular[here(u)] # NotAvail
      BY <3>1 DEF LabelsInv, LabelledBeforeReady
    <3>3. here(u) \in Addrs
      BY <3>1, FrameFacts
    <3> QED
      BY <1>3, <3>1, <3>2, <3>3 DEF here
  <2> QED
    BY <2>1, <2>2
<1>4. CASE VCLInline(t)
  <2>1. LabelledBeforeReady'
    BY <1>3, <1>4 DEF VCLInline
  <2> QED
    BY <1>1, <1>4, <2>1 DEF VCLInline, LabelsInv, RegularIsLoaded,
       ReadyIsConfigured, TypeInv, TypeOK
<1>5. CASE VCLLabelRegular(t)
  <2>1. f.cfg \in Configs /\ f.cfg \in loaded[a] /\ f.cfg # NotAvail
    BY <1>1, <1>5, NilAssumption DEF VCLLabelRegular, TypeInv, TypeOK
  <2>2. regular' = [regular EXCEPT ![a] = f.cfg] /\ UNCHANGED <<loaded, ready>>
    BY <1>5 DEF VCLLabelRegular
  <2>3. regular'[a] = f.cfg /\ \A b \in Addrs \ {a} : regular'[b] = regular[b]
    BY <1>1, <2>2 DEF TypeInv, TypeOK
  <2>4. LabelledBeforeReady'
    BY <1>3, <1>5, <2>1, <2>3 DEF VCLLabelRegular
  <2> QED
    BY <2>1, <2>2, <2>3, <2>4 DEF LabelsInv, RegularIsLoaded, ReadyIsConfigured
<1>6. CASE VCLLabelReady(t)
  <2>1. LabelledBeforeReady'
    BY <1>3, <1>6 DEF VCLLabelReady
  <2>2. regular[a] # NotAvail
    BY <1>1, <1>6 DEF VCLLabelReady, ReadyLast, LabelsInv, LabelledBeforeReady
  <2> QED
    BY <1>6, <2>1, <2>2 DEF VCLLabelReady, LabelsInv, RegularIsLoaded,
       ReadyIsConfigured, TypeInv, TypeOK
<1>7. CASE VCLLabelNotReady(t)
  <2>1. LabelledBeforeReady'
    BY <1>3, <1>7 DEF VCLLabelNotReady
  <2> QED
    BY <1>7, <2>1 DEF VCLLabelNotReady, LabelsInv, RegularIsLoaded,
       ReadyIsConfigured, TypeInv, TypeOK
<1>8. ASSUME NEW c \in Configs, VCLDiscard(t, c)
      PROVE  LabelsInv'
  <2>1. /\ c # regular[a]
        /\ loaded' = [loaded EXCEPT ![a] = @ \ {c}]
        /\ UNCHANGED <<regular, ready>>
        /\ Goto(t, [f EXCEPT !.drop = @ \ {c}])
    BY <1>8 DEF VCLDiscard
  <2>2. RegularIsLoaded'
    BY <2>1 DEF LabelsInv, RegularIsLoaded, TypeInv, TypeOK
  <2>3. /\ \A u \in Threads \ {t} : th'[u] = th[u]
        /\ th'[t].need = f.need /\ th'[t].inst = f.inst
    BY <1>1, <2>1 DEF Goto, TypeInv, TypeOK, Frame
  <2>4. LabelledBeforeReady'
    BY <1>1, <2>1, <2>3 DEF LabelsInv, LabelledBeforeReady, here
  <2> QED
    BY <2>1, <2>2, <2>4 DEF LabelsInv, ReadyIsConfigured
<1> QED
  BY <1>4, <1>5, <1>6, <1>7, <1>8 DEF Labelling

\* Varnish and the end of the process preserve the invariant: a restart takes
\* the labels away and with them the connections.
LEMMA EnvironmentLabels ==
    ASSUME TypeInv, LabelsInv, Crash \/ \E a \in Addrs : Cool(a) \/ Restart(a)
    PROVE  LabelsInv'
<1>1. CASE Crash
  <2>1. \A t \in Threads : th'[t].pc = "idle"
    BY <1>1 DEF Crash, Exit, Idle
  <2> QED
    BY <1>1, <2>1 DEF Crash, Exit, varnish, LabelsInv, RegularIsLoaded,
       ReadyIsConfigured, LabelledBeforeReady
<1>2. ASSUME NEW a \in Addrs, Cool(a)
      PROVE  LabelsInv'
  BY <1>2 DEF Cool, LabelsInv, RegularIsLoaded, ReadyIsConfigured,
              LabelledBeforeReady, here
<1>3. ASSUME NEW a \in Addrs, Restart(a)
      PROVE  LabelsInv'
  <2>1. /\ loaded' = [loaded EXCEPT ![a] = {}]
        /\ regular' = [regular EXCEPT ![a] = NotAvail]
        /\ ready' = [ready EXCEPT ![a] = FALSE]
    BY <1>3 DEF Restart
  <2>2. RegularIsLoaded' /\ ReadyIsConfigured'
    BY <2>1 DEF LabelsInv, RegularIsLoaded, ReadyIsConfigured, TypeInv, TypeOK
  <2>3. ASSUME NEW u \in Threads, th'[u].pc = "command" /\ th'[u].conn
        PROVE  th'[u] = th[u] /\ here(u) # a
    <3> DEFINE g == th[u]
    <3>1. g \in Frame
      BY FrameFacts
    <3>2. [g EXCEPT !.conn = FALSE].conn = FALSE
      <4> HIDE DEF g
      <4> QED BY <3>1 DEF Frame
    <3>3. th'[u] = IF g.conn /\ here(u) = a THEN [g EXCEPT !.conn = FALSE] ELSE g
      BY <1>3 DEF Restart
    <3> QED
      BY <2>3, <3>2, <3>3
  <2>4. LabelledBeforeReady'
    <3> SUFFICES ASSUME NEW u \in Threads,
                        th'[u].pc = "command" /\ th'[u].conn,
                        "ready" \in th'[u].need /\ "label" \notin th'[u].need
                 PROVE  regular'[Addr(th'[u].inst)] # NotAvail
      BY DEF LabelledBeforeReady, here
    <3>1. th'[u] = th[u] /\ here(u) # a
      BY <2>3
    <3>2. here(u) \in Addrs /\ regular[here(u)] # NotAvail
      BY <3>1, FrameFacts DEF LabelsInv, LabelledBeforeReady
    <3> QED
      BY <2>1, <3>1, <3>2 DEF here, TypeInv, TypeOK
  <2> QED
    BY <2>2, <2>4 DEF LabelsInv
<1> QED
  BY <1>1, <1>2, <1>3

\* The invariant is inductive.
LEMMA InitLabels == Init => LabelsInv
<1> SUFFICES ASSUME Init PROVE LabelsInv
  OBVIOUS
<1>1. \A t \in Threads : th[t].pc = "idle"
  BY DEF Init, Idle
<1> QED
  BY <1>1 DEF Init, LabelsInv, RegularIsLoaded, ReadyIsConfigured,
              LabelledBeforeReady

LEMMA NextLabels == TypeInv /\ LabelsInv /\ [Next]_vars => LabelsInv'
<1> SUFFICES ASSUME TypeInv, LabelsInv, [Next]_vars PROVE LabelsInv'
  OBVIOUS
<1>1. CASE UNCHANGED vars
  BY <1>1 DEF vars, LabelsInv, RegularIsLoaded, ReadyIsConfigured,
              LabelledBeforeReady, here
<1>2. CASE Next
  BY <1>2, NextCases, UnlabellingLabels, ConnectLabels, LabellingLabels,
     EnvironmentLabels
<1> QED
  BY <1>1, <1>2

LEMMA LabelsInvariant == Spec => [](TypeInv /\ LabelsInv)
BY InitTypeInv, NextTypeInv, InitLabels, NextLabels, PTL DEF Spec

\* A ready instance directs regular traffic to a loaded Ingress
\* configuration: updateVarnishInstance sets the label of readiness last, in
\* the connection that has seen or set the regular label.
THEOREM ReadyIsServed == Spec => []ReadyImpliesConfigured
<1>1. TypeInv /\ LabelsInv => ReadyImpliesConfigured
  BY DEF LabelsInv, RegularIsLoaded, ReadyIsConfigured, ReadyImpliesConfigured
<1> QED
  BY <1>1, LabelsInvariant, PTL

-----------------------------------------------------------------------------
(* VarnishController implements VarnishInstances.                          *)

\* Every step that changes a label is a step of the instances' specification.
LEMMA StepRefines ==
    ASSUME TypeInv, LabelsInv, [Next]_vars
    PROVE  [Instances!Next]_(Instances!vars)
<1> USE DEF Instances!vars
<1>1. CASE UNCHANGED vars
  BY <1>1 DEF vars
<1>2. ASSUME NEW t \in Threads, Unlabelling(t)
      PROVE  UNCHANGED Instances!vars
  BY <1>2, UnlabellingFrames DEF varnish
<1>3. ASSUME NEW t \in Threads, Connect(t)
      PROVE  UNCHANGED Instances!vars
  BY <1>3 DEF Connect, varnish
<1>4. ASSUME NEW t \in Threads, Labelling(t)
      PROVE  [Instances!Next]_(Instances!vars)
  <2>1. here(t) \in Addrs
    BY <1>4, FrameFacts DEF Labelling, VCLInline, VCLLabelRegular,
       VCLLabelReady, VCLLabelNotReady, VCLDiscard, Commanding
  <2>2. CASE VCLInline(t) \/ \E c \in Configs : VCLDiscard(t, c)
    BY <2>2 DEF VCLInline, VCLDiscard
  <2>3. CASE VCLLabelRegular(t)
    <3>1. th[t].cfg \in Configs
      BY <2>1, <2>3 DEF VCLLabelRegular, TypeInv, TypeOK
    <3>2. Instances!Configure(here(t), th[t].cfg)
      BY <2>3 DEF VCLLabelRegular, Instances!Configure
    <3> QED
      BY <2>1, <3>1, <3>2 DEF Instances!Next
  <2>4. CASE VCLLabelReady(t)
    <3>1. regular[here(t)] # NotAvail
      BY <2>4 DEF VCLLabelReady, ReadyLast, Commanding, LabelsInv,
                  LabelledBeforeReady
    <3>2. regular[here(t)] \in Configs
      BY <2>1, <3>1 DEF TypeInv, TypeOK
    <3>3. Instances!MakeReady(here(t))
      BY <2>4, <3>2 DEF VCLLabelReady, Instances!MakeReady
    <3> QED
      BY <2>1, <3>3 DEF Instances!Next
  <2>5. CASE VCLLabelNotReady(t)
    <3>1. Instances!MakeNotReady(here(t))
      BY <2>5 DEF VCLLabelNotReady, Instances!MakeNotReady
    <3> QED
      BY <2>1, <3>1 DEF Instances!Next
  <2> QED
    BY <1>4, <2>2, <2>3, <2>4, <2>5 DEF Labelling
<1>5. CASE Crash
  BY <1>5 DEF Crash, Exit, varnish
<1>6. ASSUME NEW a \in Addrs, Cool(a) \/ Restart(a)
      PROVE  [Instances!Next]_(Instances!vars)
  <2>1. CASE Cool(a)
    BY <2>1 DEF Cool
  <2>2. CASE Restart(a)
    BY <2>2 DEF Restart, Instances!Restart, Instances!Next
  <2> QED
    BY <1>6, <2>1, <2>2
<1> QED
  BY <1>1, <1>2, <1>3, <1>4, <1>5, <1>6, NextCases

\* The controller implements the specification of the instances.
THEOREM Refinement == Spec => ImplementsInstances
<1>1. Init => Instances!Init
  BY DEF Init, Instances!Init
<1>2. TypeInv /\ LabelsInv /\ [Next]_vars => [Instances!Next]_(Instances!vars)
  BY StepRefines
<1> QED
  BY <1>1, <1>2, LabelsInvariant, PTL DEF Spec, ImplementsInstances, Instances!Spec

-----------------------------------------------------------------------------
(* The list of VCLs.  If an address has one instance object at a time, then  *)
(* the mutex of the object excludes every other connection to the address. *)

MutexHeld ==
    \A t \in Threads : th[t].pc = "command" => admMtx[th[t].inst] = t

\* Cold VCLs are loaded, and no label refers to them.
ColdIsUnused == \A a \in Addrs : cold[a] \subseteq loaded[a] \ {regular[a]}

\* An update discards nothing, a check needs no label, and to make an instance
\* not ready is neither.
FrameDoes(f) ==
    /\ f.drop # {} => f.kind = "check"
    /\ "notReady" \in f.need => f.kind \notin {"update", "check"}

DoesOneThing == \A t \in Threads : FrameDoes(th[t])

\* ListStaysValid for one frame, with the instance's VCLs and labels.
FrameValid(f, l, r, rd) ==
    /\ f.kind = "update" =>
          /\ ("load" \in f.need) <=> (f.cfg \notin l)
          /\ ("label" \in f.need) <=> (f.cfg # r)
          /\ ("ready" \in f.need) <=> ~rd
    /\ f.drop \subseteq l \ {r}

ListsValid ==
    \A t \in Threads :
        th[t].pc = "command" /\ th[t].conn =>
            FrameValid(th[t], loaded[here(t)], regular[here(t)], ready[here(t)])

MutexInv == MutexHeld /\ ColdIsUnused /\ DoesOneThing /\ ListsValid

\* Outside of the commands, a thread locks nothing and unlocks at most the
\* mutex of the instance that it leaves.
LEMMA UnlabellingMutex ==
    ASSUME TypeInv, MutexHeld, NEW t \in Threads, Unlabelling(t)
    PROVE  \A u \in Threads : th'[u].pc = "command" =>
              th'[u] = th[u] /\ admMtx'[th[u].inst] = admMtx[th[u].inst]
<1> USE DEF memory, bounds
<1>1. \A u \in Threads : th'[u] = th[u] \/ th'[u].pc # "command"
  BY UnlabellingFrames
<1>2. CASE UNCHANGED admMtx
  BY <1>1, <1>2
<1>3. CASE Exit
  BY <1>3 DEF Exit, Idle
<1>4. CASE Finish(t) \/ ConnectionLost(t) \/ CommandRefused(t) \/ CommandFails(t)
  <2>1. PICK e : Release(t, e)
    BY <1>4 DEF Finish, ConnectionLost, CommandRefused, CommandFails
  <2>2. th[t].pc = "command"
    BY <1>4 DEF Finish, ConnectionLost, CommandRefused, CommandFails, Commanding
  <2>3. th'[t].pc = "loop"
    BY <2>1, FrameFacts DEF Release, Goto, NextFrame, Frame, TypeInv, TypeOK
  <2>4. ASSUME NEW u \in Threads, th'[u].pc = "command"
        PROVE  th'[u] = th[u] /\ admMtx'[th[u].inst] = admMtx[th[u].inst]
    <3>1. u # t /\ th'[u] = th[u]
      BY <1>1, <2>3, <2>4
    <3>2. admMtx[th[u].inst] = u /\ admMtx[th[t].inst] = t
      BY <2>2, <2>4, <3>1 DEF MutexHeld
    <3>3. th[u].inst # th[t].inst
      BY <3>1, <3>2
    <3> QED
      BY <2>1, <3>1, <3>3 DEF Release, TypeInv, TypeOK
  <2> QED
    BY <2>4
<1>5. UNCHANGED admMtx \/ Exit \/ Finish(t) \/ ConnectionLost(t)
      \/ CommandRefused(t) \/ CommandFails(t)
  <2>1. CASE WorkerCall(t)
    BY <2>1 DEF WorkerCall, addOrUpdateIng, configLoaded, SetNotReady,
       syncSvc, DeleteVarnishSvc, syncSecret, deleteSecret,
       PanicHasConfig, Call
  <2>2. CASE Update(t) \/ (t = Monitor /\ monitor)
    BY <2>2 DEF Update, monitor
  <2>3. CASE Loop(t)
    BY <2>3 DEF Loop, updateVarnishSvc, NextInst, EndUpdate, EndCheck,
       EndRemove, EndDelete, EndNotReady
  <2>4. CASE Failure(t)
    BY <2>4 DEF Failure, ConnectFails, PanicDial
  <2> QED
    BY <2>1, <2>2, <2>3, <2>4 DEF Unlabelling
<1> QED
  BY <1>2, <1>3, <1>4, <1>5

\* Frames that are not at their commands need and discard nothing.
LEMMA NothingToDo ==
    ASSUME NEW f \in Frame, FrameOK(f), f.pc # "command"
    PROVE  FrameDoes(f)
BY DEF FrameOK, FrameDoes

LEMMA UnlabellingMutexInv ==
    ASSUME TypeInv, TypeInv', MutexInv, NEW t \in Threads, Unlabelling(t)
    PROVE  MutexInv'
<1>1. \A u \in Threads : th'[u].pc = "command" =>
              th'[u] = th[u] /\ admMtx'[th[u].inst] = admMtx[th[u].inst]
  BY UnlabellingMutex DEF MutexInv
<1>2. UNCHANGED <<loaded, cold, regular, ready>>
  BY UnlabellingFrames DEF varnish
<1>3. MutexHeld' /\ ColdIsUnused'
  BY <1>1, <1>2 DEF MutexInv, MutexHeld, ColdIsUnused
<1>4. ListsValid'
  BY <1>1, <1>2 DEF MutexInv, ListsValid, here
<1>5. \A u \in Threads : th'[u] \in Frame /\ FrameOK(th'[u])
  BY DEF TypeInv, TypeOK
<1>6. DoesOneThing'
  BY <1>1, <1>5, NothingToDo DEF MutexInv, DoesOneThing
<1> QED
  BY <1>3, <1>4, <1>6 DEF MutexInv

\* Connecting locks the object's mutex, and reads a list that is valid.
LEMMA ConnectMutexInv ==
    ASSUME TypeInv, TypeInv', MutexInv, NEW t \in Threads, Connect(t)
    PROVE  MutexInv'
<1> DEFINE f == th[t]
           g == [f EXCEPT !.pc = "command", !.conn = TRUE,
                          !.need = NeedOf(t), !.drop = DropOf(t)]
<1>1. /\ UNCHANGED <<loaded, cold, regular, ready>>
      /\ admMtx[f.inst] = NoThread /\ f.inst \in Insts
      /\ admMtx' = [admMtx EXCEPT ![f.inst] = t]
      /\ th' = [th EXCEPT ![t] = g]
  BY FrameFacts DEF Connect, MutexFree, varnish, Goto, FrameOK
<1>2. f \in Frame /\ here(t) \in Addrs
  BY FrameFacts DEF Connect
<1>3. /\ g.pc = "command" /\ g.inst = f.inst /\ g.kind = f.kind
      /\ g.cfg = f.cfg /\ g.need = NeedOf(t) /\ g.drop = DropOf(t)
  <2> HIDE DEF f
  <2> QED BY <1>2 DEF Frame
<1>4. th'[t] = g /\ \A u \in Threads \ {t} : th'[u] = th[u]
  BY <1>1 DEF TypeInv, TypeOK
<1>5. MutexHeld'
  <2> SUFFICES ASSUME NEW u \in Threads, th'[u].pc = "command"
               PROVE  admMtx'[th'[u].inst] = u
    BY DEF MutexHeld
  <2>1. CASE u = t
    BY <1>1, <1>3, <1>4, <2>1 DEF TypeInv, TypeOK
  <2>2. CASE u # t
    <3>1. th'[u] = th[u] /\ admMtx[th[u].inst] = u
      BY <1>4, <2>2 DEF MutexInv, MutexHeld
    <3>2. th[u].inst # f.inst
      BY <1>1, <3>1, ThreadsAssumption
    <3> QED
      BY <1>1, <3>1, <3>2 DEF TypeInv, TypeOK
  <2> QED
    BY <2>1, <2>2
<1>6. FrameDoes(g)
  BY <1>2, <1>3 DEF FrameDoes, NeedOf, DropOf, Frame, Kinds
<1>7. FrameValid(g, loaded[here(t)], regular[here(t)], ready[here(t)])
  <2>1. DropOf(t) \subseteq loaded[here(t)] \ {regular[here(t)]}
    BY <1>2 DEF DropOf, MutexInv, ColdIsUnused
  <2>2. f.kind = "update" =>
          /\ ("load" \in NeedOf(t)) <=> (f.cfg \notin loaded[here(t)])
          /\ ("label" \in NeedOf(t)) <=> (f.cfg # regular[here(t)])
          /\ ("ready" \in NeedOf(t)) <=> ~ready[here(t)]
    BY DEF NeedOf
  <2> QED
    BY <1>3, <2>1, <2>2 DEF FrameValid
<1> HIDE DEF g
<1>8. ListsValid'
  BY <1>1, <1>3, <1>4, <1>7 DEF MutexInv, ListsValid, here
<1>9. DoesOneThing'
  BY <1>4, <1>6 DEF MutexInv, DoesOneThing
<1> QED
  BY <1>1, <1>5, <1>8, <1>9 DEF MutexInv, ColdIsUnused

\* One instance object for each address at a time: an object's successor for
\* the same address is created when nothing refers to the object any more.
OneObject == \A g, h \in Gens : g = h

\* No other thread has its commands at the same address.
LEMMA Alone ==
    ASSUME OneObject, TypeInv, MutexHeld,
           NEW t \in Threads, NEW u \in Threads, t # u,
           th[t].pc = "command", th[u].pc = "command"
    PROVE  here(t) # here(u)
<1>1. th[t].inst \in Addrs \X Gens /\ th[u].inst \in Addrs \X Gens
  BY FrameFacts DEF FrameOK, Insts
<1>2. th[t].inst # th[u].inst
  BY DEF MutexHeld
<1> QED
  BY <1>1, <1>2 DEF OneObject, here, Addr

\* Under the mutex, a command keeps the lists valid.
LEMMA LabellingMutexInv ==
    ASSUME OneObject, TypeInv, TypeInv', MutexInv, NEW t \in Threads, Labelling(t)
    PROVE  MutexInv'
<1> DEFINE f == th[t]
           a == here(t)
           Left(n, d) == [f EXCEPT !.need = n, !.drop = d]
<1>1. /\ f \in Frame /\ FrameOK(f) /\ f.pc = "command" /\ f.conn
      /\ a \in Addrs /\ FrameDoes(f)
      /\ FrameValid(f, loaded[a], regular[a], ready[a])
  BY FrameFacts DEF Labelling, VCLInline, VCLLabelRegular, VCLLabelReady,
     VCLLabelNotReady, VCLDiscard, Commanding, MutexInv, DoesOneThing, ListsValid
<1>2. /\ UNCHANGED admMtx
      /\ \A b \in Addrs \ {a} : /\ loaded'[b] = loaded[b] /\ ready'[b] = ready[b]
                                /\ regular'[b] = regular[b]
  BY <1>1 DEF Labelling, VCLInline, VCLLabelRegular, VCLLabelReady,
     VCLLabelNotReady, VCLDiscard, TypeInv, TypeOK
<1>3. ASSUME NEW n \in SUBSET f.need, NEW d \in SUBSET f.drop,
             Goto(t, Left(n, d)), ColdIsUnused',
             FrameValid(Left(n, d), loaded'[a], regular'[a], ready'[a])
      PROVE  MutexInv'
  <2> DEFINE g == Left(n, d)
  <2>1. /\ g.pc = f.pc /\ g.inst = f.inst /\ g.kind = f.kind
        /\ g.need = n /\ g.drop = d
    <3> HIDE DEF f
    <3> QED BY <1>1 DEF Frame
  <2>2. th'[t] = g /\ \A u \in Threads \ {t} : th'[u] = th[u]
    BY <1>3 DEF Goto, TypeInv, TypeOK
  <2>3. MutexHeld'
    <3>1. \A u \in Threads : th'[u].pc = th[u].pc /\ th'[u].inst = th[u].inst
      BY <2>1, <2>2
    <3> QED
      BY <1>2, <3>1 DEF MutexInv, MutexHeld
  <2>4. DoesOneThing'
    <3>1. FrameDoes(g)
      BY <1>1, <2>1 DEF FrameDoes
    <3> HIDE DEF g
    <3> QED BY <2>2, <3>1 DEF MutexInv, DoesOneThing
  <2>5. ListsValid'
    <3> SUFFICES ASSUME NEW u \in Threads, th'[u].pc = "command" /\ th'[u].conn
                 PROVE  LET b == Addr(th'[u].inst)
                        IN  FrameValid(th'[u], loaded'[b], regular'[b], ready'[b])
      BY DEF ListsValid, here
    <3>1. CASE u = t
      BY <1>3, <2>1, <2>2, <3>1 DEF here
    <3>2. CASE u # t
      <4>1. th'[u] = th[u]
        BY <2>2, <3>2
      <4>2. here(u) \in Addrs \ {a}
        BY <1>1, <3>2, <4>1, Alone, FrameFacts DEF MutexInv
      <4> QED
        BY <1>2, <4>1, <4>2 DEF MutexInv, ListsValid, here
    <3> QED
      BY <3>1, <3>2
  <2> QED
    BY <1>3, <2>3, <2>4, <2>5 DEF MutexInv
<1> HIDE DEF f, a
<1>4. /\ loaded \in [Addrs -> SUBSET Configs] /\ cold \in [Addrs -> SUBSET Configs]
      /\ regular \in [Addrs -> Configs \cup {NotAvail}]
      /\ ready \in [Addrs -> BOOLEAN] /\ ColdIsUnused
  BY DEF TypeInv, TypeOK, MutexInv
<1>5. CASE VCLInline(t)
  <2>1. /\ "load" \in f.need /\ f.kind = "update"
        /\ loaded' = [loaded EXCEPT ![a] = @ \cup {f.cfg}]
        /\ UNCHANGED <<cold, regular, ready>>
        /\ Goto(t, [f EXCEPT !.need = @ \ {"load"}])
    BY <1>1, <1>5 DEF VCLInline, f, a, FrameOK
  <2>2. [f EXCEPT !.need = @ \ {"load"}] = Left(f.need \ {"load"}, f.drop)
    BY <1>1 DEF Frame
  <2>3. ColdIsUnused'
    BY <1>1, <1>4, <2>1 DEF ColdIsUnused
  <2>4. FrameValid(Left(f.need \ {"load"}, f.drop), loaded'[a], regular'[a], ready'[a])
    BY <1>1, <1>4, <2>1 DEF FrameValid, Frame
  <2>5. Goto(t, Left(f.need \ {"load"}, f.drop))
    BY <2>1, <2>2
  <2>6. f.need \ {"load"} \in SUBSET f.need /\ f.drop \in SUBSET f.drop
    OBVIOUS
  <2> HIDE DEF Left
  <2> QED
    BY <1>3, <2>3, <2>4, <2>5, <2>6
<1>6. CASE VCLLabelRegular(t)
  <2>1. /\ "label" \in f.need /\ "load" \notin f.need /\ f.kind = "update"
        /\ f.drop = {} /\ f.cfg \in loaded[a]
        /\ regular' = [regular EXCEPT ![a] = f.cfg]
        /\ cold' = [cold EXCEPT ![a] = @ \ {f.cfg}]
        /\ UNCHANGED <<loaded, ready>>
        /\ Goto(t, [f EXCEPT !.need = @ \ {"label"}])
    BY <1>1, <1>6 DEF VCLLabelRegular, f, a, FrameOK, FrameDoes
  <2>2. [f EXCEPT !.need = @ \ {"label"}] = Left(f.need \ {"label"}, f.drop)
    BY <1>1 DEF Frame
  <2>3. ColdIsUnused'
    BY <1>1, <1>4, <2>1 DEF ColdIsUnused
  <2>4. FrameValid(Left(f.need \ {"label"}, f.drop), loaded'[a], regular'[a], ready'[a])
    BY <1>1, <1>4, <2>1 DEF FrameValid, Frame
  <2>5. Goto(t, Left(f.need \ {"label"}, f.drop))
    BY <2>1, <2>2
  <2>6. f.need \ {"label"} \in SUBSET f.need /\ f.drop \in SUBSET f.drop
    OBVIOUS
  <2> HIDE DEF Left
  <2> QED
    BY <1>3, <2>3, <2>4, <2>5, <2>6
<1>7. CASE VCLLabelReady(t)
  <2>1. /\ f.need = {"ready"} /\ f.kind = "update" /\ f.drop = {}
        /\ ready' = [ready EXCEPT ![a] = TRUE]
        /\ UNCHANGED <<loaded, cold, regular>>
        /\ Goto(t, [f EXCEPT !.need = @ \ {"ready"}])
    BY <1>1, <1>7 DEF VCLLabelReady, ReadyLast, f, a, FrameOK, FrameDoes
  <2>2. [f EXCEPT !.need = @ \ {"ready"}] = Left(f.need \ {"ready"}, f.drop)
    BY <1>1 DEF Frame
  <2>3. ColdIsUnused'
    BY <1>4, <2>1 DEF ColdIsUnused
  <2>4. FrameValid(Left(f.need \ {"ready"}, f.drop), loaded'[a], regular'[a], ready'[a])
    BY <1>1, <1>4, <2>1 DEF FrameValid, Frame
  <2>5. Goto(t, Left(f.need \ {"ready"}, f.drop))
    BY <2>1, <2>2
  <2>6. f.need \ {"ready"} \in SUBSET f.need /\ f.drop \in SUBSET f.drop
    OBVIOUS
  <2> HIDE DEF Left
  <2> QED
    BY <1>3, <2>3, <2>4, <2>5, <2>6
<1>8. CASE VCLLabelNotReady(t)
  <2>1. /\ f.need = {"notReady"} /\ f.kind \notin {"update", "check"}
        /\ ready' = [ready EXCEPT ![a] = FALSE]
        /\ UNCHANGED <<loaded, cold, regular>>
        /\ Goto(t, [f EXCEPT !.need = {}])
    BY <1>1, <1>8 DEF VCLLabelNotReady, f, a, FrameDoes
  <2>2. [f EXCEPT !.need = {}] = Left({}, f.drop)
    BY <1>1 DEF Frame
  <2>3. ColdIsUnused'
    BY <1>4, <2>1 DEF ColdIsUnused
  <2>4. FrameValid(Left({}, f.drop), loaded'[a], regular'[a], ready'[a])
    BY <1>1, <1>4, <2>1 DEF FrameValid, Frame
  <2>5. Goto(t, Left({}, f.drop))
    BY <2>1, <2>2
  <2>6. {} \in SUBSET f.need /\ f.drop \in SUBSET f.drop
    OBVIOUS
  <2> HIDE DEF Left
  <2> QED
    BY <1>3, <2>3, <2>4, <2>5, <2>6
<1>9. ASSUME NEW c \in Configs, VCLDiscard(t, c)
      PROVE  MutexInv'
  <2>1. /\ c \in f.drop /\ f.kind = "check"
        /\ loaded' = [loaded EXCEPT ![a] = @ \ {c}]
        /\ cold' = [cold EXCEPT ![a] = @ \ {c}]
        /\ UNCHANGED <<regular, ready>>
        /\ Goto(t, [f EXCEPT !.drop = @ \ {c}])
    <3>1. /\ c \in f.drop
          /\ loaded' = [loaded EXCEPT ![a] = @ \ {c}]
          /\ cold' = [cold EXCEPT ![a] = @ \ {c}]
          /\ UNCHANGED <<regular, ready>>
          /\ Goto(t, [f EXCEPT !.drop = @ \ {c}])
      BY <1>9 DEF VCLDiscard, f, a
    <3> QED
      BY <1>1, <3>1 DEF FrameDoes
  <2>2. [f EXCEPT !.drop = @ \ {c}] = Left(f.need, f.drop \ {c})
    BY <1>1 DEF Frame
  <2>3. ColdIsUnused'
    BY <1>1, <1>4, <2>1 DEF ColdIsUnused
  <2>4. FrameValid(Left(f.need, f.drop \ {c}), loaded'[a], regular'[a], ready'[a])
    BY <1>1, <1>4, <2>1 DEF FrameValid, Frame
  <2>5. Goto(t, Left(f.need, f.drop \ {c}))
    BY <2>1, <2>2
  <2>6. f.need \in SUBSET f.need /\ f.drop \ {c} \in SUBSET f.drop
    OBVIOUS
  <2> HIDE DEF Left
  <2> QED
    BY <1>3, <2>3, <2>4, <2>5, <2>6
<1> QED
  BY <1>5, <1>6, <1>7, <1>8, <1>9 DEF Labelling

LEMMA EnvironmentMutexInv ==
    ASSUME TypeInv, TypeInv', MutexInv, Crash \/ \E a \in Addrs : Cool(a) \/ Restart(a)
    PROVE  MutexInv'
<1>1. CASE Crash
  <2>1. /\ UNCHANGED <<loaded, cold, regular, ready>>
        /\ \A t \in Threads : th'[t] = Idle
    BY <1>1 DEF Crash, Exit, varnish
  <2>2. Idle.pc = "idle" /\ Idle.need = {} /\ Idle.drop = {}
    BY DEF Idle
  <2> QED
    BY <2>1, <2>2 DEF MutexInv, MutexHeld, ColdIsUnused, DoesOneThing, FrameDoes,
       ListsValid
<1>2. ASSUME NEW a \in Addrs, Cool(a)
      PROVE  MutexInv'
  <2>1. UNCHANGED <<th, admMtx, loaded, regular, ready>>
    BY <1>2 DEF Cool
  <2>2. ColdIsUnused'
    BY <1>2 DEF Cool, MutexInv, ColdIsUnused, TypeInv, TypeOK
  <2> QED
    BY <2>1, <2>2 DEF MutexInv, MutexHeld, DoesOneThing, ListsValid, here
<1>3. ASSUME NEW a \in Addrs, Restart(a)
      PROVE  MutexInv'
  <2>1. /\ loaded' = [loaded EXCEPT ![a] = {}]
        /\ cold' = [cold EXCEPT ![a] = {}]
        /\ regular' = [regular EXCEPT ![a] = NotAvail]
        /\ ready' = [ready EXCEPT ![a] = FALSE]
        /\ UNCHANGED admMtx
    BY <1>3 DEF Restart, memory
  <2>2. ColdIsUnused'
    BY <2>1 DEF MutexInv, ColdIsUnused, TypeInv, TypeOK
  <2>3. ASSUME NEW u \in Threads
        PROVE  /\ th'[u].pc = th[u].pc /\ th'[u].inst = th[u].inst
               /\ th'[u].need = th[u].need /\ th'[u].drop = th[u].drop
               /\ th'[u].kind = th[u].kind
               /\ th'[u].conn => th'[u] = th[u] /\ here(u) # a
    <3> DEFINE g == th[u]
    <3>1. g \in Frame
      BY FrameFacts
    <3>2. th'[u] = IF g.conn /\ here(u) = a THEN [g EXCEPT !.conn = FALSE] ELSE g
      BY <1>3 DEF Restart
    <3>3. LET h == [g EXCEPT !.conn = FALSE]
          IN  /\ h.pc = g.pc /\ h.inst = g.inst /\ h.need = g.need
              /\ h.drop = g.drop /\ h.kind = g.kind /\ h.conn = FALSE
      <4> HIDE DEF g
      <4> QED BY <3>1 DEF Frame
    <3> QED
      BY <3>2, <3>3
  <2>4. MutexHeld' /\ DoesOneThing'
    BY <2>1, <2>3 DEF MutexInv, MutexHeld, DoesOneThing, FrameDoes
  <2>5. ListsValid'
    <3> SUFFICES ASSUME NEW u \in Threads, th'[u].pc = "command" /\ th'[u].conn
                 PROVE  LET b == Addr(th'[u].inst)
                        IN  FrameValid(th'[u], loaded'[b], regular'[b], ready'[b])
      BY DEF ListsValid, here
    <3>1. th'[u] = th[u] /\ here(u) \in Addrs \ {a}
      BY <2>3, FrameFacts
    <3>2. /\ loaded'[here(u)] = loaded[here(u)]
          /\ regular'[here(u)] = regular[here(u)]
          /\ ready'[here(u)] = ready[here(u)]
      BY <2>1, <3>1 DEF TypeInv, TypeOK
    <3> QED
      BY <3>1, <3>2 DEF MutexInv, ListsValid, here
  <2> QED
    BY <2>2, <2>4, <2>5 DEF MutexInv
<1> QED
  BY <1>1, <1>2, <1>3

LEMMA InitMutexInv == Init => MutexInv
<1> SUFFICES ASSUME Init PROVE MutexInv
  OBVIOUS
<1>1. \A t \in Threads : th[t].pc = "idle" /\ th[t].need = {} /\ th[t].drop = {}
  BY DEF Init, Idle
<1> QED
  BY <1>1 DEF Init, MutexInv, MutexHeld, ColdIsUnused, DoesOneThing, FrameDoes,
              ListsValid

LEMMA NextMutexInv ==
    OneObject /\ TypeInv /\ TypeInv' /\ MutexInv /\ [Next]_vars => MutexInv'
<1> SUFFICES ASSUME OneObject, TypeInv, TypeInv', MutexInv, [Next]_vars
             PROVE  MutexInv'
  OBVIOUS
<1>1. CASE UNCHANGED vars
  BY <1>1 DEF vars, MutexInv, MutexHeld, ColdIsUnused, DoesOneThing, ListsValid,
              here
<1>2. CASE Next
  BY <1>2, NextCases, UnlabellingMutexInv, ConnectMutexInv, LabellingMutexInv,
     EnvironmentMutexInv
<1> QED
  BY <1>1, <1>2

\* What an update or a check has read in the list of VCLs stays true until it
\* is done, if the objects for one address do not overlap in time.
THEOREM ListIsValid == OneObject => (Spec => []ListStaysValid)
<1> SUFFICES ASSUME OneObject PROVE Spec => []ListStaysValid
  OBVIOUS
<1>1. TypeInv /\ TypeInv' /\ MutexInv /\ [Next]_vars => MutexInv'
  BY NextMutexInv
<1>2. MutexInv => ListStaysValid
  BY DEF MutexInv, ListsValid, FrameValid, ListStaysValid, here
<1> QED
  BY <1>1, <1>2, InitTypeInv, NextTypeInv, InitMutexInv, PTL DEF Spec
=============================================================================
