-------------------------- MODULE SecretSync_proofs --------------------------
(***************************************************************************)
(* Theorems about SecretSync: types, and that no change is missed.         *)
(***************************************************************************)
EXTENDS SecretSync, WorkerQueue_proofs

-----------------------------------------------------------------------------
(* Types.                                                                  *)

ClusterOK ==
    /\ secret \in [Secrets -> Values]
    /\ pods \in [VarnishSvcs -> PodSpecs \cup {NoPods}]
WorkOK == queue \in Seq(Items) /\ retries \in Seq(Items)
VarnishOK ==
    /\ stored \in [Secrets -> Slices \cup {Nil}]
    /\ \A s \in Secrets : stored[s] \in ({s} \X Gens) \cup {Nil}
    /\ bytes \in [Slices -> Seq(Nat)]
    /\ svc \in [VarnishSvcs -> {"unknown", "created", "addressed"}]
    /\ pointer \in [VarnishSvcs -> Slices \cup {Nil}]
    /\ \A v \in VarnishSvcs : svc[v] = "unknown" => pointer[v] = Nil
CredsOK == creds \in [AuthSecrets -> Values]
BoundsOK == changes \in 0 .. MaxChanges /\ faults \in 0 .. MaxFaults

LEMMA TypeParts == TypeOK <=> ClusterOK /\ WorkOK /\ VarnishOK /\ CredsOK /\ BoundsOK
  BY DEF TypeOK, ClusterOK, WorkOK, VarnishOK, CredsOK, BoundsOK

LEMMA TypePartsNext == ClusterOK' /\ WorkOK' /\ VarnishOK' /\ CredsOK' /\ BoundsOK' => TypeOK'
  BY DEF TypeOK, ClusterOK, WorkOK, VarnishOK, CredsOK, BoundsOK

LEMMA ItemTypes ==
    /\ Vcfg \in Items /\ Ing \in Items
    /\ \A s \in Secrets : Secret(s) \in Items /\ Deleted(s) \in Items
    /\ \A v \in VarnishSvcs : Svc(v) \in Items /\ Endp(v) \in Items
  BY DEF Items

\* The item of a handler's step.
LEMMA HandledItem ==
    ASSUME WorkOK, NEW kind, Handles(kind)
    PROVE  /\ queue # <<>> /\ Head(queue) \in Items /\ Head(queue).kind = kind
           /\ kind \in {"secret", "secretDeleted"} => Head(queue).key \in Secrets
           /\ kind \in {"svc", "endp"} => Head(queue).key \in VarnishSvcs
           /\ kind = "secret" => Head(queue) = Secret(Head(queue).key)
           /\ kind = "secretDeleted" => Head(queue) = Deleted(Head(queue).key)
           /\ kind = "svc" => Head(queue) = Svc(Head(queue).key)
           /\ kind = "endp" => Head(queue) = Endp(Head(queue).key)
           /\ kind = "vcfg" => Head(queue) = Vcfg
           /\ kind = "ing" => Head(queue) = Ing
<1>1. Takes(kind) /\ queue # <<>>
  BY DEF Handles, Takes
<1>2. PICK x \in Items : x = Head(queue) /\ x.kind = kind
  BY <1>1, TakesItem DEF WorkOK
<1> HIDE DEF Handles
<1>3. \/ x = Vcfg \/ x = Ing
      \/ \E s \in Secrets : x = Secret(s) \/ x = Deleted(s)
      \/ \E v \in VarnishSvcs : x = Svc(v) \/ x = Endp(v)
  BY <1>2 DEF Items
<1>4. /\ kind \in {"secret", "secretDeleted"} => x.key \in Secrets
      /\ kind \in {"svc", "endp"} => x.key \in VarnishSvcs
      /\ kind = "secret" => x = Secret(x.key)
      /\ kind = "secretDeleted" => x = Deleted(x.key)
      /\ kind = "svc" => x = Svc(x.key)
      /\ kind = "endp" => x = Endp(x.key)
      /\ kind = "vcfg" => x = Vcfg
      /\ kind = "ing" => x = Ing
  BY <1>2, <1>3 DEF Vcfg, Ing, Secret, Deleted, Svc, Endp
<1> QED BY <1>1, <1>2, <1>4

\* The slice for a Secret is one of its own, and of the map or of nobody.
LEMMA SliceForType ==
    ASSUME VarnishOK, NEW s \in Secrets
    PROVE  /\ SliceFor(s) \in {s} \X Gens /\ SliceFor(s) \in Slices /\ SliceFor(s) # Nil
           /\ \/ stored[s] # Nil /\ SliceFor(s) = stored[s]
              \/ stored[s] = Nil /\ \A v \in VarnishSvcs : pointer[v] # SliceFor(s)
<1>1. {s} \X Gens \subseteq Slices /\ Nil \notin Slices
  BY SlicesAssumption DEF Slices
<1>2. CASE stored[s] # Nil
  BY <1>1, <1>2 DEF VarnishOK, SliceFor
<1>3. CASE stored[s] = Nil
  <2>1. PICK p \in [VarnishSvcs -> (Secrets \X Gens) \cup {Nil}] : p = pointer
    BY DEF VarnishOK, Slices
  <2>2. \E g \in Gens : \A v \in VarnishSvcs : p[v] # <<s, g>>
    BY GensAssumption
  <2>3. \E slice \in {s} \X Gens : \A v \in VarnishSvcs : pointer[v] # slice
    BY <2>1, <2>2
  <2>4. Fresh(s) \in {s} \X Gens /\ \A v \in VarnishSvcs : pointer[v] # Fresh(s)
    BY <2>3 DEF Fresh
  <2> QED BY <1>1, <1>3, <2>4 DEF SliceFor
<1> QED BY <1>2, <1>3

LEMMA CopyType ==
    ASSUME NEW b \in Seq(Nat), NEW d \in Seq(Nat)
    PROVE  /\ Copy(b, d) \in Seq(Nat)
           /\ Len(b) = Len(d) => Copy(b, d) = d
<1>1. DOMAIN b = 1 .. Len(b) /\ DOMAIN d = 1 .. Len(d) /\ Len(b) \in Nat
  OBVIOUS
<1>2. \A i \in 1 .. Len(b) : (IF i \in DOMAIN d THEN d[i] ELSE b[i]) \in Nat
  BY <1>1
<1>3. Copy(b, d) \in [1 .. Len(b) -> Nat]
  BY <1>1, <1>2 DEF Copy
<1>4. Copy(b, d) \in Seq(Nat) /\ Len(Copy(b, d)) = Len(b)
  BY <1>1, <1>3
<1>5. ASSUME Len(b) = Len(d) PROVE Copy(b, d) = d
  <2>1. \A i \in 1 .. Len(b) : Copy(b, d)[i] = d[i]
    BY <1>1, <1>5 DEF Copy
  <2> QED BY <1>1, <1>4, <1>5, <2>1
<1> QED BY <1>4, <1>5

\* What SetAdmSecret stores.
LEMMA SetAdmSecretTypes ==
    ASSUME VarnishOK, NEW s \in Secrets, secret[s] \in Contents, SetAdmSecret(s)
    PROVE  /\ stored' \in [Secrets -> Slices \cup {Nil}]
           /\ \A t \in Secrets : stored'[t] \in ({t} \X Gens) \cup {Nil}
           /\ stored'[s] = SliceFor(s)
           /\ \A t \in Secrets \ {s} : stored'[t] = stored[t]
           /\ bytes' \in [Slices -> Seq(Nat)]
           /\ \A slice \in Slices \ {SliceFor(s)} : bytes'[slice] = bytes[slice]
           /\ bytes'[SliceFor(s)] = IF stored[s] = Nil THEN secret[s]
                                    ELSE Copy(bytes[stored[s]], secret[s])
<1>1. PICK slice \in Slices : slice = SliceFor(s)
  BY SliceForType
<1>2. slice \in {s} \X Gens /\ (stored[s] # Nil => slice = stored[s])
  BY <1>1, SliceForType
<1>3. /\ stored' = [stored EXCEPT ![s] = slice]
      /\ bytes' = [bytes EXCEPT ![slice] =
             IF stored[s] = Nil THEN secret[s] ELSE Copy(bytes[slice], secret[s])]
  BY <1>1 DEF SetAdmSecret
<1>4. secret[s] \in Seq(Nat) /\ Copy(bytes[slice], secret[s]) \in Seq(Nat)
  BY ContentsAssumption, CopyType DEF VarnishOK
<1> QED BY <1>1, <1>2, <1>3, <1>4 DEF VarnishOK

\* What the operations for the Services leave, with success or failure.
SvcsOK(x, p) ==
    /\ x \in [VarnishSvcs -> {"unknown", "created", "addressed"}]
    /\ p \in [VarnishSvcs -> Slices \cup {Nil}]
    /\ \A v \in VarnishSvcs : x[v] = "unknown" => p[v] = Nil

LEMMA QueueTypes ==
    ASSUME WorkOK, queue # <<>>, NEW items \in Seq(Items)
    PROVE  (Synced(items) \/ Failed(items)) => WorkOK'
  BY SyncedWaits, FailedWaits DEF WorkOK

LEMMA FaultTypes == ASSUME BoundsOK, UNCHANGED changes PROVE (Fault \/ NoFault) => BoundsOK'
  BY BoundsAssumption DEF BoundsOK, Fault, NoFault

LEMMA UpdateSvcsTypes ==
    ASSUME VarnishOK, NEW U \in SUBSET VarnishSvcs, NEW slice \in Slices \cup {Nil},
           UpdateSvcsForSecret(U, slice)
    PROVE  /\ SvcsOK(svc', pointer')
           /\ \A v \in VarnishSvcs \ U : svc'[v] = svc[v] /\ pointer'[v] = pointer[v]
           /\ \A v \in VarnishSvcs : svc[v] = "addressed" => svc'[v] = "addressed"
           /\ (Synced(<<>>) \/ Failed(<<>>)) /\ (Fault \/ NoFault)
<1>1. ASSUME NEW D \in SUBSET U, Associate(D, slice),
             slice # Nil \/ \A v \in D : svc[v] # "unknown"
      PROVE  /\ SvcsOK(svc', pointer')
             /\ \A v \in VarnishSvcs \ U : svc'[v] = svc[v] /\ pointer'[v] = pointer[v]
             /\ \A v \in VarnishSvcs : svc[v] = "addressed" => svc'[v] = "addressed"
  BY <1>1 DEF VarnishOK, SvcsOK, Associate
<1>2. CASE /\ \A v \in U : slice # Nil \/ svc[v] = "unknown"
           /\ Associate(IF slice = Nil THEN {} ELSE U, slice)
           /\ Synced(<<>>) /\ NoFault
  <2>1. CASE slice = Nil
    BY <1>1, <1>2, <2>1
  <2>2. CASE slice # Nil
    BY <1>1, <1>2, <2>2
  <2> QED BY <2>1, <2>2
<1>3. CASE \E v \in U : /\ slice = Nil /\ svc[v] # "unknown"
                        /\ Associate({v}, Nil)
                        /\ Failed(<<>>) /\ NoFault
  BY <1>1, <1>3
<1>4. CASE \E D \in SUBSET U, v \in Configured :
               /\ slice # Nil /\ v \in D /\ svc[v] = "addressed"
               /\ Associate(D, slice)
               /\ Failed(<<>>) /\ Fault
  BY <1>1, <1>4
<1> QED BY <1>2, <1>3, <1>4 DEF UpdateSvcsForSecret

LEMMA AddOrUpdateTypes ==
    ASSUME VarnishOK, NEW v \in VarnishSvcs, NEW slice \in Slices \cup {Nil},
           AddOrUpdateVarnishSvc(v, slice)
    PROVE  /\ SvcsOK(svc', pointer')
           /\ \A w \in VarnishSvcs \ {v} : svc'[w] = svc[w] /\ pointer'[w] = pointer[w]
           /\ svc'[v] = "addressed" /\ pointer'[v] = slice
           /\ (Synced(<<>>) \/ Failed(<<>>)) /\ (Fault \/ NoFault)
<1>1. PICK z \in Slices \cup {Nil} : z = slice
  OBVIOUS
<1>2. /\ pointer' = [pointer EXCEPT ![v] = z]
      /\ svc' = [svc EXCEPT ![v] = "addressed"]
      /\ (Synced(<<>>) \/ Failed(<<>>)) /\ (Fault \/ NoFault)
  BY <1>1 DEF AddOrUpdateVarnishSvc
<1> QED BY <1>1, <1>2 DEF VarnishOK, SvcsOK

LEMMA FirstVolume ==
    ASSUME ClusterOK, NEW v \in VarnishSvcs, HasVolumes(v)
    PROVE  /\ pods[v] \in PodSpecs /\ pods[v] \in Seq(Secrets) /\ pods[v][1] \in Secrets
           /\ pods[v][1] \in ToSet(pods[v])
<1>1. pods[v] \in PodSpecs /\ pods[v] # <<>>
  BY DEF ClusterOK, HasVolumes
<1>2. PICK p \in Seq(Secrets) : p = pods[v] /\ p # <<>>
  BY <1>1, PodsAssumption
<1>3. 1 \in DOMAIN p /\ p[1] \in Secrets
  BY <1>2
<1> QED BY <1>1, <1>2, <1>3 DEF ToSet

\* The queue at the start.
LEMMA InitialWork ==
    ASSUME Init
    PROVE  WorkOK /\ Vcfg \in Waiting /\ \A v \in VarnishSvcs : Svc(v) \in Waiting
<1> DEFINE present == {s \in Secrets : secret[s] # Absent}
           S == {Secret(s) : s \in present}
           V == {Svc(v) : v \in VarnishSvcs}
<1>1. IsFiniteSet(S)
  <2>1. PICK P \in SUBSET Secrets : P = present
    OBVIOUS
  <2>2. IsFiniteSet(P)
    BY FiniteAssumption, FS_Subset
  <2>3. [s \in P |-> Secret(s)] \in Surjection(P, {Secret(s) : s \in P})
    BY DEF Surjection
  <2>4. IsFiniteSet({Secret(s) : s \in P})
    BY <2>2, <2>3, FS_Surjection
  <2> QED BY <2>1, <2>4
<1>2. IsFiniteSet(V)
  <2>1. [v \in VarnishSvcs |-> Svc(v)] \in Surjection(VarnishSvcs, V)
    BY DEF Surjection
  <2> QED BY <2>1, FiniteAssumption, FS_Surjection
<1>3. PICK first, svcs : /\ first = SetToSeq(S) /\ svcs = SetToSeq(V)
                         /\ queue \in {first \o (svcs \o <<Vcfg>>), (svcs \o <<Vcfg>>) \o first}
                         /\ retries = <<>>
  BY DEF Init
<1>4. S \subseteq Items /\ V \subseteq Items /\ Vcfg \in Items
  BY ItemTypes
<1>5. first \in Seq(Items) /\ svcs \in Seq(Items) /\ ToSet(svcs) = V
  <2>1. PICK T : T = S /\ IsFiniteSet(T)
    BY <1>1
  <2>2. first \in Seq(T)
    BY <1>3, <2>1, SequenceOfSet
  <2>3. svcs \in Seq(V) /\ ToSet(svcs) = V
    BY <1>2, <1>3, SequenceOfSet
  <2> HIDE DEF S, V
  <2> QED BY <1>4, <2>1, <2>2, <2>3
<1> HIDE DEF S, V
<1>6. \A q \in Seq(Items), x \in Items :
        Append(q, x) \in Seq(Items) /\ ToSet(Append(q, x)) = ToSet(q) \cup {x}
  BY AppendedOne
<1>7. svcs \o <<Vcfg>> = Append(svcs, Vcfg)
  BY <1>4, <1>5
<1>8. PICK others \in Seq(Items) : others = svcs \o <<Vcfg>> /\ ToSet(others) = V \cup {Vcfg}
  BY <1>4, <1>5, <1>6, <1>7
<1>9. queue \in Seq(Items) /\ V \cup {Vcfg} \subseteq ToSet(queue)
  <2>1. /\ first \o others \in Seq(Items) /\ others \o first \in Seq(Items)
        /\ ToSet(others) \subseteq ToSet(first \o others)
        /\ ToSet(others) \subseteq ToSet(others \o first)
    <3>1. \A p, q \in Seq(Items) :
            p \o q \in Seq(Items) /\ ToSet(p \o q) = ToSet(p) \cup ToSet(q)
      BY Appended
    <3>2. /\ first \o others \in Seq(Items)
          /\ ToSet(first \o others) = ToSet(first) \cup ToSet(others)
          /\ others \o first \in Seq(Items)
          /\ ToSet(others \o first) = ToSet(others) \cup ToSet(first)
      BY <1>5, <3>1, Zenon
    <3> QED BY <3>2
  <2> QED BY <1>3, <1>8, <2>1
<1> QED BY <1>3, <1>9 DEF WorkOK, Waiting, V

LEMMA TypeInit == Init => TypeOK
<1> SUFFICES ASSUME Init PROVE TypeOK
  OBVIOUS
<1>1. ClusterOK
  BY DEF Init, ClusterOK, Values
<1>2. VarnishOK
  BY DEF Init, VarnishOK
<1>3. CredsOK
  BY DEF Init, CredsOK, Values
<1>4. BoundsOK
  BY BoundsAssumption DEF Init, BoundsOK
<1> QED BY <1>1, <1>2, <1>3, <1>4, InitialWork, TypeParts

LEMMA ChangedTypes ==
    ASSUME TypeOK, NEW kind, NEW item \in Items, Changed(kind, item)
    PROVE  WorkOK' /\ VarnishOK' /\ CredsOK' /\ BoundsOK' /\ Waiting' = Waiting \cup {item}
<1>1. WorkOK /\ VarnishOK /\ CredsOK /\ BoundsOK
  BY TypeParts
<1>2. <<item>> \in Seq(Items) /\ ToSet(<<item>>) = {item} /\ Enqueue(<<item>>)
  BY DEF Changed, ToSet
<1>3. WorkOK' /\ Waiting' = Waiting \cup {item}
  BY <1>1, <1>2, EnqueueWaits DEF WorkOK
<1>4. VarnishOK' /\ CredsOK'
  BY <1>1 DEF Changed, varnish, VarnishOK, CredsOK
<1>5. BoundsOK'
  BY <1>1, BoundsAssumption DEF Changed, BoundsOK
<1> QED BY <1>3, <1>4, <1>5

LEMMA TypeStep == TypeOK /\ [Next]_vars => TypeOK'
<1> SUFFICES ASSUME TypeOK, [Next]_vars PROVE TypeOK'
  OBVIOUS
<1>0. ClusterOK /\ WorkOK /\ VarnishOK /\ CredsOK /\ BoundsOK
  BY TypeParts
<1>1. ASSUME NEW s \in Secrets, NEW value \in Values,
             UpdateSecret(s, value) \/ CreateSecret(s, value)
      PROVE  TypeOK'
  <2>1. PICK kind : Changed(kind, Secret(s))
    BY <1>1 DEF UpdateSecret, CreateSecret
  <2>2. ClusterOK'
    BY <1>0, <1>1 DEF UpdateSecret, CreateSecret, ClusterOK
  <2> QED BY <2>1, <2>2, ItemTypes, ChangedTypes, TypePartsNext
<1>2. ASSUME NEW s \in Secrets, DeleteSecret(s) PROVE TypeOK'
  <2>1. PICK kind : Changed(kind, Deleted(s))
    BY <1>2 DEF DeleteSecret
  <2>2. ClusterOK'
    BY <1>0, <1>2 DEF DeleteSecret, ClusterOK, Values
  <2> QED BY <2>1, <2>2, ItemTypes, ChangedTypes, TypePartsNext
<1>3. ASSUME NEW v \in VarnishSvcs, NEW spec \in PodSpecs \cup {NoPods}, ReplacePods(v, spec)
      PROVE TypeOK'
  <2>1. PICK kind : Changed(kind, Endp(v))
    BY <1>3 DEF ReplacePods
  <2>2. ClusterOK'
    BY <1>0, <1>3 DEF ReplacePods, ClusterOK
  <2> QED BY <2>1, <2>2, ItemTypes, ChangedTypes, TypePartsNext
<1>4. ASSUME NEW kind, Handles(kind)
      PROVE  /\ ClusterOK' /\ UNCHANGED changes /\ queue # <<>>
             /\ \A items \in Seq(Items) :
                    ReturnsNil(items) \/ ReturnsError => TypeOK'
  <2>1. ClusterOK' /\ UNCHANGED changes /\ queue # <<>>
    BY <1>0, <1>4 DEF Handles, Takes, cluster, ClusterOK
  <2>2. ASSUME NEW items \in Seq(Items), ReturnsNil(items) \/ ReturnsError PROVE TypeOK'
    <3>1. <<>> \in Seq(Items)
      OBVIOUS
    <3>2. WorkOK'
      BY <1>0, <2>1, <2>2, <3>1, QueueTypes DEF ReturnsNil, ReturnsError
    <3>3. VarnishOK' /\ CredsOK' /\ BoundsOK'
      BY <1>0, <2>1, <2>2 DEF ReturnsNil, ReturnsError, varnish, VarnishOK, CredsOK, BoundsOK
    <3> QED BY <2>1, <3>2, <3>3, TypePartsNext
  <2> QED BY <2>1, <2>2
<1>5. ASSUME NEW s \in Secrets PROVE VcfgsForSecret(s) \in Seq(Items)
  BY ItemTypes DEF VcfgsForSecret
<1>6. <<>> \in Seq(Items) /\ <<Ing>> \in Seq(Items)
      /\ \A v \in VarnishSvcs : <<Svc(v)>> \in Seq(Items)
  BY ItemTypes
<1>7. ASSUME ClusterOK', UNCHANGED <<changes, creds>>, queue # <<>>,
             Synced(<<>>) \/ Failed(<<>>), Fault \/ NoFault, VarnishOK'
      PROVE  TypeOK'
  <2>1. WorkOK' /\ BoundsOK'
    BY <1>0, <1>6, <1>7, QueueTypes, FaultTypes
  <2>2. CredsOK'
    BY <1>0, <1>7 DEF CredsOK
  <2> QED BY <1>7, <2>1, <2>2, TypePartsNext
<1>8. ASSUME SyncSecret PROVE TypeOK'
  <2>1. Handles("secret")
    BY <1>8 DEF SyncSecret
  <2>2. PICK s \in Secrets : s = Head(queue).key
    BY <1>0, <2>1, HandledItem
  <2>3. PICK U \in SUBSET VarnishSvcs : U = VarnishSvcsForSecret(s)
    BY DEF VarnishSvcsForSecret
  <2>4. CASE ReturnsError \/ \E items \in {<<>>, VcfgsForSecret(s)} : ReturnsNil(items)
    BY <1>4, <1>5, <1>6, <2>1, <2>4
  <2>5. CASE /\ secret[s] \notin {Absent, NoKey} /\ SetAdmSecret(s)
             /\ UpdateSvcsForSecret(U, SliceFor(s)) /\ UNCHANGED creds
    <3>1. secret[s] \in Contents
      BY <1>0, <2>5 DEF ClusterOK, Values
    <3>2. PICK slice \in Slices : slice = SliceFor(s)
      BY <1>0, SliceForType
    <3>3. SvcsOK(svc', pointer') /\ (Synced(<<>>) \/ Failed(<<>>)) /\ (Fault \/ NoFault)
      BY <1>0, <2>5, <3>2, UpdateSvcsTypes
    <3>4. VarnishOK'
      BY <1>0, <2>5, <3>1, <3>3, SetAdmSecretTypes DEF VarnishOK, SvcsOK
    <3> QED BY <1>4, <1>7, <2>1, <2>5, <3>3, <3>4
  <2> QED BY <1>8, <2>2, <2>3, <2>4, <2>5 DEF SyncSecret
<1>9. ASSUME SyncSecretDeleted PROVE TypeOK'
  <2>1. Handles("secretDeleted")
    BY <1>9 DEF SyncSecretDeleted
  <2>2. PICK s \in Secrets : s = Head(queue).key
    BY <1>0, <2>1, HandledItem
  <2>3. PICK U \in SUBSET VarnishSvcs : U = VarnishSvcsForSecret(s)
    BY DEF VarnishSvcsForSecret
  <2>4. CASE ReturnsNil(VcfgsForSecret(s))
    BY <1>4, <1>5, <2>1, <2>4
  <2>5. CASE /\ stored' = [stored EXCEPT ![s] = Nil]
             /\ UpdateSvcsForSecret(U, Nil) /\ UNCHANGED <<bytes, creds>>
    <3>1. SvcsOK(svc', pointer') /\ (Synced(<<>>) \/ Failed(<<>>)) /\ (Fault \/ NoFault)
      BY <1>0, <2>5, UpdateSvcsTypes
    <3>2. VarnishOK'
      BY <1>0, <2>5, <3>1 DEF VarnishOK, SvcsOK
    <3> QED BY <1>4, <1>7, <2>1, <2>5, <3>1, <3>2
  <2> QED BY <1>9, <2>2, <2>3, <2>4, <2>5 DEF SyncSecretDeleted
<1>10. ASSUME SyncSvc PROVE TypeOK'
  <2>1. Handles("svc")
    BY <1>10 DEF SyncSvc
  <2>2. PICK v \in VarnishSvcs : v = Head(queue).key
    BY <1>0, <2>1, HandledItem
  <2>3. ASSUME NEW slice \in Slices \cup {Nil}, AddOrUpdateVarnishSvc(v, slice), UNCHANGED creds,
               UNCHANGED <<stored, bytes>>
               \/ \E s \in Secrets : secret[s] \in Contents /\ SetAdmSecret(s)
        PROVE  TypeOK'
    <3>1. SvcsOK(svc', pointer') /\ (Synced(<<>>) \/ Failed(<<>>)) /\ (Fault \/ NoFault)
      BY <1>0, <2>3, AddOrUpdateTypes
    <3>2. CASE UNCHANGED <<stored, bytes>>
      <4>1. VarnishOK'
        BY <1>0, <3>1, <3>2 DEF VarnishOK, SvcsOK
      <4> QED BY <1>4, <1>7, <2>1, <2>3, <3>1, <4>1
    <3>3. ASSUME NEW s \in Secrets, secret[s] \in Contents, SetAdmSecret(s) PROVE TypeOK'
      <4>1. VarnishOK'
        BY <1>0, <3>1, <3>3, SetAdmSecretTypes DEF VarnishOK, SvcsOK
      <4> QED BY <1>4, <1>7, <2>1, <2>3, <3>1, <4>1
    <3> QED BY <2>3, <3>2, <3>3
  <2>4. CASE ReturnsError
    BY <1>4, <1>6, <2>1, <2>4
  <2>5. CASE AddOrUpdateVarnishSvc(v, Nil) /\ UNCHANGED <<stored, bytes, creds>>
    BY <2>3, <2>5
  <2>6. CASE /\ HasVolumes(v) /\ AddOrUpdateVarnishSvc(v, stored[pods[v][1]])
             /\ UNCHANGED <<stored, bytes, creds>>
    <3>1. PICK slice \in Slices \cup {Nil} : slice = stored[pods[v][1]]
      BY <1>0, <2>6, FirstVolume DEF VarnishOK
    <3> QED BY <2>3, <2>6, <3>1
  <2>7. CASE /\ HasVolumes(v) /\ secret[pods[v][1]] \notin {Absent, NoKey}
             /\ SetAdmSecret(pods[v][1])
             /\ AddOrUpdateVarnishSvc(v, SliceFor(pods[v][1])) /\ UNCHANGED creds
    <3>1. PICK s \in Secrets : s = pods[v][1]
      BY <1>0, <2>7, FirstVolume
    <3>2. secret[s] \in Contents
      BY <1>0, <2>7, <3>1 DEF ClusterOK, Values
    <3>3. PICK slice \in Slices : slice = SliceFor(s)
      BY <1>0, SliceForType
    <3> QED BY <2>3, <2>7, <3>1, <3>2, <3>3
  <2> QED BY <1>10, <2>2, <2>4, <2>5, <2>6, <2>7 DEF SyncSvc
<1>11. ASSUME SyncEndp PROVE TypeOK'
  BY <1>0, <1>4, <1>6, <1>11, HandledItem DEF SyncEndp
<1>12. ASSUME SyncVcfg PROVE TypeOK'
  BY <1>4, <1>6, <1>12 DEF SyncVcfg
<1>13. ASSUME SyncIng PROVE TypeOK'
  <2>1. Handles("ing")
    BY <1>13 DEF SyncIng
  <2>2. CASE ReturnsError
    BY <1>4, <1>6, <2>1, <2>2
  <2>3. CASE /\ creds' = [s \in AuthSecrets |-> secret[s]]
             /\ Synced(<<>>) /\ UNCHANGED <<varnish, faults>>
    <3>1. WorkOK'
      BY <1>0, <1>4, <1>6, <2>1, <2>3, QueueTypes
    <3>2. VarnishOK' /\ BoundsOK' /\ ClusterOK'
      BY <1>0, <1>4, <2>1, <2>3 DEF varnish, VarnishOK, BoundsOK
    <3>3. CredsOK'
      BY <1>0, <2>3, SubsetsAssumption DEF CredsOK, ClusterOK
    <3> QED BY <3>1, <3>2, <3>3, TypePartsNext
  <2> QED BY <1>13, <2>2, <2>3 DEF SyncIng
<1>14. ASSUME NEW n \in DOMAIN retries, Retries(n) PROVE TypeOK'
  <2>1. WorkOK'
    BY <1>0, <1>14, RetryWaits DEF WorkOK, Retries
  <2>2. ClusterOK' /\ VarnishOK' /\ CredsOK' /\ BoundsOK'
    BY <1>0, <1>14 DEF Retries, cluster, varnish, ClusterOK, VarnishOK, CredsOK, BoundsOK
  <2> QED BY <2>1, <2>2, TypePartsNext
<1>15. CASE UNCHANGED vars
  BY <1>15 DEF vars, TypeOK
<1> QED
  BY <1>1, <1>2, <1>3, <1>8, <1>9, <1>10, <1>11, <1>12, <1>13, <1>14, <1>15
  DEF Next, Change, Worker

\* Every variable keeps its type, for any Secrets, Services and Pods.
THEOREM SecretTypeCorrect == Spec => []TypeOK
<1> QED BY TypeInit, TypeStep, PTL DEF Spec

-----------------------------------------------------------------------------
(* No change is missed, under three assumptions: Pods have one Secret      *)
(* volume at most, the values of an admin secret have the same length, and *)
(* no Secret is an admin secret and has credentials as well.               *)

OneVolume == \A p \in PodSpecs : Len(p) <= 1
EqualLengths == \A c, d \in Contents : Len(c) = Len(d)
NotBoth == \A p \in PodSpecs : ToSet(p) \cap AuthSecrets = {}
Separate == OneVolume /\ EqualLengths /\ NotBoth

\* Either a Service has what it should have, or an item waits that will see to
\* it: one of the Service, or one of its Secret.
Right(v) == HasAdmSecret(v) => UsesAdmSecret(v) /\ pointer[v] \in {pods[v][1]} \X Gens
SvcItems(v) == {Svc(v), Endp(v)}
SecretItems(v) == IF HasVolumes(v) THEN {Secret(pods[v][1]), Deleted(pods[v][1])} ELSE {}
Covered(v) == Right(v) \/ (SvcItems(v) \cup SecretItems(v)) \cap Waiting # {}
Addressed(v) == svc[v] = "addressed" \/ SvcItems(v) \cap Waiting # {}

\* The same for credentials.
CredItems(a) == {Vcfg, Ing, Secret(a), Deleted(a)}
CredCovered(a) == creds[a] = secret[a] \/ CredItems(a) \cap Waiting # {}

\* What the map has is the value of a key.
BytesOK == \A s \in Secrets : stored[s] # Nil => bytes[stored[s]] \in Contents

Inv ==
    /\ TypeOK
    /\ BytesOK
    /\ \A v \in VarnishSvcs : Covered(v) /\ Addressed(v)
    /\ \A a \in AuthSecrets \cap Labelled : CredCovered(a)

LEMMA ItemsDiffer ==
    /\ Vcfg # Ing
    /\ \A s, t : /\ Secret(s) \notin {Vcfg, Ing} /\ Deleted(s) \notin {Vcfg, Ing}
                 /\ Svc(s) \notin {Vcfg, Ing} /\ Endp(s) \notin {Vcfg, Ing}
                 /\ Secret(s) \notin {Deleted(t), Svc(t), Endp(t)}
                 /\ Deleted(s) \notin {Svc(t), Endp(t)}
                 /\ Svc(s) # Endp(t)
                 /\ (Secret(s) = Secret(t) \/ Deleted(s) = Deleted(t)
                     \/ Svc(s) = Svc(t) \/ Endp(s) = Endp(t)) => s = t
  BY DEF Vcfg, Ing, Secret, Deleted, Svc, Endp

\* With one volume, the Services of a Secret are those that it is the first of.
LEMMA OwnSecret ==
    ASSUME OneVolume, ClusterOK, NEW s \in Secrets, NEW v \in VarnishSvcs
    PROVE  v \in VarnishSvcsForSecret(s) <=> HasVolumes(v) /\ pods[v][1] = s
<1>1. CASE HasVolumes(v)
  <2>1. PICK p \in PodSpecs : p = pods[v] /\ p \in Seq(Secrets) /\ p # <<>> /\ Len(p) <= 1
    BY <1>1, FirstVolume DEF HasVolumes, OneVolume
  <2>2. DOMAIN p = {1}
    BY <2>1
  <2>3. s \in ToSet(p) <=> p[1] = s
    BY <2>2 DEF ToSet
  <2> QED BY <1>1, <2>1, <2>3 DEF VarnishSvcsForSecret, HasVolumes
<1>2. CASE ~HasVolumes(v)
  <2>1. ToSet(<<>>) = {}
    BY DEF ToSet
  <2> QED BY <1>2, <2>1 DEF VarnishSvcsForSecret, HasVolumes
<1> QED BY <1>1, <1>2

\* A step that takes x away, at most, keeps a Service covered if x was not
\* needed for it.
LEMMA KeepsCovered ==
    ASSUME NEW x, Waiting \subseteq Waiting' \cup {x}, UNCHANGED cluster,
           NEW v \in VarnishSvcs, Covered(v), Right(v) => Right(v)',
           x \in SvcItems(v) \cup SecretItems(v) =>
               Right(v)' \/ (SvcItems(v) \cup SecretItems(v)) \cap Waiting' # {}
    PROVE  Covered(v)'
<1>1. SvcItems(v)' = SvcItems(v) /\ SecretItems(v)' = SecretItems(v)
  BY DEF SvcItems, SecretItems, HasVolumes, cluster, Svc, Endp, Secret, Deleted
<1> QED BY <1>1 DEF Covered

LEMMA KeepsAddressed ==
    ASSUME NEW x, Waiting \subseteq Waiting' \cup {x},
           NEW v \in VarnishSvcs, Addressed(v), svc[v] = "addressed" => svc'[v] = "addressed",
           x \in SvcItems(v) => svc'[v] = "addressed" \/ SvcItems(v) \cap Waiting' # {}
    PROVE  Addressed(v)'
<1>1. SvcItems(v)' = SvcItems(v)
  BY DEF SvcItems, Svc, Endp
<1> QED BY <1>1 DEF Addressed

LEMMA KeepsCredCovered ==
    ASSUME NEW x, Waiting \subseteq Waiting' \cup {x},
           NEW a, CredCovered(a), creds'[a] = creds[a], secret'[a] = secret[a],
           x \in CredItems(a) => CredItems(a) \cap Waiting' # {}
    PROVE  CredCovered(a)'
<1>1. CredItems(a)' = CredItems(a)
  BY DEF CredItems, Vcfg, Ing, Secret, Deleted
<1> QED BY <1>1 DEF CredCovered

\* When nothing changes but the queue, and no item goes but x.
LEMMA KeepsAll ==
    ASSUME Inv, TypeOK', UNCHANGED <<cluster, varnish, creds>>,
           NEW x, Waiting \subseteq Waiting' \cup {x},
           \A v \in VarnishSvcs :
               /\ x \in SecretItems(v) =>
                      Right(v) \/ (SvcItems(v) \cup SecretItems(v)) \cap Waiting' # {}
               /\ x \in SvcItems(v) => SvcItems(v) \cap Waiting' # {},
           \A a \in AuthSecrets \cap Labelled : x \in CredItems(a) => CredItems(a) \cap Waiting' # {}
    PROVE  Inv'
<1>1. \A v \in VarnishSvcs : Right(v) <=> Right(v)'
  BY DEF Right, HasAdmSecret, HasVolumes, UsesAdmSecret, cluster, varnish
<1>2. ASSUME NEW v \in VarnishSvcs PROVE Covered(v)'
  <2>1. Covered(v) /\ (Right(v) => Right(v)')
    BY <1>1 DEF Inv
  <2>2. x \in SvcItems(v) \cup SecretItems(v) =>
            Right(v)' \/ (SvcItems(v) \cup SecretItems(v)) \cap Waiting' # {}
    BY <1>1
  <2> QED BY <2>1, <2>2, KeepsCovered
<1>3. ASSUME NEW v \in VarnishSvcs PROVE Addressed(v)'
  BY KeepsAddressed DEF Inv, varnish
<1>4. ASSUME NEW a \in AuthSecrets \cap Labelled PROVE CredCovered(a)'
  BY KeepsCredCovered DEF Inv, cluster
<1>5. BytesOK'
  BY DEF Inv, BytesOK, varnish
<1> QED BY <1>2, <1>3, <1>4, <1>5 DEF Inv

\* What SetAdmSecret leaves, with values of the same length.
LEMMA SetAdmSecretBytes ==
    ASSUME EqualLengths, VarnishOK, BytesOK, NEW s \in Secrets, secret[s] \in Contents,
           SetAdmSecret(s)
    PROVE  BytesOK' /\ bytes'[SliceFor(s)] = secret[s]
<1>1. PICK slice \in {s} \X Gens : slice = SliceFor(s) /\ slice \in Slices /\ slice # Nil
  BY SliceForType
<1>2. bytes'[slice] = secret[s]
  <2>1. CASE stored[s] = Nil
    BY <1>1, <2>1, SetAdmSecretTypes
  <2>2. CASE stored[s] # Nil
    <3>1. PICK b \in Contents : b = bytes[stored[s]]
      BY <2>2 DEF BytesOK
    <3>2. PICK d \in Contents : d = secret[s]
      OBVIOUS
    <3>3. Copy(b, d) = d
      <4>1. b \in Seq(Nat) /\ d \in Seq(Nat) /\ Len(b) = Len(d)
        BY ContentsAssumption DEF EqualLengths
      <4> QED BY <4>1, CopyType
    <3> QED BY <1>1, <2>2, <3>1, <3>2, <3>3, SetAdmSecretTypes
  <2> QED BY <2>1, <2>2
<1>3. ASSUME NEW t \in Secrets, stored'[t] # Nil PROVE bytes'[stored'[t]] \in Contents
  <2>1. CASE t = s
    BY <1>1, <1>2, <2>1, SetAdmSecretTypes
  <2>2. CASE t # s
    <3>1. stored'[t] = stored[t] /\ stored[t] \in {t} \X Gens /\ stored[t] \in Slices
      BY <1>3, <2>2, SetAdmSecretTypes DEF VarnishOK
    <3>2. stored[t] # slice
      BY <1>1, <2>2, <3>1
    <3> QED BY <1>1, <1>3, <3>1, <3>2, SetAdmSecretTypes DEF BytesOK
  <2> QED BY <2>1, <2>2
<1> QED BY <1>1, <1>2, <1>3 DEF BytesOK

\* A Service that is right and not touched stays right.
LEMMA StaysRight ==
    ASSUME EqualLengths, ClusterOK, VarnishOK, BytesOK, NEW s \in Secrets,
           secret[s] \in Contents, SetAdmSecret(s), UNCHANGED cluster,
           NEW v \in VarnishSvcs, Right(v), svc'[v] = svc[v], pointer'[v] = pointer[v]
    PROVE  Right(v)'
<1> SUFFICES ASSUME HasAdmSecret(v)
             PROVE  UsesAdmSecret(v)' /\ pointer[v] \in {pods[v][1]} \X Gens
  BY DEF Right, HasAdmSecret, HasVolumes, cluster
<1>1. /\ svc[v] = "addressed" /\ pointer[v] # Nil /\ bytes[pointer[v]] = secret[pods[v][1]]
      /\ pointer[v] \in {pods[v][1]} \X Gens /\ pointer[v] \in Slices
  BY DEF Right, UsesAdmSecret, VarnishOK
<1>2. PICK slice \in {s} \X Gens : slice = SliceFor(s)
  BY SliceForType
<1>3. bytes'[pointer[v]] = secret[pods[v][1]]
  <2>1. CASE pointer[v] = slice
    <3>1. pods[v][1] = s
      BY <1>1, <1>2, <2>1
    <3> QED BY <1>2, <2>1, <3>1, SetAdmSecretBytes
  <2>2. CASE pointer[v] # slice
    BY <1>1, <1>2, <2>2, SetAdmSecretTypes
  <2> QED BY <2>1, <2>2
<1> QED BY <1>1, <1>3 DEF UsesAdmSecret, cluster

LEMMA InvInit == Init => Inv
<1> SUFFICES ASSUME Init PROVE Inv
  OBVIOUS
<1>1. TypeOK
  BY TypeInit
<1>2. BytesOK
  BY DEF Init, BytesOK
<1>3. \A v \in VarnishSvcs : Covered(v) /\ Addressed(v)
  BY InitialWork DEF Covered, Addressed, SvcItems
<1>4. \A a \in AuthSecrets : CredCovered(a)
  BY InitialWork DEF CredCovered, CredItems
<1> QED BY <1>1, <1>2, <1>3, <1>4 DEF Inv

\* A change puts an item on the queue for all that it concerns.
LEMMA ChangesCovered ==
    ASSUME Inv, TypeOK', NEW kind, NEW item \in Items, Changed(kind, item),
           \A v \in VarnishSvcs :
               \/ item \in SvcItems(v)
               \/ pods'[v] = pods[v] /\ (item \in SecretItems(v) \/ ~HasVolumes(v)
                                         \/ secret'[pods[v][1]] = secret[pods[v][1]]),
           \A a \in AuthSecrets : item \in CredItems(a) \/ secret'[a] = secret[a]
    PROVE  Inv'
<1>0. Waiting' = Waiting \cup {item} /\ UNCHANGED <<varnish, creds>>
  BY ChangedTypes DEF Inv, Changed
<1>1. ASSUME NEW v \in VarnishSvcs PROVE Covered(v)'
  <2>1. CASE item \in SvcItems(v)
    BY <1>0, <2>1 DEF Covered, SvcItems, Svc, Endp
  <2>2. CASE pods'[v] = pods[v] /\ item \in SecretItems(v)
    BY <1>0, <2>2 DEF Covered, SecretItems, HasVolumes, Secret, Deleted
  <2>3. CASE pods'[v] = pods[v] /\ (~HasVolumes(v) \/ secret'[pods[v][1]] = secret[pods[v][1]])
    <3>1. Right(v) => Right(v)'
      BY <1>0, <2>3 DEF Right, HasAdmSecret, HasVolumes, UsesAdmSecret, varnish
    <3>2. SvcItems(v)' = SvcItems(v) /\ SecretItems(v)' = SecretItems(v)
      BY <2>3 DEF SvcItems, SecretItems, HasVolumes, Svc, Endp, Secret, Deleted
    <3> QED BY <1>0, <3>1, <3>2 DEF Inv, Covered
  <2> QED BY <2>1, <2>2, <2>3
<1>2. ASSUME NEW v \in VarnishSvcs PROVE Addressed(v)'
  BY <1>0 DEF Inv, Addressed, SvcItems, Svc, Endp, varnish
<1>3. ASSUME NEW a \in AuthSecrets \cap Labelled PROVE CredCovered(a)'
  BY <1>0 DEF Inv, CredCovered, CredItems, Vcfg, Ing, Secret, Deleted
<1>4. BytesOK'
  BY <1>0 DEF Inv, BytesOK, varnish
<1> QED BY <1>1, <1>2, <1>3, <1>4 DEF Inv

LEMMA InvChange == ASSUME Inv, TypeOK', Change PROVE Inv'
<1>0. ClusterOK
  BY TypeParts DEF Inv
<1>1. ASSUME NEW s \in Secrets, NEW value \in Values,
             UpdateSecret(s, value) \/ CreateSecret(s, value)
      PROVE  Inv'
  <2>1. PICK kind : Changed(kind, Secret(s))
    BY <1>1 DEF UpdateSecret, CreateSecret
  <2>2. pods' = pods /\ \A t \in Secrets \ {s} : secret'[t] = secret[t]
    BY <1>0, <1>1 DEF UpdateSecret, CreateSecret, ClusterOK
  <2>3. ASSUME NEW v \in VarnishSvcs, HasVolumes(v)
        PROVE  Secret(s) \in SecretItems(v) \/ secret'[pods[v][1]] = secret[pods[v][1]]
    BY <1>0, <2>2, <2>3, FirstVolume DEF SecretItems
  <2>4. \A a \in AuthSecrets : Secret(s) \in CredItems(a) \/ secret'[a] = secret[a]
    BY <2>2, SubsetsAssumption DEF CredItems
  <2> QED BY <2>1, <2>2, <2>3, <2>4, ItemTypes, ChangesCovered
<1>2. ASSUME NEW s \in Secrets, DeleteSecret(s) PROVE Inv'
  <2>1. PICK kind : Changed(kind, Deleted(s))
    BY <1>2 DEF DeleteSecret
  <2>2. pods' = pods /\ \A t \in Secrets \ {s} : secret'[t] = secret[t]
    BY <1>0, <1>2 DEF DeleteSecret, ClusterOK
  <2>3. ASSUME NEW v \in VarnishSvcs, HasVolumes(v)
        PROVE  Deleted(s) \in SecretItems(v) \/ secret'[pods[v][1]] = secret[pods[v][1]]
    BY <1>0, <2>2, <2>3, FirstVolume DEF SecretItems
  <2>4. \A a \in AuthSecrets : Deleted(s) \in CredItems(a) \/ secret'[a] = secret[a]
    BY <2>2, SubsetsAssumption DEF CredItems
  <2> QED BY <2>1, <2>2, <2>3, <2>4, ItemTypes, ChangesCovered
<1>3. ASSUME NEW v \in VarnishSvcs, NEW spec \in PodSpecs \cup {NoPods}, ReplacePods(v, spec)
      PROVE  Inv'
  <2>1. PICK kind : Changed(kind, Endp(v))
    BY <1>3 DEF ReplacePods
  <2>2. secret' = secret /\ \A w \in VarnishSvcs \ {v} : pods'[w] = pods[w]
    BY <1>0, <1>3 DEF ReplacePods, ClusterOK
  <2>3. Endp(v) \in SvcItems(v)
    BY DEF SvcItems
  <2> QED BY <2>1, <2>2, <2>3, ItemTypes, ChangesCovered
<1> QED BY <1>1, <1>2, <1>3 DEF Change

\* What waits after a handler that does not get to the Varnish controller.
LEMMA ReturnsWait ==
    ASSUME TypeOK, NEW kind, Handles(kind), NEW items \in Seq(Items)
    PROVE  /\ ReturnsError => Waiting' = Waiting /\ UNCHANGED <<cluster, varnish, creds>>
           /\ ReturnsNil(items) => /\ Waiting \subseteq Waiting' \cup {Head(queue)}
                                   /\ ToSet(items) \subseteq Waiting'
                                   /\ UNCHANGED <<cluster, varnish, creds>>
<1>1. queue \in Seq(Items) /\ retries \in Seq(Items) /\ queue # <<>> /\ UNCHANGED cluster
  BY DEF TypeOK, Handles, Takes
<1>2. <<>> \in Seq(Items) /\ ToSet(<<>>) = {}
  BY DEF ToSet
<1>3. ASSUME ReturnsError PROVE Waiting' = Waiting
  BY <1>1, <1>2, <1>3, FailedWaits DEF ReturnsError
<1>4. ASSUME ReturnsNil(items)
      PROVE  Waiting \subseteq Waiting' \cup {Head(queue)} /\ ToSet(items) \subseteq Waiting'
  BY <1>1, <1>4, SyncedWaits DEF ReturnsNil
<1> QED BY <1>1, <1>3, <1>4 DEF ReturnsError, ReturnsNil

\* An error that leaves the item as the only trace.
LEMMA InvError ==
    ASSUME Inv, TypeOK', NEW kind, Handles(kind), ReturnsError
    PROVE  Inv'
<1>1. Waiting' = Waiting /\ UNCHANGED <<cluster, varnish, creds>>
  <2>1. <<>> \in Seq(Items)
    OBVIOUS
  <2> QED BY <2>1, ReturnsWait DEF Inv
<1>2. PICK x \in Waiting : x = Head(queue)
  BY TakesItem DEF Inv, TypeOK, Handles
<1> QED BY <1>1, <1>2, KeepsAll

LEMMA InvSyncSecret == ASSUME Separate, Inv, TypeOK', SyncSecret PROVE Inv'
<1>0. TypeOK /\ ClusterOK /\ WorkOK /\ VarnishOK /\ Handles("secret")
  BY TypeParts DEF Inv, SyncSecret
<1>1. PICK s \in Secrets : s = Head(queue).key
  BY <1>0, HandledItem
<1>2. PICK x : x = Head(queue) /\ x = Secret(s) /\ x \in Waiting
  BY <1>0, <1>1, HandledItem, TakesItem DEF Handles, WorkOK
<1>3. PICK U \in SUBSET VarnishSvcs : U = VarnishSvcsForSecret(s)
  BY DEF VarnishSvcsForSecret
<1>4. \A v \in VarnishSvcs : v \in U <=> HasVolumes(v) /\ pods[v][1] = s
  BY <1>0, <1>3, OwnSecret DEF Separate
<1>5. /\ \A v \in VarnishSvcs : x \notin SvcItems(v) /\ (x \in SecretItems(v) <=> v \in U)
      /\ \A a \in AuthSecrets : x \in CredItems(a) <=> a = s
  BY <1>2, <1>4, ItemsDiffer DEF SvcItems, SecretItems, CredItems
<1>6. <<>> \in Seq(Items) /\ VcfgsForSecret(s) \in Seq(Items)
  BY ItemTypes DEF VcfgsForSecret
<1>7. CASE ReturnsError
  BY <1>0, <1>7, InvError
<1>8. CASE s \notin Labelled /\ ReturnsNil(<<>>)
  <2>1. Waiting \subseteq Waiting' \cup {x} /\ UNCHANGED <<cluster, varnish, creds>>
    BY <1>0, <1>2, <1>6, <1>8, ReturnsWait
  <2>2. \A v \in U : Right(v)
    BY <1>4, <1>8 DEF Right, HasAdmSecret
  <2> QED BY <1>5, <1>8, <2>1, <2>2, KeepsAll
<1>9. CASE U = {} /\ ReturnsNil(VcfgsForSecret(s))
  <2>1. /\ Waiting \subseteq Waiting' \cup {x} /\ UNCHANGED <<cluster, varnish, creds>>
        /\ ToSet(VcfgsForSecret(s)) \subseteq Waiting'
    BY <1>0, <1>2, <1>6, <1>9, ReturnsWait
  <2>2. ASSUME s \in AuthSecrets PROVE Vcfg \in Waiting'
    <3>1. ToSet(<<Vcfg>>) = {Vcfg}
      BY DEF ToSet
    <3> QED BY <2>1, <2>2, <3>1 DEF VcfgsForSecret
  <2>3. \A a \in AuthSecrets : x \in CredItems(a) => CredItems(a) \cap Waiting' # {}
    BY <1>5, <2>2 DEF CredItems
  <2> QED BY <1>5, <1>9, <2>1, <2>3, KeepsAll
<1>10. CASE /\ secret[s] \notin {Absent, NoKey} /\ U # {} /\ SetAdmSecret(s)
            /\ UpdateSvcsForSecret(U, SliceFor(s)) /\ UNCHANGED creds
  <2>1. secret[s] \in Contents /\ UNCHANGED cluster /\ queue # <<>>
    BY <1>0, <1>10 DEF ClusterOK, Values, Handles, Takes
  <2>2. PICK slice \in Slices : slice = SliceFor(s) /\ slice \in {s} \X Gens /\ slice # Nil
    BY <1>0, SliceForType
  <2>3. BytesOK' /\ bytes'[slice] = secret[s]
    BY <1>0, <1>10, <2>1, <2>2, SetAdmSecretBytes DEF Inv, Separate
  <2>4. /\ \A v \in VarnishSvcs \ U : svc'[v] = svc[v] /\ pointer'[v] = pointer[v]
        /\ \A v \in VarnishSvcs : svc[v] = "addressed" => svc'[v] = "addressed"
        /\ Synced(<<>>) \/ Failed(<<>>)
    BY <1>0, <1>10, <2>2, UpdateSvcsTypes
  <2>5. Failed(<<>>) \/ \A v \in U : pointer'[v] = slice
    BY <1>3, <1>10, <2>2 DEF UpdateSvcsForSecret, Associate
  <2>6. /\ Waiting \subseteq Waiting' \cup {x}
        /\ Failed(<<>>) => x \in Waiting'
    BY <1>0, <1>2, <1>6, <2>1, <2>4, SyncedWaits, FailedWaits DEF WorkOK
  <2>7. s \notin AuthSecrets
    <3>1. PICK v \in U : HasVolumes(v) /\ pods[v][1] = s
      BY <1>4, <1>10
    <3> QED BY <1>0, <3>1, FirstVolume DEF Separate, NotBoth
  <2>8. ASSUME NEW v \in VarnishSvcs PROVE Addressed(v)'
    BY <1>5, <2>4, <2>6, KeepsAddressed DEF Inv
  <2>9. ASSUME NEW v \in VarnishSvcs PROVE Covered(v)'
    <3>1. CASE v \notin U
      <4>1. Right(v) => Right(v)'
        BY <1>0, <1>10, <2>1, <2>4, <3>1, StaysRight DEF Inv, Separate
      <4> QED BY <1>5, <2>1, <2>6, <3>1, <4>1, KeepsCovered DEF Inv
    <3>2. CASE v \in U /\ Failed(<<>>)
      <4>1. x \in SecretItems(v)'
        BY <1>2, <1>4, <2>1, <3>2 DEF SecretItems, HasVolumes, cluster, Secret, Deleted
      <4> QED BY <2>6, <3>2, <4>1 DEF Covered
    <3>3. CASE v \in U /\ ~Failed(<<>>)
      <4>1. CASE svc'[v] = "addressed"
        <5>1. UsesAdmSecret(v)' /\ pointer'[v] \in {s} \X Gens
          BY <1>4, <2>1, <2>2, <2>3, <2>5, <3>3, <4>1 DEF UsesAdmSecret, cluster
        <5> QED BY <1>4, <2>1, <3>3, <5>1 DEF Covered, Right, cluster
      <4>2. CASE svc'[v] # "addressed"
        BY <2>8, <4>2 DEF Covered, Addressed
      <4> QED BY <4>1, <4>2
    <3> QED BY <3>1, <3>2, <3>3
  <2>10. ASSUME NEW a \in AuthSecrets \cap Labelled PROVE CredCovered(a)'
    BY <1>5, <1>10, <2>1, <2>6, <2>7, KeepsCredCovered DEF Inv, cluster
  <2> QED BY <2>3, <2>8, <2>9, <2>10 DEF Inv
<1> QED BY <1>0, <1>1, <1>3, <1>7, <1>8, <1>9, <1>10 DEF SyncSecret

LEMMA InvSyncSecretDeleted == ASSUME Separate, Inv, TypeOK', SyncSecretDeleted PROVE Inv'
<1>0. TypeOK /\ ClusterOK /\ WorkOK /\ VarnishOK /\ Handles("secretDeleted")
  BY TypeParts DEF Inv, SyncSecretDeleted
<1>1. PICK s \in Secrets : s = Head(queue).key
  BY <1>0, HandledItem
<1>2. PICK x : x = Head(queue) /\ x = Deleted(s) /\ x \in Waiting
  BY <1>0, <1>1, HandledItem, TakesItem DEF Handles, WorkOK
<1>3. PICK U \in SUBSET VarnishSvcs : U = VarnishSvcsForSecret(s)
  BY DEF VarnishSvcsForSecret
<1>4. \A v \in VarnishSvcs : v \in U <=> HasVolumes(v) /\ pods[v][1] = s
  BY <1>0, <1>3, OwnSecret DEF Separate
<1>5. /\ \A v \in VarnishSvcs : x \notin SvcItems(v) /\ (x \in SecretItems(v) <=> v \in U)
      /\ \A a \in AuthSecrets : x \in CredItems(a) <=> a = s
  BY <1>2, <1>4, ItemsDiffer DEF SvcItems, SecretItems, CredItems
<1>6. <<>> \in Seq(Items) /\ VcfgsForSecret(s) \in Seq(Items)
  BY ItemTypes DEF VcfgsForSecret
<1>7. CASE U = {} /\ ReturnsNil(VcfgsForSecret(s))
  <2>1. /\ Waiting \subseteq Waiting' \cup {x} /\ UNCHANGED <<cluster, varnish, creds>>
        /\ ToSet(VcfgsForSecret(s)) \subseteq Waiting'
    BY <1>0, <1>2, <1>6, <1>7, ReturnsWait
  <2>2. ASSUME s \in AuthSecrets PROVE Vcfg \in Waiting'
    <3>1. ToSet(<<Vcfg>>) = {Vcfg}
      BY DEF ToSet
    <3> QED BY <2>1, <2>2, <3>1 DEF VcfgsForSecret
  <2>3. \A a \in AuthSecrets : x \in CredItems(a) => CredItems(a) \cap Waiting' # {}
    BY <1>5, <2>2 DEF CredItems
  <2> QED BY <1>5, <1>7, <2>1, <2>3, KeepsAll
<1>8. CASE /\ U # {} /\ stored' = [stored EXCEPT ![s] = Nil]
           /\ UpdateSvcsForSecret(U, Nil) /\ UNCHANGED <<bytes, creds>>
  <2>1. UNCHANGED cluster /\ queue # <<>>
    BY <1>0 DEF Handles, Takes
  <2>2. BytesOK'
    BY <1>0, <1>8 DEF Inv, BytesOK, VarnishOK
  <2>3. /\ \A v \in VarnishSvcs \ U : svc'[v] = svc[v] /\ pointer'[v] = pointer[v]
        /\ \A v \in VarnishSvcs : svc[v] = "addressed" => svc'[v] = "addressed"
        /\ Synced(<<>>) \/ Failed(<<>>)
    BY <1>0, <1>8, UpdateSvcsTypes
  <2>4. Failed(<<>>) \/ \A v \in U : svc'[v] = "unknown"
    BY <1>3, <1>8 DEF UpdateSvcsForSecret, Associate
  <2>5. /\ Waiting \subseteq Waiting' \cup {x}
        /\ Failed(<<>>) => x \in Waiting'
    BY <1>0, <1>2, <1>6, <2>1, <2>3, SyncedWaits, FailedWaits DEF WorkOK
  <2>6. s \notin AuthSecrets
    <3>1. PICK v \in U : HasVolumes(v) /\ pods[v][1] = s
      BY <1>4, <1>8
    <3> QED BY <1>0, <3>1, FirstVolume DEF Separate, NotBoth
  <2>7. ASSUME NEW v \in VarnishSvcs PROVE Addressed(v)'
    BY <1>5, <2>3, <2>5, KeepsAddressed DEF Inv
  <2>8. ASSUME NEW v \in VarnishSvcs PROVE Covered(v)'
    <3>1. CASE v \notin U
      <4>1. Right(v) => Right(v)'
        BY <1>8, <2>1, <2>3, <3>1
        DEF Right, HasAdmSecret, HasVolumes, UsesAdmSecret, cluster
      <4> QED BY <1>5, <2>1, <2>5, <3>1, <4>1, KeepsCovered DEF Inv
    <3>2. CASE v \in U /\ Failed(<<>>)
      <4>1. x \in SecretItems(v)'
        BY <1>2, <1>4, <2>1, <3>2 DEF SecretItems, HasVolumes, cluster, Secret, Deleted
      <4> QED BY <2>5, <3>2, <4>1 DEF Covered
    <3>3. CASE v \in U /\ svc'[v] = "unknown"
      BY <2>7, <3>3 DEF Covered, Addressed
    <3> QED BY <2>4, <3>1, <3>2, <3>3
  <2>9. ASSUME NEW a \in AuthSecrets \cap Labelled PROVE CredCovered(a)'
    BY <1>5, <1>8, <2>1, <2>5, <2>6, KeepsCredCovered DEF Inv, cluster
  <2> QED BY <2>2, <2>7, <2>8, <2>9 DEF Inv
<1> QED BY <1>0, <1>1, <1>3, <1>7, <1>8 DEF SyncSecretDeleted

LEMMA InvSyncSvc == ASSUME Separate, Inv, TypeOK', SyncSvc PROVE Inv'
<1>0. TypeOK /\ ClusterOK /\ WorkOK /\ VarnishOK /\ Handles("svc")
      /\ UNCHANGED cluster /\ queue # <<>> /\ <<>> \in Seq(Items)
  BY TypeParts DEF Inv, SyncSvc, Handles, Takes
<1>1. PICK v \in VarnishSvcs : v = Head(queue).key
  BY <1>0, HandledItem
<1>2. PICK x : x = Head(queue) /\ x = Svc(v) /\ x \in Waiting
  BY <1>0, <1>1, HandledItem, TakesItem DEF Handles, WorkOK
<1>3. /\ \A w \in VarnishSvcs : x \notin SecretItems(w) /\ (x \in SvcItems(w) <=> w = v)
      /\ \A a \in AuthSecrets : x \notin CredItems(a)
  BY <1>2, ItemsDiffer DEF SvcItems, SecretItems, CredItems
<1>4. CASE ReturnsError
  BY <1>0, <1>4, InvError
<1>5. ASSUME NEW slice \in Slices \cup {Nil}, AddOrUpdateVarnishSvc(v, slice), UNCHANGED creds,
             BytesOK', ~HasAdmSecret(v) \/ (/\ slice \in {pods[v][1]} \X Gens /\ slice # Nil
                                            /\ bytes'[slice] = secret[pods[v][1]]),
             \A w \in VarnishSvcs \ {v} : Right(w) => Right(w)'
      PROVE  Inv'
  <2>1. /\ \A w \in VarnishSvcs \ {v} : svc'[w] = svc[w] /\ pointer'[w] = pointer[w]
        /\ svc'[v] = "addressed" /\ pointer'[v] = slice
        /\ Synced(<<>>) \/ Failed(<<>>)
    BY <1>0, <1>5, AddOrUpdateTypes
  <2>2. Waiting \subseteq Waiting' \cup {x}
    BY <1>0, <1>2, <2>1, SyncedWaits, FailedWaits DEF WorkOK
  <2>3. ASSUME NEW w \in VarnishSvcs PROVE Addressed(w)'
    BY <1>3, <2>1, <2>2, KeepsAddressed DEF Inv
  <2>4. Right(v)'
    BY <1>0, <1>5, <2>1 DEF Right, HasAdmSecret, HasVolumes, UsesAdmSecret, cluster
  <2>5. ASSUME NEW w \in VarnishSvcs PROVE Covered(w)'
    <3>1. CASE w = v
      BY <2>4, <3>1 DEF Covered
    <3>2. CASE w # v
      BY <1>0, <1>3, <1>5, <2>2, <3>2, KeepsCovered DEF Inv
    <3> QED BY <3>1, <3>2
  <2>6. ASSUME NEW a \in AuthSecrets \cap Labelled PROVE CredCovered(a)'
    BY <1>0, <1>3, <1>5, <2>2, KeepsCredCovered DEF Inv, cluster
  <2> QED BY <1>5, <2>3, <2>5, <2>6 DEF Inv
<1>6. ASSUME NEW slice \in Slices \cup {Nil}, AddOrUpdateVarnishSvc(v, slice), ~HasAdmSecret(v),
             UNCHANGED <<stored, bytes, creds>>
      PROVE  Inv'
  <2>1. \A w \in VarnishSvcs \ {v} : svc'[w] = svc[w] /\ pointer'[w] = pointer[w]
    BY <1>0, <1>6, AddOrUpdateTypes
  <2>2. \A w \in VarnishSvcs \ {v} : Right(w) => Right(w)'
    BY <1>0, <1>6, <2>1 DEF Right, HasAdmSecret, HasVolumes, UsesAdmSecret, cluster
  <2>3. BytesOK'
    BY <1>6 DEF Inv, BytesOK
  <2> QED BY <1>5, <1>6, <2>2, <2>3
<1>7. CASE pods[v] = <<>> /\ AddOrUpdateVarnishSvc(v, Nil) /\ UNCHANGED <<stored, bytes, creds>>
  BY <1>6, <1>7 DEF HasAdmSecret, HasVolumes
<1>8. CASE /\ HasVolumes(v) /\ secret[pods[v][1]] = Absent
           /\ AddOrUpdateVarnishSvc(v, stored[pods[v][1]])
           /\ UNCHANGED <<stored, bytes, creds>>
  <2>1. PICK slice \in Slices \cup {Nil} : slice = stored[pods[v][1]]
    BY <1>0, <1>8, FirstVolume DEF VarnishOK
  <2> QED BY <1>6, <1>8, <2>1 DEF HasAdmSecret
<1>9. CASE /\ HasVolumes(v) /\ secret[pods[v][1]] \notin {Absent, NoKey}
           /\ SetAdmSecret(pods[v][1])
           /\ AddOrUpdateVarnishSvc(v, SliceFor(pods[v][1])) /\ UNCHANGED creds
  <2>1. PICK s \in Secrets : s = pods[v][1]
    BY <1>0, <1>9, FirstVolume
  <2>2. secret[s] \in Contents
    BY <1>0, <1>9, <2>1 DEF ClusterOK, Values
  <2>3. PICK slice \in Slices : slice = SliceFor(s) /\ slice \in {s} \X Gens /\ slice # Nil
    BY <1>0, SliceForType
  <2>4. BytesOK' /\ bytes'[slice] = secret[s]
    BY <1>0, <1>9, <2>1, <2>2, <2>3, SetAdmSecretBytes DEF Inv, Separate
  <2>5. \A w \in VarnishSvcs \ {v} : svc'[w] = svc[w] /\ pointer'[w] = pointer[w]
    BY <1>0, <1>9, <2>1, <2>3, AddOrUpdateTypes
  <2>6. \A w \in VarnishSvcs \ {v} : Right(w) => Right(w)'
    BY <1>0, <1>9, <2>1, <2>2, <2>5, StaysRight DEF Inv, Separate
  <2> QED BY <1>5, <1>9, <2>1, <2>3, <2>4, <2>6
<1> QED BY <1>0, <1>1, <1>4, <1>7, <1>8, <1>9 DEF SyncSvc

\* An item that is replaced by another one that is as good.
LEMMA InvSyncEndp == ASSUME Inv, TypeOK', SyncEndp PROVE Inv'
<1>0. TypeOK /\ WorkOK /\ Handles("endp")
  BY TypeParts DEF Inv, SyncEndp
<1>1. PICK v \in VarnishSvcs : v = Head(queue).key /\ Head(queue) = Endp(v)
  BY <1>0, HandledItem
<1>2. PICK x : x = Head(queue) /\ x = Endp(v)
  BY <1>1
<1>3. <<Svc(v)>> \in Seq(Items) /\ ToSet(<<Svc(v)>>) = {Svc(v)}
  BY ItemTypes DEF ToSet
<1>4. ReturnsNil(<<Svc(v)>>)
  BY <1>1 DEF SyncEndp
<1>5. /\ Waiting \subseteq Waiting' \cup {x} /\ Svc(v) \in Waiting'
      /\ UNCHANGED <<cluster, varnish, creds>>
  BY <1>0, <1>2, <1>3, <1>4, ReturnsWait
<1>6. /\ \A w \in VarnishSvcs : x \notin SecretItems(w) /\ (x \in SvcItems(w) <=> w = v)
      /\ \A a \in AuthSecrets : x \notin CredItems(a)
      /\ Svc(v) \in SvcItems(v)
  BY <1>2, ItemsDiffer DEF SvcItems, SecretItems, CredItems
<1> QED BY <1>5, <1>6, KeepsAll

LEMMA InvSyncVcfg == ASSUME Inv, TypeOK', SyncVcfg PROVE Inv'
<1>0. TypeOK /\ WorkOK /\ Handles("vcfg") /\ ReturnsNil(<<Ing>>)
  BY TypeParts DEF Inv, SyncVcfg
<1>1. PICK x : x = Head(queue) /\ x = Vcfg
  BY <1>0, HandledItem
<1>2. <<Ing>> \in Seq(Items) /\ ToSet(<<Ing>>) = {Ing}
  BY ItemTypes DEF ToSet
<1>3. /\ Waiting \subseteq Waiting' \cup {x} /\ Ing \in Waiting'
      /\ UNCHANGED <<cluster, varnish, creds>>
  BY <1>0, <1>1, <1>2, ReturnsWait
<1>4. /\ \A w \in VarnishSvcs : x \notin SecretItems(w) /\ x \notin SvcItems(w)
      /\ \A a \in AuthSecrets : Ing \in CredItems(a)
  BY <1>1, ItemsDiffer DEF SvcItems, SecretItems, CredItems
<1> QED BY <1>3, <1>4, KeepsAll

LEMMA InvSyncIng == ASSUME Inv, TypeOK', SyncIng PROVE Inv'
<1>0. TypeOK /\ WorkOK /\ Handles("ing") /\ queue # <<>> /\ <<>> \in Seq(Items)
  BY TypeParts DEF Inv, SyncIng, Handles, Takes
<1>1. CASE ReturnsError
  BY <1>0, <1>1, InvError
<1>2. CASE /\ creds' = [s \in AuthSecrets |-> secret[s]]
           /\ Synced(<<>>) /\ UNCHANGED <<varnish, faults>>
  <2>1. PICK x : x = Head(queue) /\ x = Ing
    BY <1>0, HandledItem
  <2>2. Waiting \subseteq Waiting' \cup {x} /\ UNCHANGED cluster
    BY <1>0, <1>2, <2>1, SyncedWaits DEF WorkOK, Handles
  <2>3. \A w \in VarnishSvcs : x \notin SecretItems(w) /\ x \notin SvcItems(w)
    BY <2>1, ItemsDiffer DEF SvcItems, SecretItems
  <2>4. ASSUME NEW v \in VarnishSvcs PROVE Addressed(v)'
    BY <1>2, <2>2, <2>3, KeepsAddressed DEF Inv, varnish
  <2>5. ASSUME NEW v \in VarnishSvcs PROVE Covered(v)'
    <3>1. Right(v) => Right(v)'
      BY <1>2, <2>2 DEF Right, HasAdmSecret, HasVolumes, UsesAdmSecret, cluster, varnish
    <3> QED BY <2>2, <2>3, <3>1, KeepsCovered DEF Inv
  <2>6. ASSUME NEW a \in AuthSecrets \cap Labelled PROVE CredCovered(a)'
    BY <1>2, <2>2 DEF CredCovered, cluster
  <2>7. BytesOK'
    BY <1>2 DEF Inv, BytesOK, varnish
  <2> QED BY <2>4, <2>5, <2>6, <2>7 DEF Inv
<1> QED BY <1>1, <1>2 DEF SyncIng

LEMMA InvRetry == ASSUME Inv, TypeOK', NEW n \in DOMAIN retries, Retries(n) PROVE Inv'
<1>0. TypeOK /\ WorkOK /\ UNCHANGED <<cluster, varnish, creds>>
  BY TypeParts DEF Inv, Retries
<1>1. Waiting \subseteq Waiting'
  BY <1>0, RetryWaits DEF WorkOK, Retries
<1>2. PICK x : x = retries[n]
  OBVIOUS
<1>3. x \in Waiting'
  BY <1>1, <1>2 DEF Waiting, ToSet
<1> QED BY <1>0, <1>1, <1>3, KeepsAll

LEMMA InvStep == Separate /\ Inv /\ [Next]_vars => Inv'
<1> SUFFICES ASSUME Separate, Inv, [Next]_vars PROVE Inv'
  OBVIOUS
<1>1. TypeOK'
  BY TypeStep DEF Inv
<1>2. CASE UNCHANGED vars
  BY <1>1, <1>2
  DEF vars, Inv, BytesOK, Covered, Addressed, Right, HasAdmSecret, HasVolumes, UsesAdmSecret,
      SvcItems, SecretItems, CredCovered, CredItems, Waiting,
      Vcfg, Ing, Secret, Deleted, Svc, Endp
<1> QED BY <1>1, <1>2, InvChange, InvSyncSecret, InvSyncSecretDeleted, InvSyncSvc, InvSyncEndp,
           InvSyncVcfg, InvSyncIng, InvRetry DEF Next, Worker

LEMMA InvSettled == Inv => SettledSecrets
<1> SUFFICES ASSUME Inv, Waiting = {}
             PROVE  /\ \A v \in VarnishSvcs : HasAdmSecret(v) => UsesAdmSecret(v)
                    /\ UsesCredentials
  BY DEF SettledSecrets
<1>1. \A v \in VarnishSvcs : HasAdmSecret(v) => UsesAdmSecret(v)
  BY DEF Inv, Covered, Right
<1>2. \A a \in AuthSecrets \cap Labelled : creds[a] = secret[a]
  BY DEF Inv, CredCovered
<1> QED BY <1>1, <1>2 DEF UsesCredentials

\* Whatever changes and fails in between: once everything is synchronised, the
\* instances of each Varnish Service use the value that their admin secret has,
\* and the configuration has the credentials of the Secrets.
THEOREM NoSecretMissed == ASSUME Separate PROVE Spec => []SettledSecrets
<1>1. Init => Inv
  BY InvInit
<1>2. Inv /\ [Next]_vars => Inv'
  BY InvStep
<1>3. Inv => SettledSecrets
  BY InvSettled
<1> QED BY <1>1, <1>2, <1>3, PTL DEF Spec
=============================================================================
