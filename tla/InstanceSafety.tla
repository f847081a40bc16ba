---------------------------- MODULE InstanceSafety ----------------------------
(***************************************************************************)
(* Theorems about the PocketIDInstance controller, for every set of specs, *)
(* users and keys, every lag of the caches and of the garbage collector    *)
(* and every number of faults and edits: types, keys, the single           *)
(* administrator, the finalizer protocol, and that an instance says        *)
(* Initialized only of its own database.                                   *)
(***************************************************************************)
EXTENDS InstanceProps, FiniteSetTheorems, TLAPS

USE InstanceSpecsAssumption, InstanceNoneAssumption, InstanceBoundsAssumption
-------------------------------------------------------------------------------
(* Types.  TypeOK is not inductive: that the worker has a key when it makes  *)
(* the administrator rests on what the objects and the pod hold.             *)

ContentOf(k) == IF k \in SecretKinds THEN Keys
                ELSE IF k = "config" THEN Confs
                ELSE IF k = "statefulSet" THEN Templates
                ELSE {None}

Fits(k, o) == IF o.there THEN o.data \in ContentOf(k) ELSE o = NoChild

InstTypes == inst \in Inst /\ seen \in Inst

ObjTypes ==
    /\ child \in [Kinds -> Child] /\ cached \in [Kinds -> Child]
    /\ \A k \in Kinds : Fits(k, child[k]) /\ Fits(k, cached[k])

OrphanTypes == orphan \subseteq {k \in Kinds : child[k].there}

PodTypes ==
    /\ pod \in {NoPod} \cup Pod
    /\ pod # NoPod => pod.key \in Keys \cup {UserKey}

JobTypes ==
    /\ job \in {Idle} \cup Job
    /\ job.pc = "createAdmin" => job.base.spec.admin # None /\ job.key # None

Counts == queued \in BOOLEAN /\ faults \in 0..MaxFaults /\ edits \in 0..MaxEdits

TypeInv ==
    /\ InstTypes /\ ObjTypes /\ OrphanTypes /\ PodTypes /\ JobTypes /\ Counts
    /\ db \in Database

\* The strengthening implies what it strengthens.
LEMMA TypeInvStrong == TypeInv => TypeOK
  BY DEF TypeInv, TypeOK, InstTypes, ObjTypes, OrphanTypes, PodTypes, JobTypes, Counts

\* The value that stands for no instance is one of Inst.
LEMMA NoInstType == NoInst \in Inst /\ NoInst.state = "absent" /\ ~NoInst.initialized
                      /\ ~NoInst.finalizer
<1>1. (CHOOSE s \in Specs : TRUE) \in InstanceSpec
  <2>1. \E s : s \in Specs
    OBVIOUS
  <2>2. (CHOOSE s \in Specs : TRUE) \in Specs
    BY <2>1
  <2>3. QED
    BY <2>2
<1>2. QED
  BY <1>1 DEF NoInst, NewInst, Inst

\* A new instance is one of Inst.
LEMMA NewInstType == \A s \in Specs : NewInst(s) \in Inst
  BY DEF NewInst, Inst

\* No object is a value of Child.
LEMMA NoChildType == NoChild \in Child /\ ~NoChild.there
  BY DEF NoChild, Child, Contents

\* Contents of every kind.
LEMMA ContentType == \A k \in Kinds : ContentOf(k) \subseteq Contents
  BY DEF ContentOf, Contents

\* A made object has its type and fits its kind.
LEMMA MadeType ==
    ASSUME NEW k \in Kinds, NEW x \in ContentOf(k)
    PROVE  Made(x) \in Child /\ Made(x).there /\ Fits(k, Made(x))
  BY ContentType DEF Made, Child, Fits

\* What a spec asks for fits the kind.
LEMMA DesiredType ==
    ASSUME NEW k \in Kinds \ SecretKinds, NEW s \in InstanceSpec
    PROVE  Desired(k, s) \in ContentOf(k)
  BY DEF Desired, ContentOf, Kinds, SecretKinds, InstanceSpec, Template, Templates

\* A busy worker has all the fields of a job.
LEMMA BusyJob ==
    ASSUME JobTypes, job.pc # "idle"
    PROVE  /\ job \in Job /\ job.base \in Inst /\ job.base.spec \in InstanceSpec
           /\ job.key \in Contents \cup {UserKey} /\ job.initialized \in BOOLEAN
<1>1. job \in Job
  BY DEF JobTypes, Idle
<1>2. QED
  BY <1>1 DEF Job, Inst

\* The initial states have the types.
LEMMA TypeInit == Init => TypeInv
<1>1. SUFFICES ASSUME Init
               PROVE  TypeInv
  OBVIOUS
<1>2. InstTypes
  BY <1>1, NoInstType DEF Init, InstTypes
<1>3. ObjTypes /\ OrphanTypes
  BY <1>1, NoChildType DEF Init, ObjTypes, OrphanTypes, Fits
<1>4. PodTypes /\ JobTypes
  BY <1>1 DEF Init, PodTypes, JobTypes, Idle
<1>5. Counts
  <2>1. queued \in BOOLEAN
    BY <1>1, Zenon DEF Init
  <2>2. faults = 0 /\ edits = 0
    BY <1>1 DEF Init
  <2>3. QED
    BY <2>1, <2>2 DEF Counts
<1>6. db \in Database
  BY <1>1 DEF Init, NewDatabase, Database
<1>7. QED
  BY <1>2, <1>3, <1>4, <1>5, <1>6 DEF TypeInv
-------------------------------------------------------------------------------
(* How a step changes each part of the state. *)

\* An instance stays, is replaced or is copied.
LEMMA PutInstType ==
    ASSUME InstTypes, NEW v \in Inst, PutInst(v)
    PROVE  InstTypes'
  BY DEF InstTypes, PutInst

\* Storing a fitting object keeps the objects' types.
LEMMA PutChildType ==
    ASSUME ObjTypes, NEW k \in Kinds, NEW v \in Child, Fits(k, v), PutChild(k, v)
    PROVE  ObjTypes' /\ child'[k] = v /\ \A l \in Kinds \ {k} : child'[l] = child[l]
  BY DEF ObjTypes, PutChild, Fits

\* With the instance its objects go or wait for the garbage collector.
LEMMA DropType ==
    ASSUME InstTypes, ObjTypes, PodTypes, Drop
    PROVE  /\ InstTypes' /\ ObjTypes' /\ OrphanTypes' /\ PodTypes'
           /\ \A k \in Kinds : child'[k] = child[k] \/ child'[k] = NoChild
<1>1. InstTypes'
  BY NoInstType, PutInstType DEF Drop
<1>2. /\ ObjTypes' /\ OrphanTypes'
      /\ \A k \in Kinds : child'[k] = child[k] \/ child'[k] = NoChild
  BY NoChildType DEF Drop, ObjTypes, OrphanTypes, Fits
<1>3. PodTypes'
  BY DEF Drop, PodTypes
<1>4. QED
  BY <1>1, <1>2, <1>3

\* The stored instance and the informer's copy keep their type.
LEMMA InstStep == TypeInv /\ Next => InstTypes'
<1>1. SUFFICES ASSUME TypeInv, Next
               PROVE  InstTypes'
  OBVIOUS
<1>2. InstTypes /\ ObjTypes /\ PodTypes
  BY <1>1 DEF TypeInv
<1>3. CASE AddFinalizer
  BY <1>2, <1>3, PutInstType DEF AddFinalizer, InstTypes, Inst
<1>4. CASE RemoveFinalizer \/ RequestDelete
  <2>1. CASE Drop
    BY <1>2, <2>1, DropType
  <2>2. CASE PutInst([inst EXCEPT !.state = "deleting"])
    BY <1>2, <2>2, PutInstType DEF InstTypes, Inst
  <2>3. QED
    BY <1>2, <1>4, <2>1, <2>2 DEF RemoveFinalizer, RequestDelete, objects, InstTypes
<1>5. CASE UpdateStatus
  <2>1. CASE UNCHANGED objects
    BY <1>2, <2>1 DEF objects, InstTypes
  <2>2. CASE PutInst([inst EXCEPT !.ready = cached["statefulSet"].ready,
                                  !.initialized = @ \/ job.initialized,
                                  !.degraded = FALSE, !.observed = TRUE])
    <3>1. cached["statefulSet"].ready \in BOOLEAN
      BY <1>2 DEF ObjTypes, Child, Kinds
    <3>2. (inst.initialized \/ job.initialized) \in BOOLEAN
      OBVIOUS
    <3>3. QED
      BY <1>2, <2>2, <3>1, <3>2, PutInstType DEF InstTypes, Inst
  <2>3. QED
    BY <1>5, <2>1, <2>2 DEF UpdateStatus
<1>6. CASE Degrade
  BY <1>2, <1>6, PutInstType DEF Degrade, InstTypes, Inst
<1>7. ASSUME NEW s \in Specs, CreateInst(s) \/ EditSpec(s)
      PROVE  InstTypes'
  <2>1. CASE CreateInst(s)
    BY <1>2, <2>1, NewInstType, PutInstType DEF CreateInst
  <2>2. CASE EditSpec(s)
    <3>1. s \in InstanceSpec
      OBVIOUS
    <3>2. QED
      BY <1>2, <2>2, <3>1, PutInstType DEF EditSpec, InstTypes, Inst
  <2>3. QED
    BY <1>7, <2>1, <2>2
<1>8. CASE SyncInst \/ Crash
  BY <1>2, <1>8 DEF SyncInst, Crash, InstTypes
<1>9. CASE UNCHANGED <<inst, seen>>
  BY <1>2, <1>9 DEF InstTypes
<1>10. QED
  BY <1>1, <1>3, <1>4, <1>5, <1>6, <1>7, <1>8, <1>9 DEF Next, Environment, Worker, Begin,
     EnsureSecret, EnsureObject, EnsureStatefulSet, Initialize, CreateAdmin, CallFails,
     SyncChild, Collect, StartPod, PodBecomesReady, RollOut, StopPod, EvictPod, WipeData,
     DeleteSecret, AddUser, RemoveUser, objects

\* A key that is made is one of Keys.
LEMMA FreshKeyType ==
    ASSUME ObjTypes, PodTypes, NEW k \in SecretKinds, ~cached[k].there
    PROVE  FreshKey(k) \in ContentOf(k)
<1>1. cached[k].data = None
  BY DEF ObjTypes, Fits, NoChild, Kinds
<1>2. \E x \in Keys : x # cached[k].data /\ (pod # NoPod => x # pod.key)
  <2>1. CASE pod # NoPod
    <3>1. pod.key \in Keys \cup {UserKey, None}
      BY <2>1 DEF PodTypes
    <3>2. Keys \ {None, pod.key} # {}
      BY <3>1, InstanceKeysAssumption
    <3>3. QED
      BY <1>1, <3>2
  <2>2. CASE pod = NoPod
    <3>1. Keys \ {None, None} # {}
      BY InstanceKeysAssumption
    <3>2. QED
      BY <1>1, <2>2, <3>1
  <2>3. QED
    BY <2>1, <2>2
<1>3. FreshKey(k) \in Keys
  BY <1>2 DEF FreshKey
<1>4. QED
  BY <1>3 DEF ContentOf

\* No Secret that stays gets another key.
Kept == \A k \in SecretKinds :
            (child[k].there /\ child'[k].there) => child'[k].data = child[k].data

ObjGood == ObjTypes' /\ OrphanTypes' /\ Kept

\* Objects left alone are good.
LEMMA SameGood ==
    ASSUME ObjTypes, OrphanTypes, UNCHANGED <<child, cached, orphan>>
    PROVE  ObjGood
  BY DEF ObjGood, ObjTypes, OrphanTypes, Kept, Fits

\* So is an object where there was none or none of its kind is a Secret.
LEMMA PutGood ==
    ASSUME ObjTypes, OrphanTypes, NEW k \in Kinds, NEW v \in Child, Fits(k, v), v.there,
           k \in SecretKinds => ~child[k].there,
           PutChild(k, v), UNCHANGED orphan
    PROVE  ObjGood
<1>1. /\ ObjTypes' /\ child'[k] = v /\ \A l \in Kinds \ {k} : child'[l] = child[l]
  BY PutChildType
<1>2. OrphanTypes'
  BY <1>1 DEF OrphanTypes
<1>3. Kept
  BY <1>1 DEF Kept, Kinds
<1>4. QED
  BY <1>1, <1>2, <1>3 DEF ObjGood

\* A created object is good.
LEMMA CreateGood ==
    ASSUME ObjTypes, OrphanTypes, NEW k \in Kinds, NEW x \in ContentOf(k),
           Create(k, x), UNCHANGED orphan
    PROVE  ObjGood
<1>1. CASE UNCHANGED <<child, cached>>
  BY <1>1, SameGood
<1>2. CASE ~child[k].there /\ PutChild(k, Made(x))
  BY <1>2, MadeType, PutGood
<1>3. QED
  BY <1>1, <1>2 DEF Create

\* So is an updated one, Secrets apart.
LEMMA UpdateGood ==
    ASSUME ObjTypes, OrphanTypes, NEW k \in Kinds \ SecretKinds, child[k].there,
           NEW x \in ContentOf(k), PutChild(k, [child[k] EXCEPT !.data = x]),
           UNCHANGED orphan
    PROVE  ObjGood
<1>1. child[k] \in Child /\ x \in Contents
  BY ContentType DEF ObjTypes
<1>2. /\ [child[k] EXCEPT !.data = x] \in Child
      /\ [child[k] EXCEPT !.data = x].there
      /\ [child[k] EXCEPT !.data = x].data = x
  BY <1>1 DEF Child
<1>3. Fits(k, [child[k] EXCEPT !.data = x])
  BY <1>2 DEF Fits
<1>4. QED
  BY <1>2, <1>3, PutGood

\* And one whose readiness is reported.
LEMMA ReportGood ==
    ASSUME ObjTypes, OrphanTypes, NEW r \in BOOLEAN, Report(r), UNCHANGED orphan
    PROVE  ObjGood
<1>1. CASE ~Workload.there
  BY <1>1, SameGood DEF Report
<1>2. CASE Workload.there
  <2>1. Workload \in Child /\ Fits("statefulSet", Workload) /\ "statefulSet" \in Kinds
        /\ "statefulSet" \notin SecretKinds
    BY DEF Workload, ObjTypes, Kinds, SecretKinds
  <2>2. /\ [Workload EXCEPT !.ready = r] \in Child
        /\ [Workload EXCEPT !.ready = r].there
        /\ [Workload EXCEPT !.ready = r].data = Workload.data
    BY <1>2, <2>1 DEF Child
  <2>3. Fits("statefulSet", [Workload EXCEPT !.ready = r])
    BY <1>2, <2>1, <2>2 DEF Fits
  <2>4. PutChild("statefulSet", [Workload EXCEPT !.ready = r])
    BY <1>2 DEF Report
  <2>5. QED
    BY <2>1, <2>2, <2>3, <2>4, PutGood
<1>3. QED
  BY <1>1, <1>2

\* An object that is removed leaves the others good.
LEMMA RemoveGood ==
    ASSUME ObjTypes, OrphanTypes, NEW k \in Kinds, PutChild(k, NoChild),
           orphan' = orphan \ {k}
    PROVE  ObjGood
<1>1. Fits(k, NoChild)
  BY NoChildType DEF Fits
<1>2. ObjTypes' /\ child'[k] = NoChild /\ \A l \in Kinds \ {k} : child'[l] = child[l]
  BY <1>1, NoChildType, PutChildType
<1>3. OrphanTypes'
  BY <1>2 DEF OrphanTypes
<1>4. Kept
  BY <1>2, NoChildType DEF Kept, Kinds
<1>5. QED
  BY <1>2, <1>3, <1>4 DEF ObjGood

\* Every step of the worker leaves the objects good.
LEMMA WorkerGood ==
    ASSUME TypeInv, Worker
    PROVE  ObjGood
<1>1. InstTypes /\ ObjTypes /\ OrphanTypes /\ PodTypes /\ JobTypes
  BY DEF TypeInv
<1>2. CASE UNCHANGED <<child, cached, orphan>>
  BY <1>1, <1>2, SameGood
<1>3. CASE RemoveFinalizer
  <2>1. CASE Drop
    BY <1>1, <2>1, DropType DEF ObjGood, Kept, NoChild, Kinds
  <2>2. QED
    BY <1>2, <1>3, <2>1 DEF RemoveFinalizer, objects
<1>4. ASSUME NEW k \in SecretKinds, EnsureSecret(k)
      PROVE  ObjGood
  <2>1. CASE ~cached[k].there /\ Create(k, FreshKey(k))
    BY <1>1, <1>4, <2>1, FreshKeyType, CreateGood DEF EnsureSecret, Kinds
  <2>2. QED
    BY <1>2, <1>4, <2>1 DEF EnsureSecret
<1>5. ASSUME NEW k \in {"config", "service"}, EnsureObject(k)
      PROVE  ObjGood
  <2>1. job.base.spec \in InstanceSpec
    BY <1>1, <1>5, BusyJob DEF EnsureObject, At
  <2>2. Desired(k, job.base.spec) \in ContentOf(k) /\ k \in Kinds \ SecretKinds
    BY <2>1, DesiredType DEF Kinds, SecretKinds
  <2>3. CASE Create(k, Desired(k, job.base.spec))
    BY <1>1, <1>5, <2>2, <2>3, CreateGood DEF EnsureObject
  <2>4. CASE /\ cached[k].there /\ cached[k] = child[k]
             /\ PutChild(k, [child[k] EXCEPT !.data = Desired(k, job.base.spec)])
    BY <1>1, <1>5, <2>2, <2>4, UpdateGood DEF EnsureObject
  <2>5. QED
    BY <1>2, <1>5, <2>3, <2>4 DEF EnsureObject
<1>6. CASE EnsureStatefulSet
  <2> DEFINE k == "statefulSet"
             x == Desired(k, job.base.spec)
  <2>1. job.base.spec \in InstanceSpec
    BY <1>1, <1>6, BusyJob DEF EnsureStatefulSet, At
  <2>2. x \in ContentOf(k) /\ k \in Kinds \ SecretKinds
    BY <2>1, DesiredType DEF Kinds, SecretKinds
  <2>3. CASE Create(k, x)
    BY <1>1, <1>6, <2>2, <2>3, CreateGood DEF EnsureStatefulSet
  <2>4. CASE child[k].there /\ PutChild(k, [child[k] EXCEPT !.data = x])
    BY <1>1, <1>6, <2>2, <2>4, UpdateGood DEF EnsureStatefulSet
  <2>5. QED
    BY <1>2, <1>6, <2>3, <2>4 DEF EnsureStatefulSet
<1>7. QED
  BY <1>2, <1>3, <1>4, <1>5, <1>6 DEF Worker, AddFinalizer, Initialize, CreateAdmin,
     UpdateStatus, Degrade, objects, SecretKinds

\* So does every step.
LEMMA ObjStep ==
    ASSUME TypeInv, Next
    PROVE  ObjGood
<1>1. InstTypes /\ ObjTypes /\ OrphanTypes /\ PodTypes
  BY DEF TypeInv
<1>2. CASE UNCHANGED <<child, cached, orphan>>
  BY <1>1, <1>2, SameGood
<1>3. CASE UNCHANGED <<child, orphan>> /\ (cached' = child
              \/ \E k \in Kinds : cached' = [cached EXCEPT ![k] = child[k]])
  BY <1>1, <1>3 DEF ObjGood, ObjTypes, OrphanTypes, Kept, Fits
<1>4. CASE RequestDelete
  <2>1. CASE Drop
    BY <1>1, <2>1, DropType DEF ObjGood, Kept, NoChild, Kinds
  <2>2. QED
    BY <1>2, <1>4, <2>1 DEF RequestDelete
<1>5. ASSUME NEW k \in Kinds, Collect(k) \/ (k \in SecretKinds /\ DeleteSecret(k))
      PROVE  ObjGood
  BY <1>1, <1>5, RemoveGood DEF Collect, DeleteSecret
<1>6. CASE PodBecomesReady
  BY <1>1, <1>6, ReportGood DEF PodBecomesReady
<1>7. CASE StopPod
  BY <1>1, <1>7, ReportGood DEF StopPod
<1>8. QED
  BY <1>2, <1>3, <1>4, <1>5, <1>6, <1>7, WorkerGood DEF Next, Environment, Begin, CallFails,
     Crash, SyncInst, SyncChild, StartPod, RollOut, EvictPod, WipeData, CreateInst,
     EditSpec, AddUser, RemoveUser, objects, Kinds

\* The pod keeps its type.
LEMMA PodStep ==
    ASSUME TypeInv, Next
    PROVE  PodTypes'
<1>1. InstTypes /\ ObjTypes /\ PodTypes
  BY DEF TypeInv
<1>2. CASE pod' = pod \/ pod' = NoPod
  BY <1>1, <1>2 DEF PodTypes
<1>3. CASE StartPod
  <2>1. /\ Workload.there /\ "statefulSet" \in Kinds
        /\ \A k \in (SecretKinds \ Workload.data.own) \cup {"config"} : child[k].there
        /\ pod' = [template |-> Workload.data, ready |-> FALSE,
                   key |-> IF "apiKey" \in Workload.data.own THEN UserKey
                                                             ELSE child["apiKey"].data]
    BY <1>3 DEF StartPod, Kinds
  <2>2. Workload.data \in Templates
    BY <1>1, <2>1 DEF Workload, ObjTypes, Fits, ContentOf, SecretKinds
  <2>3. "apiKey" \notin Workload.data.own => child["apiKey"].data \in Keys
    BY <1>1, <2>1 DEF ObjTypes, Fits, ContentOf, SecretKinds, Kinds
  <2>4. pod'.key \in Keys \cup {UserKey}
    BY <2>1, <2>3
  <2>5. pod' \in Pod
    BY <2>1, <2>2, <2>4 DEF Pod, Contents
  <2>6. QED
    BY <2>4, <2>5 DEF PodTypes
<1>4. CASE PodBecomesReady
  <2>1. pod \in Pod /\ pod' = [pod EXCEPT !.ready = TRUE] /\ pod.key \in Keys \cup {UserKey}
    BY <1>1, <1>4 DEF PodBecomesReady, PodTypes
  <2>2. pod' \in Pod /\ pod'.key = pod.key
    BY <2>1 DEF Pod
  <2>3. QED
    BY <2>1, <2>2 DEF PodTypes
<1>5. QED
  BY <1>2, <1>3, <1>4 DEF Next, Environment, Worker, Begin, AddFinalizer, RemoveFinalizer,
     EnsureSecret, EnsureObject, EnsureStatefulSet, Initialize, CreateAdmin, UpdateStatus,
     Degrade, CallFails, Crash, SyncInst, SyncChild, Collect, RollOut, StopPod, EvictPod,
     WipeData, CreateInst, EditSpec, RequestDelete, Drop, DeleteSecret, AddUser, RemoveUser,
     objects, server

\* The fields of a database.
LEMMA DatabaseFields ==
    ASSUME NEW d \in Database
    PROVE  d.users \in SUBSET Users /\ d.admins \in SUBSET Users
  BY DEF Database

\* A database from its fields.
LEMMA DatabaseType ==
    ASSUME NEW U \in SUBSET Users, NEW V \in SUBSET Users, NEW b \in BOOLEAN
    PROVE  [users |-> U, admins |-> V, used |-> b] \in Database
  BY DEF Database

\* What users and people in PocketID do to it, field by field.
LEMMA UserChange ==
    ASSUME db \in Database, NEW n \in Users, AddUser(n) \/ RemoveUser(n)
    PROVE  /\ db' \in Database
           /\ \/ /\ db'.users = db.users \cup {n} /\ db'.admins = db.admins
                 /\ db'.used = TRUE
              \/ /\ db'.users = db.users \ {n} /\ db'.admins = db.admins \ {n}
                 /\ db'.used = db.used
<1>1. /\ db.users \in SUBSET Users /\ db.admins \in SUBSET Users
      /\ db.used \in BOOLEAN
      /\ db = [users |-> db.users, admins |-> db.admins, used |-> db.used]
  BY DEF Database
<1>2. CASE AddUser(n)
  <2>1. db' = [users |-> db.users \cup {n}, admins |-> db.admins, used |-> TRUE]
    BY <1>1, <1>2 DEF AddUser
  <2>2. db.users \cup {n} \in SUBSET Users
    BY <1>1
  <2>3. db' \in Database
    BY <1>1, <2>1, <2>2, DatabaseType
  <2>4. QED
    BY <2>1, <2>3
<1>3. CASE RemoveUser(n)
  <2>1. db' = [users |-> db.users \ {n}, admins |-> db.admins \ {n}, used |-> db.used]
    BY <1>1, <1>3 DEF RemoveUser
  <2>2. db.users \ {n} \in SUBSET Users /\ db.admins \ {n} \in SUBSET Users
    BY <1>1
  <2>3. db' \in Database
    BY <1>1, <2>1, <2>2, DatabaseType
  <2>4. QED
    BY <2>1, <2>3
<1>4. QED
  BY <1>2, <1>3

\* The database keeps its type.
LEMMA DatabaseStep ==
    ASSUME TypeInv, Next
    PROVE  db' \in Database
<1>1. db \in Database /\ JobTypes
  BY DEF TypeInv
<1>2. CASE db' = db
  BY <1>1, <1>2
<1>3. CASE CreateAdmin
  <2> DEFINE name == job.base.spec.admin
  <2>1. name \in Users
    BY <1>1, <1>3, BusyJob DEF CreateAdmin, At, JobTypes, InstanceSpec
  <2>2. db.users \cup {name} \in SUBSET Users /\ db.admins \cup {name} \in SUBSET Users
    BY <1>1, <2>1, DatabaseFields
  <2>3. CASE db' = [users |-> db.users \cup {name}, admins |-> db.admins \cup {name},
                    used |-> TRUE]
    BY <2>2, <2>3, DatabaseType
  <2>4. QED
    BY <1>2, <1>3, <2>3 DEF CreateAdmin
<1>4. ASSUME NEW n \in Users, AddUser(n) \/ RemoveUser(n)
      PROVE  db' \in Database
  BY <1>1, <1>4, UserChange
<1>5. CASE WipeData
  BY <1>5 DEF WipeData, NewDatabase, Database
<1>6. QED
  BY <1>2, <1>3, <1>4, <1>5 DEF Next, Environment, Worker, Begin, AddFinalizer,
     RemoveFinalizer, EnsureSecret, EnsureObject, EnsureStatefulSet, Initialize,
     UpdateStatus, Degrade, CallFails, Crash, SyncInst, SyncChild, Collect, StartPod,
     PodBecomesReady, RollOut, StopPod, EvictPod, CreateInst, EditSpec, RequestDelete,
     DeleteSecret, objects, server

\* Going on to another step than the making of the administrator.
LEMMA GotoType ==
    ASSUME JobTypes, job.pc # "idle", NEW pc \in Working \ {"createAdmin"}, Goto(pc)
    PROVE  JobTypes'
<1>1. job \in Job
  BY BusyJob
<1>2. job' \in Job /\ job'.pc = pc
  BY <1>1 DEF Goto, Job
<1>3. QED
  BY <1>2 DEF JobTypes

\* An ended job has its type.
LEMMA IdleType == job' = Idle => JobTypes'
  BY DEF JobTypes, Idle

\* The steps at the objects go on to a step that is not the administrator's.
LEMMA AfterType ==
    \A k \in Kinds : After[k] \in Working \ {"createAdmin"}
  BY DEF Kinds, SecretKinds, After, Working

\* The worker's job keeps its type.
LEMMA JobStepWorker ==
    ASSUME TypeInv, Worker
    PROVE  JobTypes'
<1>1. InstTypes /\ ObjTypes /\ PodTypes /\ JobTypes
  BY DEF TypeInv
<1>2. /\ job.pc # "idle" /\ job \in Job /\ job.base.spec \in InstanceSpec
      /\ "degraded" \in Working \ {"createAdmin"} /\ "status" \in Working \ {"createAdmin"}
  BY <1>1, BusyJob DEF Worker, AddFinalizer, RemoveFinalizer, EnsureSecret, EnsureObject,
     EnsureStatefulSet, Initialize, CreateAdmin, UpdateStatus, Degrade, At, Working,
     Kinds, SecretKinds
<1>3. CASE job' = Idle
  BY <1>3, IdleType
<1>4. CASE \E pc \in Working \ {"createAdmin"} : Goto(pc)
  BY <1>1, <1>2, <1>4, GotoType
<1>5. CASE Initialize \/ CreateAdmin
  <2>1. CASE job' = [job EXCEPT !.pc = "status", !.initialized = TRUE]
    <3>1. job' \in Job /\ job'.pc = "status"
      BY <1>2, <2>1 DEF Job, Working
    <3>2. QED
      BY <3>1 DEF JobTypes
  <2>2. CASE /\ Initialize /\ MayInitialize /\ Answers(OperatorKey)
             /\ job' = [job EXCEPT !.pc = "createAdmin", !.key = OperatorKey]
    <3>1. OperatorKey \in Keys \cup {UserKey}
      BY <1>1, <2>2 DEF Answers, PodTypes
    <3>2. OperatorKey \in Contents \cup {UserKey} /\ OperatorKey # None
      BY <3>1 DEF Contents
    <3>3. job' \in Job /\ job'.pc = "createAdmin" /\ job'.key = OperatorKey
          /\ job'.base = job.base
      BY <1>2, <2>2, <3>2 DEF Job, Working
    <3>4. QED
      BY <2>2, <3>2, <3>3 DEF JobTypes, MayInitialize
  <2>3. QED
    BY <1>2, <1>4, <1>5, <2>1, <2>2 DEF Initialize, CreateAdmin
<1>6. QED
  BY <1>2, <1>3, <1>4, <1>5, AfterType DEF Worker, AddFinalizer, RemoveFinalizer, EnsureSecret,
     EnsureObject, EnsureStatefulSet, Create, UpdateStatus, Degrade, Done, Retry, Kinds,
     SecretKinds

\* Every step keeps the job's type.
LEMMA JobStep ==
    ASSUME TypeInv, Next
    PROVE  JobTypes'
<1>1. InstTypes /\ JobTypes
  BY DEF TypeInv
<1>2. CASE job' = job
  BY <1>1, <1>2 DEF JobTypes
<1>3. CASE job' = Idle
  BY <1>3, IdleType
<1>4. ASSUME NEW pc \in {"removeFinalizer", "addFinalizer", "encryption"}, Start(pc)
      PROVE  JobTypes'
  <2>1. job' \in Job /\ job'.pc = pc
    BY <1>1, <1>4 DEF Start, Job, InstTypes, Inst, Working, Kinds, SecretKinds, Contents
  <2>2. QED
    BY <2>1 DEF JobTypes
<1>5. CASE Begin
  BY <1>2, <1>4, <1>5 DEF Begin
<1>6. CASE CallFails
  <2>1. CASE Goto("degraded") /\ job.pc # "idle"
    <3>1. "degraded" \in Working \ {"createAdmin"}
      BY DEF Working
    <3>2. QED
      BY <1>1, <2>1, <3>1, GotoType
  <2>2. QED
    BY <1>3, <1>6, <2>1 DEF CallFails, Retry, At, Kinds, SecretKinds
<1>7. QED
  BY <1>2, <1>3, <1>5, <1>6, JobStepWorker DEF Next, Environment, Crash, SyncInst, SyncChild,
     Collect, StartPod, PodBecomesReady, RollOut, StopPod, EvictPod, WipeData, CreateInst,
     EditSpec, RequestDelete, DeleteSecret, AddUser, RemoveUser

\* Faults and edits are counted within their bounds.
LEMMA CountStep ==
    ASSUME TypeInv, Next
    PROVE  Counts'
<1>1. Counts
  BY DEF TypeInv
<1>2. queued' \in BOOLEAN
  <2>1. CASE queued' = queued
    BY <1>1, <2>1 DEF Counts
  <2>2. CASE Notify
    BY <2>2, Zenon DEF Notify
  <2>3. CASE queued' = TRUE \/ queued' = FALSE
    BY <2>3
  <2>4. QED
    BY <2>1, <2>2, <2>3 DEF Next, Environment, Worker, Begin, AddFinalizer, RemoveFinalizer,
       EnsureSecret, EnsureObject, EnsureStatefulSet, Initialize, CreateAdmin, UpdateStatus,
       Degrade, Done, Retry, CallFails, Crash, SyncInst, SyncChild, Collect, StartPod,
       PodBecomesReady, RollOut, StopPod, EvictPod, WipeData, CreateInst, EditSpec,
       RequestDelete, DeleteSecret, AddUser, RemoveUser
<1>3. faults' \in 0..MaxFaults
  <2>1. CASE faults' = faults
    BY <1>1, <2>1 DEF Counts
  <2>2. CASE Fault
    BY <1>1, <2>2 DEF Counts, Fault
  <2>3. QED
    BY <2>1, <2>2 DEF Next, Environment, Worker, Begin, AddFinalizer, RemoveFinalizer,
       EnsureSecret, EnsureObject, EnsureStatefulSet, Initialize, CreateAdmin, UpdateStatus,
       Degrade, CallFails, Crash, SyncInst, SyncChild, Collect, StartPod, PodBecomesReady,
       RollOut, StopPod, EvictPod, WipeData, CreateInst, EditSpec, RequestDelete,
       DeleteSecret, AddUser, RemoveUser
<1>4. edits' \in 0..MaxEdits
  <2>1. CASE edits' = edits
    BY <1>1, <2>1 DEF Counts
  <2>2. CASE Edit
    BY <1>1, <2>2 DEF Counts, Edit
  <2>3. QED
    BY <2>1, <2>2 DEF Next, Environment, Worker, Begin, AddFinalizer, RemoveFinalizer,
       EnsureSecret, EnsureObject, EnsureStatefulSet, Initialize, CreateAdmin, UpdateStatus,
       Degrade, CallFails, Crash, SyncInst, SyncChild, Collect, StartPod, PodBecomesReady,
       RollOut, EvictPod, WipeData, CreateInst, EditSpec, RequestDelete, DeleteSecret,
       AddUser, RemoveUser
<1>5. QED
  BY <1>2, <1>3, <1>4 DEF Counts

\* The types are an inductive invariant.
LEMMA TypeStep == TypeInv /\ [Next]_vars => TypeInv'
<1>1. CASE TypeInv /\ Next
  BY <1>1, InstStep, ObjStep, PodStep, DatabaseStep, JobStep, CountStep DEF TypeInv, ObjGood
<1>2. CASE TypeInv /\ UNCHANGED vars
  BY <1>2 DEF TypeInv, vars, InstTypes, ObjTypes, OrphanTypes, PodTypes, JobTypes, Counts
<1>3. QED
  BY <1>1, <1>2

\* The strengthened types are an invariant.
THEOREM TypesHold == Spec => []TypeInv
  BY TypeInit, TypeStep, PTL DEF Spec

\* Type correctness of the instance controller: the worker only ever makes an
\* administrator that the spec names, with a key it has.
THEOREM InstanceTypeCorrect == Spec => []TypeOK
  BY TypesHold, TypeInvStrong, PTL
-------------------------------------------------------------------------------
(* Keys. *)

\* A generated key stays as long as its Secret does, whatever the cache shows.
THEOREM KeysAreKept == Spec => KeysKept
<1>1. TypeInv /\ [Next]_vars
        => [\A k \in SecretKinds :
              (child[k].there /\ child'[k].there) => child'[k].data = child[k].data]_vars
  BY ObjStep DEF ObjGood, Kept
<1>2. QED
  BY <1>1, TypesHold, PTL DEF Spec, KeysKept
-------------------------------------------------------------------------------
(* The administrator. *)

\* While the worker is about to make an administrator there is none that it made:
\* the listing before showed no user, and nobody else makes one.
AdminInv ==
    /\ db.admins \subseteq db.users
    /\ db.users # {} => db.used
    /\ At("createAdmin") => db.admins = {}
    /\ db.admins = {} \/ \E u \in Users : db.admins = {u}

\* It holds at first.
LEMMA AdminInit == Init => AdminInv
  BY DEF Init, AdminInv, NewDatabase, Idle, At

\* Every step preserves it.
LEMMA AdminStep == TypeInv /\ AdminInv /\ [Next]_vars => AdminInv'
<1>1. SUFFICES ASSUME TypeInv, AdminInv, [Next]_vars
               PROVE  AdminInv'
  OBVIOUS
<1>2. JobTypes /\ db \in Database
  BY <1>1 DEF TypeInv
<1>3. CASE db' = db /\ job'.pc # "createAdmin"
  BY <1>1, <1>3 DEF AdminInv, At
<1>4. CASE db' = db /\ job' = job
  BY <1>1, <1>4 DEF AdminInv, At
<1>5. CASE Initialize
  <2>1. db' = db
    BY <1>5 DEF Initialize, server
  <2>2. CASE db.users = {}
    BY <1>1, <2>1, <2>2 DEF AdminInv, At
  <2>3. CASE db.users # {}
    <3>1. job'.pc # "createAdmin"
      BY <1>2, <1>5, <2>3, BusyJob DEF Initialize, Goto, At, Job
    <3>2. QED
      BY <1>3, <2>1, <3>1
  <2>4. QED
    BY <2>2, <2>3
<1>6. CASE CreateAdmin
  <2> DEFINE name == job.base.spec.admin
  <2>1. /\ name \in Users /\ db.admins = {} /\ job.pc = "createAdmin" /\ job \in Job
    BY <1>1, <1>2, <1>6, BusyJob DEF CreateAdmin, At, JobTypes, InstanceSpec, AdminInv
  <2>2. job'.pc # "createAdmin"
    BY <1>6, <2>1 DEF CreateAdmin, Goto, Job
  <2>3. CASE db' = [users |-> db.users \cup {name}, admins |-> db.admins \cup {name},
                    used |-> TRUE]
    BY <1>1, <2>1, <2>2, <2>3 DEF AdminInv, At
  <2>4. QED
    BY <1>3, <1>6, <2>2, <2>3 DEF CreateAdmin
<1>7. ASSUME NEW n \in Users, AddUser(n) \/ RemoveUser(n)
      PROVE  AdminInv'
  <2>1. job' = job
    BY <1>7 DEF AddUser, RemoveUser
  <2>2. CASE /\ db'.users = db.users \cup {n} /\ db'.admins = db.admins
             /\ db'.used = TRUE
    BY <1>1, <2>1, <2>2 DEF AdminInv, At
  <2>3. CASE /\ db'.users = db.users \ {n} /\ db'.admins = db.admins \ {n}
             /\ db'.used = db.used
    BY <1>1, <2>1, <2>3 DEF AdminInv, At
  <2>4. QED
    BY <1>2, <1>7, <2>2, <2>3, UserChange
<1>8. CASE WipeData
  BY <1>1, <1>8 DEF WipeData, NewDatabase, AdminInv, At
<1>9. CASE Begin \/ CallFails \/ Crash
  <2>1. db' = db
    BY <1>9 DEF Begin, CallFails, Crash, server
  <2>2. job' = job \/ job'.pc # "createAdmin"
    BY <1>2, <1>9, BusyJob DEF Begin, CallFails, Crash, Start, Retry, Goto, Idle, Job, At,
       Kinds, SecretKinds
  <2>3. QED
    BY <1>3, <1>4, <2>1, <2>2
<1>10. CASE Worker /\ ~Initialize /\ ~CreateAdmin
  <2>1. db' = db
    BY <1>10 DEF Worker, AddFinalizer, RemoveFinalizer, EnsureSecret, EnsureObject,
       EnsureStatefulSet, UpdateStatus, Degrade, server
  <2>2. job.pc # "idle"
    BY <1>10 DEF Worker, AddFinalizer, RemoveFinalizer, EnsureSecret, EnsureObject,
       EnsureStatefulSet, UpdateStatus, Degrade, At
  <2>3. job' = Idle \/ \E pc \in Working \ {"createAdmin"} : Goto(pc)
    BY <1>10, AfterType DEF Worker, AddFinalizer, RemoveFinalizer, EnsureSecret,
       EnsureObject, EnsureStatefulSet, Create, UpdateStatus, Degrade, Done, Retry, Kinds,
       SecretKinds, Working
  <2>4. job'.pc # "createAdmin"
    BY <1>2, <2>2, <2>3, BusyJob DEF Goto, Idle, Job
  <2>5. QED
    BY <1>3, <2>1, <2>4
<1>11. CASE UNCHANGED vars
  BY <1>4, <1>11 DEF vars
<1>12. QED
  BY <1>1, <1>4, <1>5, <1>6, <1>7, <1>8, <1>9, <1>10, <1>11 DEF Next, Environment, SyncInst,
     SyncChild, Collect, StartPod, PodBecomesReady, RollOut, StopPod, EvictPod, CreateInst,
     EditSpec, RequestDelete, DeleteSecret, server

\* The listing before each attempt keeps the administrators the operator makes to
\* one, whatever answers are lost and however often the spec changes.
THEOREM OneAdminOnly == Spec => []OneAdmin
<1>1. AdminInv => OneAdmin
  <2>1. CASE db.admins = {}
    <3>1. Cardinality(db.admins) = 0
      BY <2>1, FS_EmptySet
    <3>2. QED
      BY <3>1 DEF OneAdmin
  <2>2. ASSUME NEW u \in Users, db.admins = {u}
        PROVE  OneAdmin
    <3>1. Cardinality(db.admins) = 1
      BY <2>2, FS_Singleton
    <3>2. QED
      BY <3>1 DEF OneAdmin
  <2>3. QED
    BY <2>1, <2>2 DEF AdminInv
<1>2. Spec => []AdminInv
  BY AdminInit, AdminStep, TypesHold, PTL DEF Spec
<1>3. QED
  BY <1>1, <1>2, PTL
-------------------------------------------------------------------------------
(* The invariant. *)

LiveHeld(x) == x.state = "live" /\ x.finalizer
Held(x)     == x.state # "absent" /\ x.finalizer

\* What the informer's copy says of the stored instance: the finalizer goes only
\* while the instance is deleting, so a copy that lags and is live is of an
\* instance that still holds it.
CopyInv ==
    /\ LiveHeld(seen) => Held(inst)
    /\ seen.state = "deleting" => ~LiveHeld(inst)

\* What the copy the worker started from says.
WorkInv ==
    job.pc # "idle" =>
        /\ LiveHeld(job.base) => Held(inst)
        /\ job.base.state = "deleting" => ~LiveHeld(inst) /\ ~LiveHeld(seen)
        /\ job.pc = "addFinalizer" =>
              /\ job.base.state = "live"
              /\ seen.state = "deleting" => inst.state = "deleting"
        /\ job.pc \in Working => LiveHeld(job.base)
        /\ job.pc = "removeFinalizer" => job.base.state = "deleting"

\* Whoever says Initialized, the instance, a live copy or the worker, has seen a
\* user in the database of this instance.
UsedInv ==
    /\ inst.initialized => db.used /\ inst.state # "absent"
    /\ LiveHeld(seen) /\ seen.initialized => db.used
    /\ job.pc \in Working /\ job.initialized => db.used

SafetyInv == CopyInv /\ WorkInv /\ UsedInv
-------------------------------------------------------------------------------
(* What a step can do to the instance, to the copy and to the job. *)

\* The state and the finalizer change in five ways only, and Initialized is set
\* only by the update of the status.
InstMove ==
    \/ /\ inst'.state = inst.state /\ inst'.finalizer = inst.finalizer
       /\ inst'.initialized =>
             \/ inst.initialized
             \/ At("status") /\ job.initialized /\ inst.state # "absent"
    \/ /\ inst.state = "absent"
       /\ inst'.state = "live" /\ ~inst'.finalizer /\ ~inst'.initialized
    \/ /\ LiveHeld(inst) /\ inst'.state = "deleting" /\ inst'.finalizer
       /\ inst'.initialized = inst.initialized
    \/ /\ inst.state = "live" /\ ~inst.finalizer
       /\ inst'.state = "absent" /\ ~inst'.initialized
    \/ /\ At("addFinalizer") /\ Current
       /\ inst'.state = inst.state /\ inst'.finalizer
       /\ inst'.initialized = inst.initialized
    \/ /\ At("removeFinalizer") /\ Current
       /\ inst'.state = "absent" /\ ~inst'.initialized /\ job'.pc = "idle"

\* Every step moves the instance in those ways.
LEMMA InstMoves ==
    ASSUME TypeInv, WorkInv, Next
    PROVE  InstMove
<1>1. InstTypes /\ inst \in Inst /\ JobTypes
  BY DEF TypeInv, InstTypes
<1>2. CASE inst' = inst
  BY <1>2 DEF InstMove
<1>3. CASE AddFinalizer
  BY <1>1, <1>3 DEF AddFinalizer, PutInst, InstMove, Inst
<1>4. CASE RemoveFinalizer
  BY <1>2, <1>4, NoInstType DEF RemoveFinalizer, Drop, PutInst, Done, Idle, objects,
     InstMove
<1>5. CASE RequestDelete
  BY <1>1, <1>5, NoInstType DEF RequestDelete, Drop, PutInst, InstMove, LiveHeld, Inst
<1>6. CASE UpdateStatus
  <2>1. CASE ~UNCHANGED objects
    <3>1. /\ inst.state # "absent" /\ At("status")
          /\ inst' = [inst EXCEPT !.ready = cached["statefulSet"].ready,
                                  !.initialized = @ \/ job.initialized,
                                  !.degraded = FALSE, !.observed = TRUE]
      BY <1>6, <2>1 DEF UpdateStatus, PutInst
    <3>2. /\ inst'.state = inst.state /\ inst'.finalizer = inst.finalizer
          /\ inst'.initialized = (inst.initialized \/ job.initialized)
      BY <1>1, <3>1 DEF Inst
    <3>3. QED
      BY <3>1, <3>2 DEF InstMove
  <2>2. QED
    BY <1>2, <2>1 DEF objects
<1>7. CASE Degrade
  <2>1. inst' = inst \/ inst' = [inst EXCEPT !.ready = FALSE, !.degraded = TRUE]
    BY <1>7 DEF Degrade, PutInst
  <2>2. QED
    BY <1>1, <2>1 DEF InstMove, Inst
<1>8. ASSUME NEW s \in Specs, CreateInst(s) \/ EditSpec(s)
      PROVE  InstMove
  <2>1. CASE CreateInst(s)
    BY <2>1 DEF CreateInst, PutInst, NewInst, InstMove
  <2>2. CASE EditSpec(s)
    <3>1. inst' = [inst EXCEPT !.spec = s, !.observed = FALSE]
      BY <2>2 DEF EditSpec, PutInst
    <3>2. QED
      BY <1>1, <3>1 DEF InstMove, Inst
  <2>3. QED
    BY <1>8, <2>1, <2>2
<1>9. QED
  BY <1>2, <1>3, <1>4, <1>5, <1>6, <1>7, <1>8 DEF Next, Environment, Worker, Begin,
     EnsureSecret, EnsureObject, EnsureStatefulSet, Initialize, CreateAdmin, CallFails,
     Crash, SyncInst, SyncChild, Collect, StartPod, PodBecomesReady, RollOut, StopPod,
     EvictPod, WipeData, DeleteSecret, AddUser, RemoveUser, objects

\* The copy is only ever replaced by what is stored.
LEMMA SeenMoves ==
    ASSUME Next
    PROVE  seen' = seen \/ seen' = inst'
  BY DEF Next, Environment, Worker, Begin, AddFinalizer, RemoveFinalizer, Drop,
     EnsureSecret, EnsureObject, EnsureStatefulSet, Initialize, CreateAdmin, UpdateStatus,
     Degrade, PutInst, CallFails, Crash, SyncInst, SyncChild, Collect, StartPod,
     PodBecomesReady, RollOut, StopPod, EvictPod, WipeData, CreateInst, EditSpec,
     RequestDelete, DeleteSecret, AddUser, RemoveUser, objects

\* A database that had a user keeps saying so while there is an instance, and
\* one with a user says so.
LEMMA UsedMoves ==
    ASSUME TypeInv, Next, db.used
    PROVE  db'.used \/ (inst.state = "absent" /\ UNCHANGED <<inst, seen, job>>)
<1>1. db \in Database
  BY DEF TypeInv
<1>2. CASE db' = db
  BY <1>2
<1>3. ASSUME NEW n \in Users, AddUser(n) \/ RemoveUser(n)
      PROVE  db'.used
  BY <1>1, <1>3, UserChange
<1>4. CASE CreateAdmin
  BY <1>2, <1>4 DEF CreateAdmin
<1>5. CASE WipeData
  BY <1>5 DEF WipeData, objects
<1>6. QED
  BY <1>2, <1>3, <1>4, <1>5 DEF Next, Environment, Worker, Begin, AddFinalizer,
     RemoveFinalizer, EnsureSecret, EnsureObject, EnsureStatefulSet, Initialize,
     UpdateStatus, Degrade, CallFails, Crash, SyncInst, SyncChild, Collect, StartPod,
     PodBecomesReady, RollOut, StopPod, EvictPod, CreateInst, EditSpec, RequestDelete,
     DeleteSecret, objects, server

\* A job starts with the copy seen.
JobStart ==
    /\ UNCHANGED <<inst, seen, db>>
    /\ job'.base = seen /\ job'.initialized = seen.initialized
    /\ \/ job'.pc = "removeFinalizer" /\ seen.state = "deleting"
       \/ job'.pc = "addFinalizer" /\ seen.state = "live"
       \/ job'.pc = "encryption" /\ LiveHeld(seen)

\* It keeps that copy, and learns that the instance is initialized from the
\* database alone.
JobOn ==
    /\ job.pc # "idle" /\ job'.base = job.base
    /\ \/ job'.pc = job.pc
       \/ job.pc \in Working /\ job'.pc \in Working
    /\ job'.initialized => job.initialized \/ (job.pc \in Working /\ db'.used)

JobMove == job'.pc = "idle" \/ JobStart \/ JobOn

\* Goto keeps the rest of the job.
LEMMA GotoMove ==
    ASSUME TypeInv, job.pc \in Working, NEW pc \in Working, Goto(pc)
    PROVE  JobMove
<1>1. "idle" \notin Working
  BY DEF Working, Kinds, SecretKinds
<1>2. job \in Job
  BY <1>1, BusyJob DEF TypeInv
<1>3. job'.base = job.base /\ job'.initialized = job.initialized /\ job'.pc = pc
  BY <1>2 DEF Goto, Job
<1>4. QED
  BY <1>1, <1>3 DEF JobMove, JobOn

\* Every step moves the job so.
LEMMA JobMoves ==
    ASSUME TypeInv, AdminInv, Next
    PROVE  JobMove
<1>1. JobTypes /\ "idle" \notin Working
  BY DEF TypeInv, Working, Kinds, SecretKinds
<1>2. CASE job' = job
  BY <1>2 DEF JobMove, JobOn
<1>3. CASE job' = Idle
  BY <1>3 DEF JobMove, Idle
<1>4. ASSUME job.pc \in Working, NEW pc \in Working, Goto(pc)
      PROVE  JobMove
  BY <1>4, GotoMove
<1>5. CASE Begin
  <2>1. CASE Start("removeFinalizer") /\ seen.state = "deleting"
    BY <1>5, <2>1 DEF Begin, Start, JobMove, JobStart, objects, server
  <2>2. CASE Start("addFinalizer") /\ seen.state = "live"
    BY <1>5, <2>2 DEF Begin, Start, JobMove, JobStart, objects, server
  <2>3. CASE Start("encryption") /\ LiveHeld(seen)
    BY <1>5, <2>3 DEF Begin, Start, JobMove, JobStart, objects, server
  <2>4. QED
    BY <1>2, <1>5, <2>1, <2>2, <2>3 DEF Begin, LiveHeld
<1>6. CASE Initialize
  <2>1. job.pc \in Working /\ job \in Job /\ db' = db
    BY <1>1, <1>6, BusyJob DEF Initialize, At, Working, server
  <2>2. CASE job' = [job EXCEPT !.pc = "createAdmin", !.key = OperatorKey]
    BY <1>1, <2>1, <2>2 DEF JobMove, JobOn, Job, Working
  <2>3. CASE db.users # {} /\ job' = [job EXCEPT !.pc = "status", !.initialized = TRUE]
    BY <1>1, <2>1, <2>3 DEF JobMove, JobOn, Job, Working, AdminInv
  <2>4. QED
    BY <1>4, <1>6, <2>1, <2>2, <2>3 DEF Initialize, Working
<1>7. CASE CreateAdmin
  <2>1. job.pc \in Working /\ job \in Job
    BY <1>1, <1>7, BusyJob DEF CreateAdmin, At, Working
  <2>2. CASE db'.used /\ job' = [job EXCEPT !.pc = "status", !.initialized = TRUE]
    BY <1>1, <2>1, <2>2 DEF JobMove, JobOn, Job, Working
  <2>3. QED
    BY <1>4, <1>7, <2>1, <2>2 DEF CreateAdmin, Working
<1>8. CASE CallFails
  BY <1>3, <1>4, <1>8 DEF CallFails, Retry, At, Working
<1>9. CASE Worker /\ ~Initialize /\ ~CreateAdmin
  BY <1>3, <1>4, <1>9, AfterType DEF Worker, AddFinalizer, RemoveFinalizer, EnsureSecret,
     EnsureObject, EnsureStatefulSet, Create, UpdateStatus, Degrade, Done, Retry, At,
     Kinds, SecretKinds, Working
<1>10. QED
  BY <1>2, <1>3, <1>5, <1>6, <1>7, <1>8, <1>9 DEF Next, Environment, Crash, SyncInst,
     SyncChild, Collect, StartPod, PodBecomesReady, RollOut, StopPod, EvictPod, WipeData,
     CreateInst, EditSpec, RequestDelete, DeleteSecret, AddUser, RemoveUser
-------------------------------------------------------------------------------
(* The invariant is inductive. *)

\* It holds at first.
LEMMA SafetyInit == Init => SafetyInv
  BY NoInstType DEF Init, SafetyInv, CopyInv, WorkInv, UsedInv, LiveHeld, Held, Idle,
     Working, Kinds, SecretKinds

\* Every step preserves what the copy says.
LEMMA CopyStep ==
    ASSUME TypeInv, SafetyInv, Next
    PROVE  CopyInv'
<1>1. InstMove
  BY InstMoves DEF SafetyInv
<1>2. CASE seen' = inst'
  BY <1>2 DEF CopyInv, LiveHeld, Held
<1>3. CASE seen' = seen
  <2>1. CopyInv /\ inst \in Inst
    BY DEF SafetyInv, TypeInv, InstTypes
  <2>2. At("removeFinalizer") => ~LiveHeld(seen)
    BY DEF SafetyInv, WorkInv, At
  <2>3. At("addFinalizer") /\ Current => inst.state = "live" /\ seen.state # "deleting"
    BY DEF SafetyInv, WorkInv, At, Current
  <2>4. QED
    BY <1>1, <1>3, <2>1, <2>2, <2>3 DEF CopyInv, InstMove, LiveHeld, Held
<1>4. QED
  BY <1>2, <1>3, SeenMoves

\* Every step preserves what the worker's copy says.
LEMMA WorkStep ==
    ASSUME TypeInv, AdminInv, SafetyInv, Next
    PROVE  WorkInv'
<1>1. CASE job'.pc = "idle"
  BY <1>1 DEF WorkInv
<1>2. CASE JobStart
  <2>1. "removeFinalizer" \notin Working /\ "addFinalizer" \notin Working
    BY DEF Working, Kinds, SecretKinds
  <2>2. QED
    BY <1>2, <2>1 DEF JobStart, SafetyInv, CopyInv, WorkInv, LiveHeld, Held
<1>3. CASE JobOn /\ job'.pc # "idle"
  <2>1. InstMove /\ (seen' = seen \/ seen' = inst') /\ inst \in Inst
    BY InstMoves, SeenMoves DEF SafetyInv, TypeInv, InstTypes
  <2>2. /\ job.pc # "idle" /\ job'.base = job.base
        /\ job'.pc = job.pc \/ (job.pc \in Working /\ job'.pc \in Working)
    BY <1>3 DEF JobOn
  <2>3. /\ LiveHeld(job.base) => Held(inst)
        /\ job.base.state = "deleting" => ~LiveHeld(inst) /\ ~LiveHeld(seen)
        /\ job.pc = "addFinalizer" =>
              /\ job.base.state = "live"
              /\ seen.state = "deleting" => inst.state = "deleting"
        /\ job.pc \in Working => LiveHeld(job.base)
        /\ job.pc = "removeFinalizer" => job.base.state = "deleting"
    BY <2>2 DEF SafetyInv, WorkInv
  <2>4. LiveHeld(job.base) => Held(inst')
    BY <1>3, <2>1, <2>3 DEF InstMove, LiveHeld, Held, At
  <2>5. job.base.state = "deleting" => ~LiveHeld(inst') /\ ~LiveHeld(seen')
    BY <2>1, <2>3 DEF InstMove, LiveHeld, At
  <2>6. job.pc = "addFinalizer" => (seen'.state = "deleting" => inst'.state = "deleting")
    BY <2>1, <2>3 DEF InstMove, LiveHeld, At, Current
  <2>7. "removeFinalizer" \notin Working /\ "addFinalizer" \notin Working
    BY DEF Working, Kinds, SecretKinds
  <2>8. QED
    BY <2>2, <2>3, <2>4, <2>5, <2>6, <2>7 DEF WorkInv, LiveHeld, Held
<1>4. QED
  BY <1>1, <1>2, <1>3, JobMoves DEF JobMove

\* Every step preserves what is known of the database.
LEMMA UsedStep ==
    ASSUME TypeInv, AdminInv, SafetyInv, Next
    PROVE  UsedInv'
<1>1. /\ InstMove /\ JobMove /\ (seen' = seen \/ seen' = inst')
      /\ CopyInv /\ WorkInv /\ UsedInv
      /\ "idle" \notin Working /\ "status" \in Working
      /\ "removeFinalizer" \notin Working /\ "addFinalizer" \notin Working
  BY InstMoves, JobMoves, SeenMoves DEF SafetyInv, Working, Kinds, SecretKinds
<1>2. CASE inst.state = "absent" /\ UNCHANGED <<inst, seen, job>>
  BY <1>1, <1>2 DEF UsedInv, CopyInv, WorkInv, LiveHeld, Held
<1>3. CASE db.used => db'.used
  <2>1. inst'.initialized => db'.used /\ inst'.state # "absent"
    BY <1>1, <1>3 DEF InstMove, UsedInv, LiveHeld, At
  <2>2. LiveHeld(seen') /\ seen'.initialized => db'.used
    BY <1>1, <1>3, <2>1 DEF UsedInv, LiveHeld
  <2>3. job'.pc \in Working /\ job'.initialized => db'.used
    <3>1. CASE JobStart
      BY <1>1, <1>3, <3>1 DEF JobStart, UsedInv
    <3>2. CASE JobOn
      BY <1>1, <1>3, <3>2 DEF JobOn, UsedInv
    <3>3. QED
      BY <1>1, <3>1, <3>2 DEF JobMove
  <2>4. QED
    BY <2>1, <2>2, <2>3 DEF UsedInv, LiveHeld
<1>4. QED
  BY <1>2, <1>3, UsedMoves

\* All of it.
LEMMA SafetyStep == TypeInv /\ AdminInv /\ SafetyInv /\ [Next]_vars => SafetyInv'
<1>1. CASE UNCHANGED vars
  BY <1>1 DEF vars, SafetyInv, CopyInv, WorkInv, UsedInv, LiveHeld, Held
<1>2. QED
  BY <1>1, CopyStep, WorkStep, UsedStep DEF SafetyInv

\* The strengthening is an invariant.
THEOREM SafetyProtocol == Spec => []SafetyInv
<1>1. Spec => []AdminInv
  BY AdminInit, AdminStep, TypesHold, PTL DEF Spec
<1>2. QED
  BY <1>1, SafetyInit, SafetyStep, TypesHold, PTL DEF Spec

\* However the copies lag, objects are made and patched only for an instance that
\* is there and holds the finalizer.
THEOREM InstanceIsHeld == Spec => []InstanceHeld
<1>1. SafetyInv => InstanceHeld
  <2>1. "idle" \notin Working
    BY DEF Working, Kinds, SecretKinds
  <2>2. QED
    BY <2>1 DEF SafetyInv, WorkInv, InstanceHeld, LiveHeld, Held
<1>2. QED
  BY <1>1, SafetyProtocol, PTL

\* Initialized is said of the instance's own database, never of one before it.
THEOREM InitializedIsEarned == Spec => []InitializedEarned
<1>1. SafetyInv => InitializedEarned
  BY DEF SafetyInv, UsedInv, InitializedEarned
<1>2. QED
  BY <1>1, SafetyProtocol, PTL
===============================================================================
