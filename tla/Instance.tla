------------------------------- MODULE Instance -------------------------------
(***************************************************************************)
(* The PocketIDInstance controller                                         *)
(* (src/internal/controller/pocketidinstance_controller.go and             *)
(* instance_workload.go): one worker that turns a PocketIDInstance into    *)
(* two Secrets, a ConfigMap, a Service and a StatefulSet, and makes the    *)
(* first administrator once the server answers.                            *)
(*                                                                         *)
(* Unlike the other controllers it does not come back by itself once the   *)
(* instance is ready: only an event of the instance or of an object it     *)
(* owns, delivered by an informer, puts the instance in the queue again.   *)
(***************************************************************************)
EXTENDS Naturals, FiniteSets

CONSTANTS
    Users,      \* user names in PocketID
    Confs,      \* what the ConfigMap carries: appUrl, sessionDuration, smtp ...
    Images,     \* what only the pod template carries: image, resources
    Keys,       \* keys the operator generates
    UserKey,    \* the key in a Secret users bring themselves
    None,       \* no administrator, no content
    Specs,      \* the specs users give to the instance
    Lagging,    \* which informer caches may lag
    Lingering,  \* what the garbage collector may leave for a while
    MaxFaults,  \* bound: failed calls, lost answers and crashes
    MaxEdits    \* bound: steps of users and of the other controllers

SecretKinds == {"encryption", "apiKey"}
Kinds       == SecretKinds \cup {"config", "service", "statefulSet"}

InstanceSpec == [admin : Users \cup {None}, conf : Confs, image : Images,
                 own : SUBSET SecretKinds]   \* the Secrets users bring

ASSUME InstanceSpecsAssumption == Specs \in (SUBSET InstanceSpec) \ {{}}
ASSUME InstanceNoneAssumption  == None \notin Users \cup Keys \cup {UserKey}
ASSUME InstanceKeysAssumption  == \A k, l \in Keys \cup {UserKey, None} : Keys \ {k, l} # {}
ASSUME InstanceBoundsAssumption ==
    MaxFaults \in Nat /\ MaxEdits \in Nat
    /\ Lagging \subseteq {"instance"} \cup Kinds /\ Lingering \subseteq Kinds

VARIABLES
    inst,    \* the instance as the API server stores it
    seen,    \* the informer's copy of it
    child,   \* child[k]: the object of kind k that carries the instance's name
    cached,  \* cached[k]: the informer's copy of it
    orphan,  \* the kinds whose object belongs to an instance that is gone
    pod,     \* the server, or NoPod
    db,      \* what the server's persistent volume holds
    queued,  \* whether the instance waits in the work queue
    job,     \* what the worker is doing
    faults,  \* faults so far
    edits    \* steps of users and of the other controllers so far

vars == <<inst, seen, child, cached, orphan, pod, db, queued, job, faults, edits>>

objects == <<inst, seen, child, cached, orphan>>
server  == <<pod, db>>
-------------------------------------------------------------------------------
Inst == [state : {"absent", "live", "deleting"}, finalizer : BOOLEAN,
         spec : InstanceSpec, ready : BOOLEAN, initialized : BOOLEAN,
         degraded : BOOLEAN, observed : BOOLEAN]

NewInst(s) == [state |-> "live", finalizer |-> FALSE, spec |-> s, ready |-> FALSE,
               initialized |-> FALSE, degraded |-> FALSE, observed |-> FALSE]

NoInst == [NewInst(CHOOSE s \in Specs : TRUE) EXCEPT !.state = "absent"]

Template(s) == [image |-> s.image, own |-> s.own]
Templates   == [image : Images, own : SUBSET SecretKinds]

\* The content of the object of kind k for spec s.  The Service of an instance is
\* always the same.
Desired(k, s) == IF k = "config" THEN s.conf
                 ELSE IF k = "statefulSet" THEN Template(s)
                 ELSE None

Contents == Keys \cup Confs \cup Templates \cup {None}

\* ready: the replicas the StatefulSet's status reports as ready are all there.
Child == [there : BOOLEAN, data : Contents, ready : BOOLEAN]

NoChild   == [there |-> FALSE, data |-> None, ready |-> FALSE]
Made(x)   == [there |-> TRUE, data |-> x, ready |-> FALSE]

\* A pod reads the ConfigMap and the Secrets once, when it starts.
Pod   == [template : Templates, key : Contents \cup {UserKey}, ready : BOOLEAN]
NoPod == [ready |-> FALSE]

\* admins: the users made as initial administrator; used: whether there ever was a user.
Database    == [users : SUBSET Users, admins : SUBSET Users, used : BOOLEAN]
NewDatabase == [users |-> {}, admins |-> {}, used |-> FALSE]

\* The order in which Reconcile sees to the objects.
After == [encryption |-> "apiKey", apiKey |-> "config", config |-> "service",
          service |-> "statefulSet", statefulSet |-> "initialize"]

Working == Kinds \cup {"initialize", "createAdmin", "status", "degraded"}

\* base is the copy the reconciliation started from, initialized the condition in
\* memory, key the API key of the client it made.
Job == [pc : Working \cup {"addFinalizer", "removeFinalizer"}, base : Inst,
        initialized : BOOLEAN, key : Contents \cup {UserKey}]

Idle == [pc |-> "idle"]

At(pc)   == job.pc = pc
Goto(pc) == job' = [job EXCEPT !.pc = pc]
Fault    == faults < MaxFaults /\ faults' = faults + 1
Edit     == edits < MaxEdits /\ edits' = edits + 1
Current  == job.base = inst

\* What the API server stores reaches a cache that does not lag at once.
PutInst(v) ==
    /\ inst' = v
    /\ seen' = IF "instance" \in Lagging THEN seen ELSE v

PutChild(k, v) ==
    /\ child' = [child EXCEPT ![k] = v]
    /\ cached' = IF k \in Lagging THEN cached ELSE [cached EXCEPT ![k] = v]

\* Whatever an informer delivers puts the instance in the queue.
Notify == queued' = (queued \/ seen' # seen \/ cached' # cached)

\* A reconciliation ends; after an error, or with a delay, it is tried again.
Done  == job' = Idle /\ Notify
Retry == job' = Idle /\ queued' = TRUE

TypeOK ==
    /\ inst \in Inst
    /\ seen \in Inst
    /\ child \in [Kinds -> Child]
    /\ cached \in [Kinds -> Child]
    /\ orphan \subseteq {k \in Kinds : child[k].there}
    /\ pod \in {NoPod} \cup Pod
    /\ db \in Database
    /\ queued \in BOOLEAN
    /\ job \in {Idle} \cup Job
    /\ job.pc = "createAdmin" => job.base.spec.admin # None /\ job.key # None
    /\ faults \in 0..MaxFaults
    /\ edits \in 0..MaxEdits

Init ==
    /\ inst = NoInst
    /\ seen = inst
    /\ child = [k \in Kinds |-> NoChild]
    /\ cached = child
    /\ orphan = {}
    /\ pod = NoPod
    /\ db = NewDatabase
    /\ queued = FALSE
    /\ job = Idle
    /\ faults = 0
    /\ edits = 0
-------------------------------------------------------------------------------
(* Reconcile up to the first object. *)

Start(pc) == job' = [pc |-> pc, base |-> seen, initialized |-> seen.initialized,
                     key |-> None]

Begin ==
    /\ job = Idle /\ queued
    /\ queued' = FALSE
    /\ \/ /\ seen.state = "absent" \/ (seen.state = "deleting" /\ ~seen.finalizer)
          /\ UNCHANGED job
       \/ seen.state = "deleting" /\ seen.finalizer /\ Start("removeFinalizer")
       \/ seen.state = "live" /\ ~seen.finalizer /\ Start("addFinalizer")
       \/ seen.state = "live" /\ seen.finalizer /\ Start("encryption")
    /\ UNCHANGED <<objects, server, faults, edits>>

\* Slip: the reconciliation goes on with the copy it has, added or not.
AddFinalizerAndGoOn ==
    /\ At("addFinalizer")
    /\ PutInst(IF Current THEN [inst EXCEPT !.finalizer = TRUE] ELSE inst)
    /\ Goto("encryption")
    /\ UNCHANGED <<child, cached, orphan, server, faults, edits>>
    /\ Notify

\* Once the finalizer is stored the reconciliation ends and is asked for again.
AddFinalizer ==
    /\ At("addFinalizer")
    /\ PutInst(IF Current THEN [inst EXCEPT !.finalizer = TRUE] ELSE inst)
    /\ Retry
    /\ UNCHANGED <<child, cached, orphan, server, faults, edits>>

\* Without its last finalizer the instance is gone, and what it owned waits for
\* the garbage collector.
Drop ==
    LET left == [k \in Kinds |-> IF k \in Lingering THEN child[k] ELSE NoChild] IN
    /\ PutInst(NoInst)
    /\ child' = left
    /\ cached' = [k \in Kinds |-> IF k \in Lagging THEN cached[k] ELSE left[k]]
    /\ orphan' = {k \in Kinds : left[k].there}
    /\ pod' = IF "statefulSet" \in Lingering THEN pod ELSE NoPod

RemoveFinalizer ==
    /\ At("removeFinalizer")
    /\ \/ Current /\ Drop /\ Done
       \/ ~Current /\ Retry /\ UNCHANGED <<objects, pod>>
    /\ UNCHANGED <<db, faults, edits>>
-------------------------------------------------------------------------------
(* The objects, one step each: what to do is decided on the cached copy. *)

\* A key no Secret in sight and no server has.
FreshKey(k) ==
    CHOOSE x \in Keys : x # cached[k].data /\ (pod # NoPod => x # pod.key)

Create(k, x) ==
    \/ /\ ~child[k].there
       /\ PutChild(k, Made(x))
       /\ Goto(After[k])
    \/ child[k].there /\ Goto("degraded") /\ UNCHANGED <<child, cached>>

\* Slip: a Secret that is there after all is overwritten.
EnsureSecretOverwriting(k) ==
    /\ At(k)
    /\ \/ /\ k \in job.base.spec.own \/ cached[k].there
          /\ Goto(After[k])
          /\ UNCHANGED <<child, cached>>
       \/ /\ k \notin job.base.spec.own /\ ~cached[k].there
          /\ PutChild(k, Made(FreshKey(k)))
          /\ Goto(After[k])
    /\ UNCHANGED <<inst, seen, orphan, server, faults, edits>>
    /\ Notify

EnsureSecret(k) ==
    /\ At(k)
    /\ \/ /\ k \in job.base.spec.own \/ cached[k].there
          /\ Goto(After[k])
          /\ UNCHANGED <<child, cached>>
       \/ /\ k \notin job.base.spec.own /\ ~cached[k].there
          /\ Create(k, FreshKey(k))
    /\ UNCHANGED <<inst, seen, orphan, server, faults, edits>>
    /\ Notify

\* Slip: an object that is there is left as it is.
EnsureObjectOnce(k) ==
    /\ At(k)
    /\ \/ ~cached[k].there /\ Create(k, Desired(k, job.base.spec))
       \/ cached[k].there /\ Goto(After[k]) /\ UNCHANGED <<child, cached>>
    /\ UNCHANGED <<inst, seen, orphan, server, faults, edits>>
    /\ Notify

\* The ConfigMap and the Service: an Update of the cached copy, refused if that
\* copy is not the stored one.
EnsureObject(k) ==
    /\ At(k)
    /\ \/ ~cached[k].there /\ Create(k, Desired(k, job.base.spec))
       \/ /\ cached[k].there /\ cached[k] = child[k]
          /\ PutChild(k, [child[k] EXCEPT !.data = Desired(k, job.base.spec)])
          /\ Goto(After[k])
       \/ /\ cached[k].there /\ cached[k] # child[k]
          /\ Goto("degraded")
          /\ UNCHANGED <<child, cached>>
    /\ UNCHANGED <<inst, seen, orphan, server, faults, edits>>
    /\ Notify

\* The StatefulSet: a patch with the difference between the cached copy and the
\* desired one, without a resourceVersion.
EnsureStatefulSet ==
    LET k == "statefulSet"
        x == Desired(k, job.base.spec)
    IN
    /\ At(k)
    /\ \/ ~cached[k].there /\ Create(k, x)
       \/ /\ cached[k].there /\ child[k].there
          /\ IF cached[k].data = x THEN UNCHANGED <<child, cached>>
                                   ELSE PutChild(k, [child[k] EXCEPT !.data = x])
          /\ Goto(After[k])
       \/ /\ cached[k].there /\ ~child[k].there
          /\ Goto("degraded")
          /\ UNCHANGED <<child, cached>>
    /\ UNCHANGED <<inst, seen, orphan, server, faults, edits>>
    /\ Notify
-------------------------------------------------------------------------------
(* initializeInstance *)

\* The key the operator would use, as its cache shows it.
OperatorKey == IF "apiKey" \in job.base.spec.own THEN UserKey ELSE cached["apiKey"].data

Answers(key) == pod # NoPod /\ pod.ready /\ pod.key = key

\* Ready is the one a former reconciliation wrote.
MayInitialize ==
    job.base.spec.admin # None /\ ~job.base.initialized /\ job.base.ready

\* Slip: a listing that fails counts as one that found users.
InitializeDespiteErrors ==
    /\ At("initialize")
    /\ \/ ~MayInitialize /\ Goto("status")
       \/ /\ MayInitialize /\ (db.users # {} \/ ~Answers(OperatorKey))
          /\ job' = [job EXCEPT !.pc = "status", !.initialized = TRUE]
       \/ /\ MayInitialize /\ db.users = {} /\ Answers(OperatorKey)
          /\ job' = [job EXCEPT !.pc = "createAdmin", !.key = OperatorKey]
    /\ UNCHANGED <<objects, server, faults, edits>>
    /\ Notify

\* Slip: whoever is there already is not looked at.
InitializeUnlisted ==
    /\ At("initialize")
    /\ \/ ~MayInitialize /\ Goto("status")
       \/ MayInitialize /\ job' = [job EXCEPT !.pc = "createAdmin", !.key = OperatorKey]
    /\ UNCHANGED <<objects, server, faults, edits>>
    /\ Notify

Initialize ==
    /\ At("initialize")
    /\ \/ ~MayInitialize /\ Goto("status")
       \/ MayInitialize /\ ~Answers(OperatorKey) /\ Goto("degraded")
       \/ /\ MayInitialize /\ Answers(OperatorKey)
          /\ \/ /\ db.users = {}
                /\ job' = [job EXCEPT !.pc = "createAdmin", !.key = OperatorKey]
             \/ /\ db.users # {}
                /\ job' = [job EXCEPT !.pc = "status", !.initialized = TRUE]
    /\ UNCHANGED <<objects, server, faults, edits>>
    /\ Notify

\* PocketID refuses a second user of a name.
CreateAdmin ==
    LET name == job.base.spec.admin IN
    /\ At("createAdmin")
    /\ \/ /\ Answers(job.key) /\ name \notin db.users
          /\ db' = [users |-> db.users \cup {name}, admins |-> db.admins \cup {name},
                    used |-> TRUE]
          /\ \/ /\ job' = [job EXCEPT !.pc = "status", !.initialized = TRUE]
                /\ UNCHANGED faults
             \/ Goto("degraded") /\ Fault
       \/ /\ ~Answers(job.key) \/ name \in db.users
          /\ Goto("degraded")
          /\ UNCHANGED <<db, faults>>
    /\ UNCHANGED <<objects, pod, edits>>
    /\ Notify
-------------------------------------------------------------------------------
(* updateStatus and setDegradedCondition *)

\* Slip: the condition in memory is not carried over.
UpdateStatusForgetting ==
    /\ At("status")
    /\ IF seen.state = "absent" \/ ~cached["statefulSet"].there \/ seen # inst
       THEN Retry /\ UNCHANGED objects
       ELSE /\ PutInst([inst EXCEPT !.ready = cached["statefulSet"].ready,
                                    !.degraded = FALSE, !.observed = TRUE])
            /\ UNCHANGED <<child, cached, orphan>>
            /\ IF cached["statefulSet"].ready THEN Done ELSE Retry
    /\ UNCHANGED <<server, faults, edits>>

\* The instance is read again and written with what its StatefulSet reports.
UpdateStatus ==
    /\ At("status")
    /\ IF seen.state = "absent" \/ ~cached["statefulSet"].there \/ seen # inst
       THEN Retry /\ UNCHANGED objects
       ELSE /\ PutInst([inst EXCEPT !.ready = cached["statefulSet"].ready,
                                    !.initialized = @ \/ job.initialized,
                                    !.degraded = FALSE, !.observed = TRUE])
            /\ UNCHANGED <<child, cached, orphan>>
            /\ IF cached["statefulSet"].ready THEN Done ELSE Retry
    /\ UNCHANGED <<server, faults, edits>>

\* setDegradedCondition writes the copy the reconciliation started from.
Degrade ==
    /\ At("degraded")
    /\ PutInst(IF Current THEN [inst EXCEPT !.ready = FALSE, !.degraded = TRUE]
                          ELSE inst)
    /\ Retry
    /\ UNCHANGED <<child, cached, orphan, server, faults, edits>>

\* Slip: an error that reaches no status is logged and dropped.
CallFailsForGood ==
    /\ Fault
    /\ \/ /\ job.pc \in Kinds \cup {"initialize", "createAdmin"}
          /\ Goto("degraded")
          /\ UNCHANGED queued
       \/ /\ job.pc \in {"addFinalizer", "removeFinalizer", "status", "degraded"}
          /\ job' = Idle
          /\ UNCHANGED queued
    /\ UNCHANGED <<objects, server, edits>>

\* A call fails without effect.
CallFails ==
    /\ Fault
    /\ \/ /\ \/ job.pc \in Kinds \cup {"createAdmin"}
             \/ At("initialize") /\ MayInitialize
          /\ Goto("degraded")
          /\ UNCHANGED queued
       \/ /\ job.pc \in {"addFinalizer", "removeFinalizer", "status", "degraded"}
          /\ Retry
    /\ UNCHANGED <<objects, server, edits>>

\* The process stops.  A new one fills its caches, which queues every instance.
Crash ==
    /\ Fault
    /\ job # Idle
    /\ job' = Idle
    /\ seen' = inst /\ cached' = child
    /\ queued' = TRUE
    /\ UNCHANGED <<inst, child, orphan, server, edits>>
-------------------------------------------------------------------------------
(* The cluster. *)

SyncInst ==
    /\ seen # inst
    /\ seen' = inst
    /\ UNCHANGED <<inst, child, cached, orphan, server, job, faults, edits>>
    /\ Notify

SyncChild(k) ==
    /\ cached[k] # child[k]
    /\ cached' = [cached EXCEPT ![k] = child[k]]
    /\ UNCHANGED <<inst, seen, child, orphan, server, job, faults, edits>>
    /\ Notify

\* With its StatefulSet the pod goes too.
Collect(k) ==
    /\ k \in orphan
    /\ PutChild(k, NoChild)
    /\ orphan' = orphan \ {k}
    /\ pod' = IF k = "statefulSet" THEN NoPod ELSE pod
    /\ UNCHANGED <<inst, seen, db, job, faults, edits>>
    /\ Notify

Workload == child["statefulSet"]

Report(ready) ==
    IF Workload.there THEN PutChild("statefulSet", [Workload EXCEPT !.ready = ready])
                      ELSE UNCHANGED <<child, cached>>

StartPod ==
    /\ pod = NoPod /\ Workload.there
    /\ \A k \in (SecretKinds \ Workload.data.own) \cup {"config"} : child[k].there
    /\ pod' = [template |-> Workload.data, ready |-> FALSE,
               key |-> IF "apiKey" \in Workload.data.own THEN UserKey
                                                         ELSE child["apiKey"].data]
    /\ UNCHANGED <<objects, db, queued, job, faults, edits>>

PodBecomesReady ==
    /\ pod # NoPod /\ ~pod.ready
    /\ pod' = [pod EXCEPT !.ready = TRUE]
    /\ Report(TRUE)
    /\ UNCHANGED <<inst, seen, orphan, db, job, faults, edits>>
    /\ Notify

StopPod ==
    /\ pod # NoPod
    /\ pod' = NoPod
    /\ Report(FALSE)
    /\ UNCHANGED <<inst, seen, orphan, db, job, faults>>
    /\ Notify

\* A pod of an older template is replaced.
RollOut == Workload.there /\ pod # NoPod /\ pod.template # Workload.data
             /\ StopPod /\ UNCHANGED edits
-------------------------------------------------------------------------------
(* Users and the other controllers. *)

CreateInst(s) ==
    /\ Edit
    /\ inst.state = "absent"
    /\ PutInst(NewInst(s))
    /\ UNCHANGED <<child, cached, orphan, server, job, faults>>
    /\ Notify

EditSpec(s) ==
    /\ Edit
    /\ inst.state = "live" /\ inst.spec # s
    /\ PutInst([inst EXCEPT !.spec = s, !.observed = FALSE])
    /\ UNCHANGED <<child, cached, orphan, server, job, faults>>
    /\ Notify

RequestDelete ==
    /\ Edit
    /\ inst.state = "live"
    /\ \/ /\ inst.finalizer
          /\ PutInst([inst EXCEPT !.state = "deleting"])
          /\ UNCHANGED <<child, cached, orphan, pod>>
       \/ ~inst.finalizer /\ Drop
    /\ UNCHANGED <<db, job, faults>>
    /\ Notify

DeleteSecret(k) ==
    /\ Edit
    /\ child[k].there
    /\ PutChild(k, NoChild)
    /\ orphan' = orphan \ {k}
    /\ UNCHANGED <<inst, seen, server, job, faults>>
    /\ Notify

EvictPod == Edit /\ StopPod

\* The controller of users, which does not wait for the instance to be ready, and
\* people in PocketID's own pages.
AddUser(n) ==
    /\ Edit
    /\ pod # NoPod /\ pod.ready /\ n \notin db.users
    /\ db' = [db EXCEPT !.users = @ \cup {n}, !.used = TRUE]
    /\ UNCHANGED <<objects, pod, queued, job, faults>>

RemoveUser(n) ==
    /\ Edit
    /\ pod # NoPod /\ pod.ready /\ n \in db.users
    /\ db' = [db EXCEPT !.users = @ \ {n}, !.admins = @ \ {n}]
    /\ UNCHANGED <<objects, pod, queued, job, faults>>

\* The volume outlives the instance until somebody deletes it.
WipeData ==
    /\ inst.state = "absent" /\ ~Workload.there /\ pod = NoPod
    /\ db # NewDatabase
    /\ db' = NewDatabase
    /\ UNCHANGED <<objects, pod, queued, job, faults, edits>>
-------------------------------------------------------------------------------
Worker ==
    \/ AddFinalizer \/ RemoveFinalizer
    \/ EnsureSecret("encryption") \/ EnsureSecret("apiKey")
    \/ EnsureObject("config") \/ EnsureObject("service") \/ EnsureStatefulSet
    \/ Initialize \/ CreateAdmin \/ UpdateStatus \/ Degrade

Environment ==
    \/ \E s \in Specs : CreateInst(s) \/ EditSpec(s)
    \/ RequestDelete \/ EvictPod \/ WipeData
    \/ \E k \in SecretKinds : DeleteSecret(k)
    \/ \E n \in Users : AddUser(n) \/ RemoveUser(n)

Next ==
    \/ Begin \/ Worker
    \/ CallFails \/ Crash
    \/ SyncInst \/ \E k \in Kinds : SyncChild(k) \/ Collect(k)
    \/ StartPod \/ PodBecomesReady \/ RollOut
    \/ Environment

Spec == Init /\ [][Next]_vars

\* The worker takes what is queued, informers, the garbage collector and the
\* kubelet do their part.  Nothing is reconciled without an event.
FairSpec ==
    /\ Spec
    /\ WF_vars(Begin) /\ WF_vars(Worker)
    /\ WF_vars(SyncInst)
    /\ \A k \in Kinds : WF_vars(SyncChild(k)) /\ WF_vars(Collect(k))
    /\ WF_vars(StartPod) /\ WF_vars(PodBecomesReady) /\ WF_vars(RollOut)
===============================================================================
