------------------------------- MODULE UserGroup -------------------------------
(***************************************************************************)
(* The PocketIDUserGroup controller                                        *)
(* (src/internal/controller/pocketidusergroup_controller.go): one worker   *)
(* that reconciles PocketIDUserGroup resources into user groups of a       *)
(* PocketID server.  As in OIDCClient, resources are read through a cache  *)
(* that may lag, writes are conditional on the copy they start from, and   *)
(* every call is a step of its own.                                        *)
(***************************************************************************)
EXTENDS Naturals, FiniteSets

CONSTANTS
    Groups,     \* the PocketIDUserGroup resources, by namespace/name
    Names,      \* values of spec.name, the name of a group in PocketID
    Labels,     \* values of spec.friendlyName
    Ids,        \* ids PocketID gives to user groups, never reused
    None,       \* an empty status.groupId
    Specs,      \* Specs[g]: the specs users give to g
    Existing,   \* id -> name of the groups PocketID holds from the start
    PageSize,   \* how many groups one answer of the list call holds
    MaxFaults,  \* bound: failed calls, lost answers and crashes
    MaxEdits    \* bound: steps of users and of the rest of the cluster

GroupSpec == [name : Names, label : Labels]

ASSUME GroupNoneAssumption == None \notin Ids
ASSUME GroupSpecsAssumption == Specs \in [Groups -> (SUBSET GroupSpec) \ {{}}]
ASSUME GroupExistingAssumption == \E S \in SUBSET Ids : Existing \in [S -> Names]
ASSUME GroupBoundsAssumption ==
    /\ Names # {} /\ Labels # {}
    /\ MaxFaults \in Nat /\ MaxEdits \in Nat /\ PageSize \in Nat

VARIABLES
    obj,         \* obj[g]: the resource g as the API server stores it
    cache,       \* cache[g]: the informer's copy of it
    remote,      \* remote[i]: the user group with id i in PocketID
    instanceOK,  \* the instance, its permission and its API key resolve
    job,         \* what the worker is doing
    faults,      \* faults so far
    edits        \* steps of users and the rest of the cluster so far

vars == <<obj, cache, remote, instanceOK, job, faults, edits>>

outside == <<instanceOK, edits>>
-------------------------------------------------------------------------------
CR == [state : {"absent", "live", "deleting"}, finalizer : BOOLEAN,
       spec : GroupSpec, groupID : Ids \cup {None}, ready : BOOLEAN,
       observed : BOOLEAN]

NewCR(s) == [state |-> "live", finalizer |-> FALSE, spec |-> s,
             groupID |-> None, ready |-> FALSE, observed |-> FALSE]

NoCR(g) == [NewCR(CHOOSE s \in Specs[g] : TRUE) EXCEPT !.state = "absent"]

Remote == [state : {"unused", "live", "deleted"}, name : Names, label : Labels]

Live == {i \in Ids : remote[i].state = "live"}

\* What the list call can answer: its first page, in an order of its own.
Pages == {P \in SUBSET Live :
             IF Cardinality(Live) <= PageSize THEN P = Live
                                              ELSE Cardinality(P) = PageSize}

InitialRemote(i) ==
    [state |-> IF i \in DOMAIN Existing THEN "live" ELSE "unused",
     name  |-> IF i \in DOMAIN Existing THEN Existing[i]
                                        ELSE CHOOSE n \in Names : TRUE,
     label |-> CHOOSE x \in Labels : TRUE]

\* base is the copy the reconciliation started from, mem the object in memory.
Job == [pc : {"addFinalizer", "deleteRemote", "removeFinalizer", "resolve",
              "create", "update", "finish", "errorStatus"},
        c : Groups, base : CR, mem : CR, id : Ids \cup {None}]

Idle == [pc |-> "idle"]

At(pc)   == job.pc = pc
Goto(pc) == job' = [job EXCEPT !.pc = pc]
Done     == job' = Idle
Fault    == faults < MaxFaults /\ faults' = faults + 1
Edit     == edits < MaxEdits /\ edits' = edits + 1
Current  == job.base = obj[job.c]

TypeOK ==
    /\ obj \in [Groups -> CR]
    /\ cache \in [Groups -> CR]
    /\ remote \in [Ids -> Remote]
    /\ instanceOK \in BOOLEAN
    /\ job \in {Idle} \cup Job
    /\ job.pc \in {"update", "finish"} => job.id \in Ids
    /\ faults \in 0..MaxFaults
    /\ edits \in 0..MaxEdits

Init ==
    /\ obj = [g \in Groups |-> NoCR(g)]
    /\ cache = obj
    /\ remote = [i \in Ids |-> InitialRemote(i)]
    /\ instanceOK = TRUE
    /\ job = Idle
    /\ faults = 0
    /\ edits = 0
-------------------------------------------------------------------------------
(* Reconcile, step by step. *)

Start(g, pc) ==
    job' = [pc |-> pc, c |-> g, base |-> cache[g], mem |-> cache[g], id |-> None]

\* The instance is resolved before anything else, for a deletion too.
Begin(g) ==
    /\ job = Idle
    /\ LET o == cache[g] IN
       \/ o.state # "absent" /\ ~instanceOK /\ Start(g, "errorStatus")
       \/ /\ o.state = "deleting" /\ o.finalizer /\ instanceOK
          /\ \/ o.groupID # None /\ Start(g, "deleteRemote")
             \/ o.groupID = None /\ Start(g, "removeFinalizer")
       \/ /\ o.state = "live" /\ instanceOK
          /\ \/ ~o.finalizer /\ Start(g, "addFinalizer")
             \/ o.finalizer /\ Start(g, "resolve")
    /\ UNCHANGED <<obj, cache, remote, faults, outside>>

\* Slip: a group that is already gone counts as an error.
DeleteRemoteStrictly ==
    /\ At("deleteRemote")
    /\ remote' = [remote EXCEPT ![job.base.groupID].state = "deleted"]
    /\ \/ /\ job.base.groupID \in Live
          /\ \/ Goto("removeFinalizer") /\ UNCHANGED faults
             \/ Goto("errorStatus") /\ Fault
       \/ job.base.groupID \notin Live /\ Goto("errorStatus") /\ UNCHANGED faults
    /\ UNCHANGED <<obj, cache, outside>>

\* PocketID answers a delete of an unknown group like one that succeeds.
DeleteRemote ==
    /\ At("deleteRemote")
    /\ remote' = [remote EXCEPT ![job.base.groupID].state = "deleted"]
    /\ \/ Goto("removeFinalizer") /\ UNCHANGED faults
       \/ Goto("errorStatus") /\ Fault
    /\ UNCHANGED <<obj, cache, outside>>

\* Slip: a patch without a resourceVersion.
RemoveFinalizerBlindly ==
    /\ At("removeFinalizer")
    /\ obj' = [obj EXCEPT ![job.c] = NoCR(job.c)]
    /\ Done
    /\ UNCHANGED <<cache, remote, faults, outside>>

\* Once its last finalizer is gone the API server drops the resource.
RemoveFinalizer ==
    /\ At("removeFinalizer")
    /\ \/ Current /\ obj' = [obj EXCEPT ![job.c] = NoCR(job.c)]
       \/ ~Current /\ UNCHANGED obj
    /\ Done
    /\ UNCHANGED <<cache, remote, faults, outside>>

AddFinalizer ==
    /\ At("addFinalizer")
    /\ \/ /\ Current
          /\ obj' = [obj EXCEPT ![job.c].finalizer = TRUE]
          /\ job' = [job EXCEPT !.pc = "resolve", !.base.finalizer = TRUE,
                                !.mem.finalizer = TRUE]
       \/ ~Current /\ Done /\ UNCHANGED obj
    /\ UNCHANGED <<cache, remote, faults, outside>>

\* Slip: the loop copies the wrong variable, so the group found is lost.
ResolveLosingId ==
    /\ At("resolve")
    /\ Goto(IF \E i \in Live : remote[i].name = job.mem.spec.name
            THEN "update" ELSE "create")
    /\ UNCHANGED <<obj, cache, remote, faults, outside>>

\* Slip: a resource without a recorded group gets a new one unlisted.
ResolveUnlisted ==
    /\ At("resolve")
    /\ \/ /\ job.mem.groupID \in Live
          /\ job' = [job EXCEPT !.pc = "update", !.id = job.mem.groupID]
       \/ job.mem.groupID \notin Live \cup {None} /\ Goto("errorStatus")
       \/ job.mem.groupID = None /\ Goto("create")
    /\ UNCHANGED <<obj, cache, remote, faults, outside>>

\* A recorded group is fetched by id.  Otherwise the first group of that name in
\* the listing is adopted, and only if there is none one is created.
Resolve ==
    /\ At("resolve")
    /\ \/ /\ job.mem.groupID # None
          /\ \/ /\ job.mem.groupID \in Live
                /\ job' = [job EXCEPT !.pc = "update", !.id = job.mem.groupID]
             \/ job.mem.groupID \notin Live /\ Goto("errorStatus")
       \/ /\ job.mem.groupID = None
          /\ \E page \in Pages :
               LET named == {i \in page : remote[i].name = job.mem.spec.name} IN
               \/ \E i \in named : job' = [job EXCEPT !.pc = "update", !.id = i]
               \/ named = {} /\ Goto("create")
    /\ UNCHANGED <<obj, cache, remote, faults, outside>>

Create(i) ==
    /\ At("create")
    /\ remote[i].state = "unused"
    /\ remote' = [remote EXCEPT ![i] = [state |-> "live",
                                        name  |-> job.mem.spec.name,
                                        label |-> job.mem.spec.label]]
    /\ \/ /\ job' = [job EXCEPT !.pc = "finish", !.id = i, !.mem.groupID = i]
          /\ UNCHANGED faults
       \/ Goto("errorStatus") /\ Fault
    /\ UNCHANGED <<obj, cache, outside>>

\* Slip: the friendly name is not compared.
NeedsUpdateButLabel(r) == r.name # job.mem.spec.name

NeedsUpdate(r) ==
    r.name # job.mem.spec.name \/ r.label # job.mem.spec.label

Update ==
    /\ At("update")
    /\ \/ /\ NeedsUpdate(remote[job.id])
          /\ remote' = [remote EXCEPT ![job.id] =
                          [@ EXCEPT !.name  = job.mem.spec.name,
                                    !.label = job.mem.spec.label]]
          /\ \/ Goto("finish") /\ UNCHANGED faults
             \/ Goto("errorStatus") /\ Fault
       \/ /\ ~NeedsUpdate(remote[job.id])
          /\ Goto("finish")
          /\ UNCHANGED <<remote, faults>>
    /\ UNCHANGED <<obj, cache, outside>>

\* Slip: it is read again from the API server, not from the cache.
FinishUncached ==
    /\ At("finish")
    /\ obj' = IF obj[job.c].state = "absent" THEN obj
              ELSE [obj EXCEPT ![job.c].groupID = job.id,
                               ![job.c].ready = TRUE, ![job.c].observed = TRUE]
    /\ Done
    /\ UNCHANGED <<cache, remote, faults, outside>>

\* The resource is read again and the status is written into that copy,
\* whichever generation it is.
Finish ==
    /\ At("finish")
    /\ LET o == cache[job.c] IN
       \/ /\ o.state # "absent" /\ o = obj[job.c]
          /\ obj' = [obj EXCEPT ![job.c] =
                       [o EXCEPT !.groupID = job.id, !.ready = TRUE,
                                 !.observed = TRUE]]
       \/ (o.state = "absent" \/ o # obj[job.c]) /\ UNCHANGED obj
    /\ Done
    /\ UNCHANGED <<cache, remote, faults, outside>>

\* Slip: a patch of the status without a resourceVersion.
WriteErrorStatusBlindly ==
    /\ At("errorStatus")
    /\ obj' = IF obj[job.c].state = "absent" THEN obj
              ELSE [obj EXCEPT ![job.c].groupID = job.mem.groupID,
                               ![job.c].ready = FALSE, ![job.c].observed = TRUE]
    /\ Done
    /\ UNCHANGED <<cache, remote, faults, outside>>

\* updateErrorStatus writes the object in memory; its own failure is only logged.
WriteErrorStatus ==
    /\ At("errorStatus")
    /\ \/ /\ Current
          /\ obj' = [obj EXCEPT ![job.c] = [job.mem EXCEPT !.ready = FALSE,
                                                           !.observed = TRUE]]
       \/ ~Current /\ UNCHANGED obj
    /\ Done
    /\ UNCHANGED <<cache, remote, faults, outside>>

\* A call fails without effect: some errors reach the status, others do not.
CallFails ==
    /\ Fault
    /\ \/ /\ \/ job.pc \in {"deleteRemote", "resolve", "create"}
             \/ At("update") /\ NeedsUpdate(remote[job.id])
          /\ Goto("errorStatus")
       \/ /\ job.pc \in {"addFinalizer", "removeFinalizer", "finish", "errorStatus"}
          /\ Done
    /\ UNCHANGED <<obj, cache, remote, outside>>

\* The process stops and a new one fills its cache from the API server.
Crash ==
    /\ Fault
    /\ job # Idle
    /\ Done
    /\ cache' = obj
    /\ UNCHANGED <<obj, remote, outside>>
-------------------------------------------------------------------------------
(* Users and the rest of the cluster. *)

CreateCR(g, s) ==
    /\ Edit
    /\ obj[g].state = "absent"
    /\ obj' = [obj EXCEPT ![g] = NewCR(s)]
    /\ UNCHANGED <<cache, remote, instanceOK, job, faults>>

EditSpec(g, s) ==
    /\ Edit
    /\ obj[g].state = "live" /\ obj[g].spec # s
    /\ obj' = [obj EXCEPT ![g] = [@ EXCEPT !.spec = s, !.observed = FALSE]]
    /\ UNCHANGED <<cache, remote, instanceOK, job, faults>>

RequestDelete(g) ==
    /\ Edit
    /\ obj[g].state = "live"
    /\ obj' = IF obj[g].finalizer THEN [obj EXCEPT ![g].state = "deleting"]
                                  ELSE [obj EXCEPT ![g] = NoCR(g)]
    /\ UNCHANGED <<cache, remote, instanceOK, job, faults>>

FlipInstance ==
    /\ Edit
    /\ instanceOK' = ~instanceOK
    /\ UNCHANGED <<obj, cache, remote, job, faults>>

CacheSync(g) ==
    /\ cache[g] # obj[g]
    /\ cache' = [cache EXCEPT ![g] = obj[g]]
    /\ UNCHANGED <<obj, remote, job, faults, outside>>
-------------------------------------------------------------------------------
Worker ==
    \/ AddFinalizer \/ DeleteRemote \/ RemoveFinalizer
    \/ Resolve \/ (\E i \in Ids : Create(i)) \/ Update
    \/ Finish \/ WriteErrorStatus

Environment ==
    \/ \E g \in Groups : \/ \E s \in Specs[g] : CreateCR(g, s) \/ EditSpec(g, s)
                         \/ RequestDelete(g)
    \/ FlipInstance

Next ==
    \/ \E g \in Groups : Begin(g) \/ CacheSync(g)
    \/ Worker
    \/ CallFails \/ Crash
    \/ Environment

Spec == Init /\ [][Next]_vars

\* A success is requeued after five minutes, an error is retried, and the queue
\* serves requests in turn, so each is taken although others keep the worker busy.
\* Watches eventually deliver.
FairSpec ==
    /\ Spec
    /\ WF_vars(Worker)
    /\ \A g \in Groups : SF_vars(Begin(g)) /\ WF_vars(CacheSync(g))
===============================================================================
