---------------------------- MODULE HTTPRouteSafety ----------------------------
(***************************************************************************)
(* The types of the HTTPRoute controller, and the finalizer protocol of    *)
(* the PocketIDOIDCClient controller beside it: that protocol holds        *)
(* although a second controller creates and overwrites its resource and    *)
(* the garbage collector deletes it, for every set of asks and instances.  *)
(***************************************************************************)
EXTENDS HTTPRouteProps, OIDCClientSafety

USE TargetAssumption, AsksAssumption, InstancesAssumption
-------------------------------------------------------------------------------
(* Types. *)

\* The types of what module HTTPRoute adds.
RouteTypes ==
    /\ route \in Asks \cup {None}
    /\ instance \in Instances \cup {Unset}
    /\ labels \subseteq Labels
    /\ owner \in {"none", "route", "gone"}
    /\ owner # "none" => obj[Target].state # "absent"
    /\ tied \in BOOLEAN /\ pending \in BOOLEAN
    /\ writing \in {Resting} \cup [ask : Asks, uid : {"route", "gone"}]
    /\ writing # Resting => writing.ask.conf # None

\* They are the rest of RouteTypeOK.
LEMMA RouteTypeParts == RouteTypeOK <=> TypeOK /\ RouteTypes
  BY DEF RouteTypeOK, RouteTypes

\* What the worker is about to write is the ask of a route, for a spec of a client.
LEMMA WritingType ==
    ASSUME RouteTypes, writing # Resting
    PROVE  /\ writing.ask \in Asks /\ writing.uid \in {"route", "gone"}
           /\ \A n \in Names : Asked(writing.ask, n) \in ClientSpec
<1>1. /\ writing \in [ask : Asks, uid : {"route", "gone"}]
      /\ writing.ask.conf # None
  BY DEF RouteTypes
<1>2. writing.ask \in Ask
  BY <1>1
<1>3. QED
  BY <1>1, <1>2 DEF Ask, Asked, ClientSpec

\* What the informer makes of a step has its types, and an absent client no owner.
LEMMA DeliverTypes ==
    ASSUME RouteTypes, NEW o \in {"none", "route", "gone"}, Deliver(o)
    PROVE  /\ owner' \in {"none", "route", "gone"}
           /\ owner' # "none" => obj'[Target].state # "absent"
           /\ tied' \in BOOLEAN /\ pending' \in BOOLEAN
<1>1. tied' \in BOOLEAN
  BY Zenon DEF Deliver
<1>2. pending' \in BOOLEAN
  BY Zenon DEF Deliver
<1>3. QED
  BY <1>1, <1>2 DEF Deliver

\* How resources move beside the worker of the clients.
BesideMove(c) ==
    \/ Unchanged(c)
    \/ /\ obj[c].state = "absent"
       /\ obj'[c].state = "live" /\ ~obj'[c].finalizer
    \/ LiveHeld(obj[c]) /\ obj'[c].state = "deleting" /\ obj'[c].finalizer
    \/ obj[c].state = "live" /\ ~obj[c].finalizer /\ obj'[c].state = "absent"

\* The client the route writes: one made, or the copy read with another spec.
LEMMA WriteMoves ==
    ASSUME RouteTypeOK, WriteClient
    PROVE  /\ obj' \in [Clients -> CR]
           /\ \A c \in Clients : BesideMove(c)
           /\ UNCHANGED <<cache, remote, secret, secretCache, policy, gid, job, faults,
                          edits, instanceOK, routeOK, route, instance, labels>>
           /\ writing' = Resting
<1>1. /\ TypeOK /\ RouteTypes /\ writing # Resting /\ obj \in [Clients -> CR]
      /\ obj[Target] \in CR
  BY RouteTypeParts, StateTypes DEF WriteClient
<1>2. /\ UNCHANGED <<cache, remote, secret, secretCache, policy, gid, job, faults,
                    edits, instanceOK, routeOK, route, instance, labels>>
      /\ writing' = Resting
  <2>1. UNCHANGED noClient /\ UNCHANGED cache
    BY Zenon DEF WriteClient, WriteFails
  <2>2. UNCHANGED <<instanceOK, routeOK, route, instance, labels>> /\ writing' = Resting
    BY Zenon DEF WriteClient
  <2>3. QED
    BY <2>1, <2>2 DEF noClient
<1>3. CASE /\ obj[Target].state = "absent"
           /\ obj' = [obj EXCEPT ![Target] = NewCR(Asked(writing.ask, TargetName))]
  <2>1. NewCR(Asked(writing.ask, TargetName)) \in CR
    BY <1>1, WritingType DEF NewCR, CR
  <2>2. obj' \in [Clients -> CR]
    BY <1>1, <1>3, <2>1
  <2>3. \A c \in Clients : BesideMove(c)
    BY <1>1, <1>3 DEF NewCR, BesideMove, Unchanged
  <2>4. QED
    BY <1>2, <2>2, <2>3
<1>4. CASE obj' = [obj EXCEPT ![Target] =
                     Overwrite(obj[Target], Asked(writing.ask, obj[Target].spec.name))]
  <2>1. Asked(writing.ask, obj[Target].spec.name) \in ClientSpec
    BY <1>1, WritingType DEF CR, ClientSpec
  <2>2. DEFINE o == Overwrite(obj[Target], Asked(writing.ask, obj[Target].spec.name))
  <2>3. /\ o \in CR /\ o.state = obj[Target].state
        /\ o.finalizer = obj[Target].finalizer
    BY <1>1, <2>1 DEF Overwrite, CR
  <2>4. obj' \in [Clients -> CR]
    BY <1>1, <1>4, <2>3
  <2>5. \A c \in Clients : BesideMove(c)
    BY <1>1, <1>4, <2>3 DEF BesideMove, Unchanged
  <2>6. QED
    BY <1>2, <2>4, <2>5
<1>5. CASE obj' = obj
  BY <1>1, <1>5, <1>2 DEF BesideMove, Unchanged
<1>6. QED
  BY <1>3, <1>4, <1>5 DEF WriteClient, WriteFails

\* The client the garbage collector deletes moves as if a user deleted it.
LEMMA CollectMoves ==
    ASSUME RouteTypeOK, CollectClient
    PROVE  /\ obj' \in [Clients -> CR] /\ secret' \in [Clients -> Secret]
           /\ policy' \in [Clients -> Policy]
           /\ \A c \in Clients : BesideMove(c)
           /\ UNCHANGED <<cache, remote, secretCache, gid, job, faults,
                          edits, instanceOK, routeOK, route, instance, labels, writing>>
<1>1. TypeOK /\ obj \in [Clients -> CR] /\ obj[Target] \in CR
  BY RouteTypeParts, StateTypes
<1>2. UNCHANGED <<cache, remote, secretCache, gid, job, faults, edits, instanceOK,
                  routeOK, route, instance, labels, writing>>
  BY DEF CollectClient, others
<1>3. CASE /\ obj[Target].finalizer
           /\ obj' = [obj EXCEPT ![Target].state = "deleting"]
           /\ UNCHANGED <<secret, policy>>
  <2>1. obj' \in [Clients -> CR]
    BY <1>1, <1>3, DeletingUpdate
  <2>2. \A c \in Clients : BesideMove(c)
    BY <1>1, <1>3 DEF CollectClient, BesideMove, Unchanged, LiveHeld, CR
  <2>3. QED
    BY <1>1, <1>2, <1>3, <2>1, <2>2, StateTypes
<1>4. CASE ~obj[Target].finalizer /\ Drop(Target)
  <2>1. /\ obj' \in [Clients -> CR] /\ secret' \in [Clients -> Secret]
        /\ policy' \in [Clients -> Policy]
    BY <1>1, <1>4, StateTypes, NoCRType, DisownType DEF Drop
  <2>2. \A c \in Clients : BesideMove(c)
    BY <1>1, <1>4, NoCRAbsent DEF CollectClient, Drop, BesideMove, Unchanged
  <2>3. QED
    BY <1>2, <2>1, <2>2
<1>5. QED
  BY <1>3, <1>4 DEF CollectClient

\* Steps of module OIDCClient are steps of it here too.
LEMMA ClientSteps == ClientStep => Next
  BY DEF ClientStep, Next, Environment

\* Every step keeps the types of the clients.
LEMMA ClientTypes == RouteTypeOK /\ [RouteNext]_allVars => TypeOK'
<1>1. SUFFICES ASSUME RouteTypeOK, [RouteNext]_allVars
               PROVE  TypeOK'
  OBVIOUS
<1>2. TypeOK /\ RouteTypes
  BY <1>1, RouteTypeParts
<1>3. CASE UNCHANGED vars
  BY <1>2, <1>3, TypeStep
<1>4. CASE ClientStep
  BY <1>2, <1>4, ClientSteps, TypeStep
<1>5. CASE WriteClient
  BY <1>1, <1>2, <1>5, WriteMoves DEF TypeOK, JobOK
<1>6. CASE CollectClient
  BY <1>1, <1>2, <1>6, CollectMoves DEF TypeOK, JobOK
<1>7. CASE WriteCallFails
  BY <1>2, <1>7, FaultType DEF WriteCallFails, TypeOK, JobOK, others
<1>8. CASE Restart
  BY <1>2, <1>8, FaultType, DoneType DEF Restart, Done, TypeOK, others
<1>9. ASSUME NEW a \in Asks, SetRoute(a)
      PROVE  TypeOK'
  <2>1. routeOK' \in BOOLEAN
    BY <1>9, Zenon DEF SetRoute
  <2>2. /\ Edit
        /\ UNCHANGED <<obj, cache, secret, secretCache, policy, remote, gid, instanceOK,
                       job, faults>>
    BY <1>9 DEF SetRoute, kube
  <2>3. QED
    BY <1>2, <2>1, <2>2, BoundsAssumption DEF Edit, TypeOK, JobOK
<1>10. CASE DeleteRoute
  <2>1. routeOK' \in BOOLEAN
    BY <1>10, Zenon DEF DeleteRoute
  <2>2. /\ Edit
        /\ UNCHANGED <<obj, cache, secret, secretCache, policy, remote, gid, instanceOK,
                       job, faults>>
    BY <1>10, Zenon DEF DeleteRoute, kube
  <2>3. QED
    BY <1>2, <2>1, <2>2, BoundsAssumption DEF Edit, TypeOK, JobOK
<1>11. ASSUME NEW i \in Instances \cup {Unset}, NEW ls \in SUBSET Labels,
              ChangeInstance(i, ls)
       PROVE  TypeOK'
  <2>1. instanceOK' \in BOOLEAN
    BY <1>11, Zenon DEF ChangeInstance, Resolves
  <2>2. /\ Edit
        /\ UNCHANGED <<obj, cache, secret, secretCache, policy, remote, gid, routeOK,
                       job, faults>>
    BY <1>11 DEF ChangeInstance, kube
  <2>3. QED
    BY <1>2, <2>1, <2>2, BoundsAssumption DEF Edit, TypeOK, JobOK
<1>12. QED
  BY <1>1, <1>3, <1>4, <1>5, <1>6, <1>7, <1>8, <1>9, <1>10, <1>11
  DEF RouteNext, BeginRoute, allVars

\* Every step keeps the other types.
LEMMA RouteTypeStep == RouteTypeOK /\ [RouteNext]_allVars => RouteTypes'
<1>1. SUFFICES ASSUME RouteTypeOK, [RouteNext]_allVars
               PROVE  RouteTypes'
  OBVIOUS
<1>2. TypeOK /\ RouteTypes
  BY <1>1, RouteTypeParts
<1>3. CASE UNCHANGED allVars
  BY <1>2, <1>3 DEF allVars, vars, routeVars, RouteTypes
<1>4. CASE BeginRoute
  <2>1. /\ writing' \in {Resting} \cup [ask : Asks, uid : {"route", "gone"}]
        /\ writing' # Resting => writing'.ask.conf # None
    BY <1>2, <1>4 DEF BeginRoute, RouteTypes
  <2>2. QED
    BY <1>2, <1>4, <2>1 DEF BeginRoute, RouteTypes, vars
<1>5. CASE WriteClient
  <2>1. /\ UNCHANGED <<route, instance, labels>> /\ writing' = Resting
        /\ writing # Resting
    BY <1>1, <1>5, WriteMoves DEF WriteClient
  <2>2. CASE WriteFails
    BY <1>2, <2>1, <2>2 DEF WriteFails, RouteTypes
  <2>3. CASE ~WriteFails
    <3>1. Deliver(writing.uid) \/ Deliver(owner)
      BY <1>5, <2>3 DEF WriteClient
    <3>2. writing.uid \in {"none", "route", "gone"} /\ owner \in {"none", "route", "gone"}
      BY <1>2, <2>1, WritingType DEF RouteTypes
    <3>3. QED
      BY <1>2, <2>1, <3>1, <3>2, DeliverTypes DEF RouteTypes
  <2>4. QED
    BY <2>2, <2>3
<1>6. CASE ClientStep
  BY <1>2, <1>6, DeliverTypes DEF ClientStep, Beside, RouteTypes
<1>7. CASE CollectClient
  BY <1>2, <1>7, DeliverTypes DEF CollectClient, RouteTypes
<1>8. CASE WriteCallFails
  BY <1>2, <1>8 DEF WriteCallFails, RouteTypes
<1>9. CASE Restart
  BY <1>2, <1>9 DEF Restart, RouteTypes
<1>10. ASSUME NEW a \in Asks, SetRoute(a)
       PROVE  RouteTypes'
  BY <1>2, <1>10 DEF SetRoute, kube, RouteTypes
<1>11. CASE DeleteRoute
  <2>1. /\ writing' \in {Resting} \cup [ask : Asks, uid : {"route", "gone"}]
        /\ writing' # Resting => writing'.ask.conf # None
    BY <1>2, <1>11 DEF DeleteRoute, RouteTypes
  <2>2. QED
    BY <1>2, <1>11, <2>1 DEF DeleteRoute, kube, RouteTypes
<1>12. ASSUME NEW i \in Instances \cup {Unset}, NEW ls \in SUBSET Labels,
              ChangeInstance(i, ls)
       PROVE  RouteTypes'
  BY <1>2, <1>12 DEF ChangeInstance, kube, RouteTypes
<1>13. QED
  BY <1>1, <1>3, <1>4, <1>5, <1>6, <1>7, <1>8, <1>9, <1>10, <1>11, <1>12
  DEF RouteNext

\* The initial states are well typed.
LEMMA RouteTypeInit == RouteInit => RouteTypeOK
  BY TypeInit DEF RouteInit, RouteTypeOK

\* The state of both controllers always has its types, a client in the API server
\* is never without the owner it had, and only routes with hostnames are written.
THEOREM RouteTypeCorrect == RouteSpec => []RouteTypeOK
  BY RouteTypeInit, ClientTypes, RouteTypeStep, RouteTypeParts, PTL DEF RouteSpec
-------------------------------------------------------------------------------
(* The finalizer. *)

\* A step beside the worker of the clients, which moves resources as users do.
LEMMA FinalizerBeside ==
    ASSUME TypeOK, TypeOK', FinalizerInv, UNCHANGED <<job, cache>>,
           \A c \in Clients : BesideMove(c)
    PROVE  FinalizerInv'
<1>1. ASSUME NEW c \in Clients
      PROVE  /\ SeenClient(c)' = SeenClient(c) \/ SeenClient(c)' = obj'[c]
             /\ obj[c] \in CR /\ obj'[c] \in CR
  BY StateTypes DEF SeenClient, TypeOK
<1>2. CopiesInv'
  <2>1. SUFFICES ASSUME NEW c \in Clients
                 PROVE  /\ LiveHeld(SeenClient(c)') => Held(obj'[c])
                        /\ SeenClient(c)'.state = "deleting" => ~LiveHeld(obj'[c])
    BY DEF CopiesInv, SeenClient, LiveHeld, Held
  <2>2. BesideMove(c)
    OBVIOUS
  <2>3. /\ LiveHeld(SeenClient(c)) => Held(obj[c])
        /\ SeenClient(c).state = "deleting" => ~LiveHeld(obj[c])
    BY DEF FinalizerInv, CopiesInv
  <2>4. CASE SeenClient(c)' = obj'[c]
    BY <2>4 DEF LiveHeld, Held
  <2>5. CASE SeenClient(c)' = SeenClient(c)
    BY <2>2, <2>3, <2>5 DEF BesideMove, Unchanged, LiveHeld, Held
  <2>6. QED
    BY <1>1, <2>4, <2>5
<1>3. JobInv'
  <2>1. SUFFICES ASSUME job.pc # "idle"
                 PROVE  JobInv'
    BY DEF JobInv
  <2>2. job.c \in Clients
    BY <2>1, BusyJob
  <2>3. BesideMove(job.c) /\ JobInv
    BY <2>2 DEF FinalizerInv
  <2>4. LiveHeld(job.base) => Held(obj'[job.c])
    BY <2>1, <2>3 DEF JobInv, BesideMove, Unchanged, LiveHeld, Held
  <2>5. job.base.state = "deleting" =>
           ~LiveHeld(obj'[job.c]) /\ ~LiveHeld(SeenClient(job.c)')
    BY <1>1, <2>1, <2>2, <2>3 DEF JobInv, BesideMove, Unchanged, LiveHeld
  <2>6. job.pc = "addFinalizer" =>
           (SeenClient(job.c)'.state = "deleting" => obj'[job.c].state = "deleting")
    BY <1>1, <2>1, <2>2, <2>3 DEF JobInv, BesideMove, Unchanged, LiveHeld
  <2>7. QED
    BY <2>1, <2>3, <2>4, <2>5, <2>6 DEF JobInv, SeenClient, LiveHeld, Held
<1>4. QED
  BY <1>2, <1>3 DEF FinalizerInv

\* A restart ends the reconciliation and brings the copies up to date.
LEMMA FinalizerRestart == Restart => FinalizerInv'
<1>1. SUFFICES ASSUME Restart
               PROVE  CopiesInv' /\ JobInv'
  BY DEF FinalizerInv
<1>2. /\ \A c \in Clients : SeenClient(c)' = obj'[c]
      /\ job'.pc = "idle"
  BY <1>1 DEF Restart, SeenClient, Idle
<1>3. QED
  BY <1>2 DEF CopiesInv, JobInv, SeenClient, LiveHeld, Held

\* The invariant of the finalizer protocol is inductive beside the routes too.
LEMMA RouteFinalizerStep ==
    RouteTypeOK /\ FinalizerInv /\ [RouteNext]_allVars => FinalizerInv'
<1>1. SUFFICES ASSUME RouteTypeOK, FinalizerInv, [RouteNext]_allVars
               PROVE  FinalizerInv'
  OBVIOUS
<1>2. TypeOK /\ TypeOK'
  BY <1>1, RouteTypeParts, ClientTypes
<1>3. CASE UNCHANGED <<obj, cache, job>>
  BY <1>2, <1>1, <1>3, FinalizerBeside DEF BesideMove, Unchanged
<1>4. CASE ClientStep
  BY <1>1, <1>2, <1>4, ClientSteps, FinalizerStep
<1>5. CASE WriteClient
  BY <1>1, <1>2, <1>5, WriteMoves, FinalizerBeside
<1>6. CASE CollectClient
  BY <1>1, <1>2, <1>6, CollectMoves, FinalizerBeside
<1>7. CASE Restart
  BY <1>7, FinalizerRestart
<1>8. QED
  BY <1>1, <1>3, <1>4, <1>5, <1>6, <1>7 DEF RouteNext, BeginRoute, WriteCallFails,
     SetRoute, DeleteRoute, ChangeInstance, allVars, vars, kube

\* The client's finalizer is held whenever its controller acts on PocketID, although
\* the HTTPRoute controller makes and overwrites the resource beside it and the
\* garbage collector takes it away.
THEOREM RouteFinalizerIsHeld == RouteSpec => []FinalizerHeld
<1>1. FinalizerInv => FinalizerHeld
  <2>1. "idle" \notin AfterFinalizer
    BY DEF AfterFinalizer
  <2>2. QED
    BY <2>1 DEF FinalizerInv, JobInv, FinalizerHeld, LiveHeld, Held
<1>2. RouteInit => FinalizerInv
  BY FinalizerInit DEF RouteInit
<1>3. RouteSpec => [](RouteTypeOK /\ FinalizerInv)
  BY <1>2, RouteTypeInit, ClientTypes, RouteTypeStep, RouteTypeParts,
     RouteFinalizerStep, PTL DEF RouteSpec
<1>4. QED
  BY <1>1, <1>3, PTL
===============================================================================
