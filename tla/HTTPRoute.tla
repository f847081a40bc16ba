------------------------------- MODULE HTTPRoute -------------------------------
(***************************************************************************)
(* The HTTPRoute controller (src/internal/controller/                      *)
(* httproute_controller.go) at work beside the PocketIDOIDCClient          *)
(* controller of module OIDCClient: from the annotations of a route it     *)
(* makes a PocketIDOIDCClient and overwrites its spec, while the other     *)
(* controller writes the finalizer and the status of the same resource.    *)
(* One route, Target the client it asks for.  Like an instance, a route is *)
(* looked at only after an event: its own, or one of a client it owns.     *)
(***************************************************************************)
EXTENDS OIDCClientProps, References

CONSTANTS
    Target,         \* the client resource the annotations ask for
    TargetName,     \* its name, which is its name in PocketID too
    RouteNamespace, \* the namespace of the route and the client
    Asks,           \* what the annotations and hostnames may ask for
    Instances       \* what the instance referred to may look like

\* enabled: oidc-enabled is "true"; named: the instance annotation is there; conf:
\* the redirect URIs, None without hostnames; gateway: envoy-gateway is "true".
Ask == [enabled : BOOLEAN, named : BOOLEAN, conf : Confs \cup {None},
        refs : SUBSET Groups, gateway : BOOLEAN]

ASSUME TargetAssumption == Target \in Clients /\ TargetName \in Names
ASSUME AsksAssumption == Asks \subseteq Ask /\ None \notin Asks \cup Confs
ASSUME InstancesAssumption ==
    /\ Instances \subseteq PocketIDInstance /\ Unset \notin Instances \cup AllowedReferences
    /\ \A i, j \in Instances : i.namespace = j.namespace

VARIABLES
    route,      \* what the route asks for, None if there is no route
    instance,   \* the instance, Unset if there is none
    labels,     \* the labels of RouteNamespace
    owner,      \* whose the stored client is: nobody's, the route's, a gone route's
    tied,       \* whether the informer's copy, or one it has yet to show, names a route
    pending,    \* the route waits in the work queue
    writing     \* what the worker is about to write, and for which route

routeVars == <<route, instance, labels, owner, tied, pending, writing>>

allVars == <<vars, routeVars>>

Resting == [ask |-> None, uid |-> "none"]

RouteTypeOK ==
    /\ TypeOK
    /\ route \in Asks \cup {None}
    /\ instance \in Instances \cup {Unset}
    /\ labels \subseteq Labels
    /\ owner \in {"none", "route", "gone"}
    /\ owner # "none" => obj[Target].state # "absent"
    /\ tied \in BOOLEAN /\ pending \in BOOLEAN
    /\ writing \in {Resting} \cup [ask : Asks, uid : {"route", "gone"}]
    /\ writing # Resting => writing.ask.conf # None

Resolves(i, ls) == i # Unset /\ Permitted(i, RouteNamespace, ls)

RouteInit ==
    /\ Init
    /\ route \in Asks /\ route.conf # None
    /\ instance \in Instances
    /\ labels \in SUBSET Labels
    /\ Permitted(instance, RouteNamespace, labels)
    /\ owner = "none"
    /\ tied = FALSE
    /\ pending = TRUE
    /\ writing = Resting
-------------------------------------------------------------------------------
(* What a step does to the client's owner, and what the informer makes of it: *)
(* once its copy is the stored one again, the route that it or a copy between *)
(* names is queued.                                                           *)

Deliver(newOwner) ==
    LET delivered == /\ <<obj, cache>>' # <<obj, cache>>
                     /\ SeenClient(Target)' = obj'[Target]
    IN
    /\ owner' = IF obj'[Target].state = "absent" THEN "none" ELSE newOwner
    /\ tied' = (owner' # "none" \/ (tied /\ ~delivered))
    /\ pending' = (pending \/ (delivered /\ (tied \/ tied')))

noClient == <<remote, secret, secretCache, policy, gid, job, faults, edits>>
-------------------------------------------------------------------------------
(* Reconcile: read the route and resolve the instance, then write the client. *)

\* Without an instance in sight, without permission or without hostnames the route
\* is left alone until the next event.  An instance that is named but missing is
\* an error, tried again at once.
Found == IF route.named THEN instance # Unset
                        ELSE instance # Unset /\ instance.namespace = RouteNamespace

\* Slip: a route without hostnames is served.
BeginRouteAnyHost ==
    /\ writing = Resting /\ pending
    /\ \/ /\ \/ route = None
             \/ route # None /\ ~route.enabled
             \/ /\ route # None /\ route.enabled
                /\ \/ ~route.named /\ ~Found
                   \/ Found /\ ~Permitted(instance, RouteNamespace, labels)
          /\ UNCHANGED writing
       \/ /\ route # None /\ route.enabled
          /\ Found /\ Permitted(instance, RouteNamespace, labels)
          /\ writing' = [ask |-> route, uid |-> "route"]
    /\ pending' = FALSE
    /\ UNCHANGED <<vars, route, instance, labels, owner, tied>>

BeginRoute ==
    /\ writing = Resting /\ pending
    /\ \/ /\ \/ route = None
             \/ route # None /\ ~route.enabled
             \/ /\ route # None /\ route.enabled
                /\ \/ ~route.named /\ ~Found
                   \/ Found /\ ~Permitted(instance, RouteNamespace, labels)
                   \/ Found /\ route.conf = None
          /\ UNCHANGED writing
       \/ /\ route # None /\ route.enabled /\ route.conf # None
          /\ Found /\ Permitted(instance, RouteNamespace, labels)
          /\ writing' = [ask |-> route, uid |-> "route"]
    /\ pending' = FALSE
    /\ UNCHANGED <<vars, route, instance, labels, owner, tied>>

\* A gateway needs the credentials Secret, and only a gateway asks for it.
Asked(a, name) == [name |-> name, conf |-> a.conf, refs |-> a.refs,
                   creds |-> a.gateway, gateway |-> a.gateway]

Overwrite(o, s) == [o EXCEPT !.spec = s, !.observed = @ /\ o.spec = s]

WriteFails == pending' = TRUE /\ UNCHANGED <<obj, cache, owner, tied>>

\* Slip: the client is made once and not touched again.
WriteClientOnce ==
    LET o == SeenClient(Target) IN
    /\ writing # Resting
    /\ \/ /\ o.state = "absent" /\ obj[Target].state = "absent"
          /\ obj' = [obj EXCEPT ![Target] = NewCR(Asked(writing.ask, TargetName))]
          /\ UNCHANGED cache
          /\ Deliver(writing.uid)
       \/ o.state = "absent" /\ obj[Target].state # "absent" /\ WriteFails
       \/ o.state # "absent" /\ UNCHANGED <<obj, cache, owner, tied, pending>>
    /\ writing' = Resting
    /\ UNCHANGED <<noClient, instanceOK, routeOK, route, instance, labels>>

\* Slip: the Update sends the desired object and not the copy read.
WriteClientAnew ==
    LET o == SeenClient(Target) IN
    /\ writing # Resting
    /\ \/ /\ o.state = "absent" /\ obj[Target].state = "absent"
          /\ obj' = [obj EXCEPT ![Target] = NewCR(Asked(writing.ask, TargetName))]
          /\ UNCHANGED cache
          /\ Deliver(writing.uid)
       \/ /\ o.state # "absent" /\ o = obj[Target]
          /\ obj' = [obj EXCEPT ![Target] =
                       [Overwrite(o, Asked(writing.ask, TargetName))
                          EXCEPT !.finalizer = FALSE]]
          /\ UNCHANGED cache
          /\ Deliver(writing.uid)
       \/ o # obj[Target] /\ WriteFails
    /\ writing' = Resting
    /\ UNCHANGED <<noClient, instanceOK, routeOK, route, instance, labels>>

\* Create, or Update of the cached copy with the fields the route manages.  The
\* name and the owner of a client that is there already stay as they are.
WriteClient ==
    LET o == SeenClient(Target) IN
    /\ writing # Resting
    /\ \/ /\ o.state = "absent" /\ obj[Target].state = "absent"
          /\ obj' = [obj EXCEPT ![Target] = NewCR(Asked(writing.ask, TargetName))]
          /\ UNCHANGED cache
          /\ Deliver(writing.uid)
       \/ /\ o.state # "absent" /\ o = obj[Target]
          /\ obj' = [obj EXCEPT ![Target] = Overwrite(o, Asked(writing.ask, o.spec.name))]
          /\ UNCHANGED cache
          /\ Deliver(owner)
       \/ o # obj[Target] /\ WriteFails
    /\ writing' = Resting
    /\ UNCHANGED <<noClient, instanceOK, routeOK, route, instance, labels>>

WriteCallFails ==
    /\ Fault
    /\ writing # Resting
    /\ writing' = Resting
    /\ pending' = TRUE
    /\ UNCHANGED <<obj, cache, remote, secret, secretCache, policy, others, job,
                   route, instance, labels, owner, tied>>
-------------------------------------------------------------------------------
(* The other controller, users, and the rest of the cluster. *)

\* Ids mean nothing, so one order in which PocketID gives them out stands for all.
InOrder ==
    \A i \in Ids : (remote[i].state = "unused" /\ remote'[i].state # "unused")
                      => i = CHOOSE j \in Ids : remote[j].state = "unused"

\* What a step of module OIDCClient means here.
Beside == InOrder /\ Deliver(owner) /\ UNCHANGED <<route, instance, labels, writing>>

\* What module OIDCClient has, but for the flags that this module gives a meaning.
ClientStep ==
    /\ \/ \E c \in Clients : Begin(c) \/ Cluster(c)
       \/ Worker \/ CallFails
       \/ \E c \in Clients : \/ \E s \in Specs[c] : CreateCR(c, s) \/ EditSpec(c, s)
                             \/ RequestDelete(c) \/ DeleteSecret(c)
       \/ \E g \in Groups, x \in GroupIds \cup {None} : ChangeGroup(g, x)
    /\ Beside

\* Both controllers run in one process.
Restart ==
    /\ Fault
    /\ job # Idle \/ writing # Resting
    /\ job' = Idle /\ writing' = Resting
    /\ cache' = obj /\ secretCache' = secret
    /\ tied' = (owner # "none")
    /\ pending' = TRUE
    /\ UNCHANGED <<obj, secret, policy, remote, others, route, instance, labels, owner>>

\* The gateway refers to the route, which is usable if it has hostnames.
SetRoute(a) ==
    /\ Edit
    /\ route # a
    /\ route' = a
    /\ routeOK' = (a.conf # None)
    /\ pending' = TRUE
    /\ UNCHANGED <<kube, remote, gid, instanceOK, job, faults,
                   instance, labels, owner, tied, writing>>

DeleteRoute ==
    /\ Edit
    /\ route # None
    /\ route' = None
    /\ routeOK' = FALSE
    /\ owner' = IF owner = "route" THEN "gone" ELSE owner
    /\ writing' = IF writing = Resting THEN writing ELSE [writing EXCEPT !.uid = "gone"]
    /\ pending' = TRUE
    /\ UNCHANGED <<kube, remote, gid, instanceOK, job, faults, instance, labels,
                   tied>>

\* The garbage collector deletes a client whose route is gone, as a user would.
CollectClient ==
    /\ owner = "gone" /\ obj[Target].state = "live"
    /\ \/ /\ obj[Target].finalizer
          /\ obj' = [obj EXCEPT ![Target].state = "deleting"]
          /\ UNCHANGED <<secret, policy>>
       \/ ~obj[Target].finalizer /\ Drop(Target)
    /\ UNCHANGED cache
    /\ Deliver(owner)
    /\ UNCHANGED <<remote, secretCache, others, job, faults,
                   route, instance, labels, writing, routeOK>>

ChangeInstance(i, ls) ==
    /\ Edit
    /\ <<i, ls>> # <<instance, labels>>
    /\ instance' = i /\ labels' = ls
    /\ instanceOK' = Resolves(i, ls)
    /\ UNCHANGED <<kube, remote, gid, routeOK, job, faults,
                   route, owner, tied, pending, writing>>
-------------------------------------------------------------------------------
RouteNext ==
    \/ BeginRoute \/ WriteClient \/ WriteCallFails
    \/ ClientStep \/ Restart
    \/ \E a \in Asks : SetRoute(a)
    \/ DeleteRoute \/ CollectClient
    \/ \E i \in Instances \cup {Unset}, ls \in SUBSET Labels : ChangeInstance(i, ls)

RouteSpec == RouteInit /\ [][RouteNext]_allVars

\* Both queues are served, the watch of the clients delivers and the garbage
\* collector comes by.
RouteFairSpec ==
    /\ RouteSpec
    /\ WF_allVars(BeginRoute \/ WriteClient)
    /\ WF_allVars(CollectClient)
    /\ WF_allVars(Worker /\ Beside)
    /\ \A c \in Clients : /\ WF_allVars(Begin(c) /\ Beside)
                          /\ WF_allVars(CacheSync(c) /\ Beside)
===============================================================================
