# A TLA+ model of pocketid-operator

pocketid-operator is a Kubernetes operator. It reconciles custom resources into
a PocketID server: instances of the server itself, OIDC clients, users and user
groups. This directory models its controllers in TLA+, checks the models with
TLC on small instances, and proves some of the results for every instance with
TLAPS. Paths below are relative to the repository; `O` stands for
`internal/controller/pocketidoidcclient_controller.go`.

## 1. The system

| Component | State | Operations | Hard part |
|---|---|---|---|
| OIDC client controller (`O`, `securitypolicy.go`) | `PocketIDOIDCClient` (finalizer, spec, status), a client in PocketID, a credentials Secret, an Envoy `SecurityPolicy` | reconcile, deletion, adoption by name, key generation | six writes to three places, none atomic; stale caches; retries |
| User group controller | `PocketIDUserGroup`, a group in PocketID | reconcile, deletion | its `status.groupId` is read by the two others |
| User controller, `onboarding.go` | `PocketIDUser`, a user in PocketID, memberships, a Secret with a one-time link | reconcile, deletion, memberships, link | memberships from an old answer; the link before the record |
| Instance controller, `instance_workload.go` | `PocketIDInstance`, two Secrets, ConfigMap, Service, StatefulSet, the first admin | reconcile, initialisation, deletion | comes back only when an event wakes it; initialises while other controllers create users; its database outlives it |
| HTTPRoute controller | annotations of an HTTPRoute, the `PocketIDOIDCClient` made from them | create or overwrite | writes the spec of a resource whose finalizer and status another controller writes |
| `reference_validation.go`, `helpers.go` | none | resolve the instance, the permission to use it, its API key | every reconciliation starts with it, deletions too |
| `internal/pocketid` | none | list, get, create, update, delete | one page per listing; an answer may be lost |
| `status.go`, API types | conditions | set, observe a generation | which copy of the object an error path writes |
| `cmd/main.go`, manifests, generated code | - | - | not modelled |

How they interact. All controllers share one API server, read it through an
informer cache that lags, and write to it under optimistic concurrency
(resourceVersion). Each runs one worker (`MaxConcurrentReconciles` is left at
1), so two reconciliations of one kind never overlap, but those of different
kinds do, and users, the garbage collector and PocketID act at any time.
Users and clients read `status.groupId` of groups; all read the instance; the
HTTPRoute controller writes the spec of clients; the instance controller and
PocketID itself share the database. A request whose reconciliation fails is
retried. One that succeeds is requeued after five minutes for clients, users
and groups; an instance that is ready and a route wait for their next event.

What must be right, by component:

- every remote object belongs to one resource: none is doubled, taken over by
  another resource, or deleted while a live resource records it;
- nothing is made in PocketID for a resource without finalizer, and deletion
  removes what was made;
- a client restricted to groups is never open to everyone;
- the Secret and the policy name the recorded client, the key is the one in force;
- a resource left alone becomes what its latest spec says, a deletion completes;
- nothing is deployed for an instance that is gone, a generated key is kept, one
  administrator is made, and `Initialized` speaks of the database there is.

The hazards this code is exposed to, each at its line, are the `hazards` of
`PROJECT.json`.

## 2. Modules

| Module | What it holds |
|---|---|
| `Lifecycle` | the abstract specification: what any of the three controllers promises about a resource and its remote object, with no caches, calls or retries |
| `OIDCClient`, `OIDCClientProps`, `MCOIDCClient` | the OIDC client controller, its properties, its instances for TLC |
| `OIDCClientSafety`, `OIDCClientOwnership`, `OIDCClientRecords` | theorems about it: types, the finalizer; who owns which client of PocketID; that client, status, Secret and policy agree, one client of a name |
| `UserGroup`, `UserGroupProps`, `MCUserGroup` | the user group controller |
| `UserGroupSafety` | theorems about it: types, what the status claims; who owns which group; one group of a name, and its id stays |
| `User`, `UserProps`, `MCUser` | the user controller with onboarding |
| `UserSafety`, `UserOwnership` | theorems about it: types, the finalizer, memberships; who owns which user, one user of a name, its link |
| `Instance`, `InstanceProps`, `MCInstance` | the instance controller, its objects, the server's pod and database |
| `InstanceSafety` | theorems about it: types, keys, the administrator; the finalizer, `Initialized` |
| `References` | who may refer to an instance |
| `HTTPRoute`, `HTTPRouteProps`, `MCHTTPRoute` | the HTTPRoute controller composed with all of `OIDCClient` |
| `HTTPRouteSafety` | theorems about the composition: types, the finalizer |

The modules of clients, groups and users have the same shape. `obj` is what the API server
stores, `cache` what the informer shows, `remote` what PocketID holds, `job`
what the worker is doing: `job.base` is the copy the reconciliation started
from, `job.mem` the object in memory whose status the code fills in on the way
(an error path writes exactly that object), `job.pc` the next call. One action
stands for one remote call or one write, with all the computation up to the
next one, because that is where others interleave:

| Action | Code (OIDC client controller) |
|---|---|
| `Begin` | the cached read, the three instance checks, the choice between deletion, finalizer and sync |
| `AddFinalizer` | `O:70-75`; goes on in the same reconciliation with the answered object |
| `DeleteRemote`, `RemoveFinalizer` | `handleDeletion` |
| `ResolveGroups` | `resolveAllowedUserGroups`, all error reasons alike |
| `Resolve`, `Create`, `Update` | `resolveOrCreateClient` |
| `EnsureSecret`, `Generate`, `StoreSecret` | `ensureCredentialsSecret` |
| `EnsurePolicy` | `ensureSecurityPolicy` |
| `Finish`, `WriteErrorStatus` | the read and write at the end; `updateErrorStatus` |
| `CallFails`, `Crash` | a call that fails without effect; a restart with fresh caches |
| `CreateCR` ... `CollectPolicy` | users, other controllers, informers, garbage collector |

A lost answer (the call took effect, the caller sees an error) is a disjunct of
`DeleteRemote`, `Create`, `Update`. The operators whose comment starts with
"Slip" are the code with one plausible error each. No run uses them; each
shows that a property of a run would notice that error.

`Instance` differs where the code does. `inst` and `seen` are the stored instance
and the informer's copy; `child[k]` and `cached[k]` the same for the object of
kind `k`; `orphan` holds the kinds that wait for the garbage collector; `pod` is
the running server with the template and the API key it started with; `db` is
the volume, which outlives the instance; `queued` is the work queue.

| Action | Code (`pocketidinstance_controller.go`, `instance_workload.go`) |
|---|---|
| `Begin`, `AddFinalizer`, `RemoveFinalizer` | the read, the finalizer (which ends the reconciliation), the deletion |
| `EnsureSecret(k)` | `ensureStaticAPIKey`, `ensureEncryptionSecret`: made when not in the cache, never changed |
| `EnsureObject(k)`, `EnsureStatefulSet` | create, or an `Update` that can conflict (ConfigMap, Service), or a patch without a version (StatefulSet) |
| `Initialize`, `CreateAdmin` | `initializeInstance`: the listing, then the creation |
| `UpdateStatus`, `Degrade` | the second read with the status; the error path, which writes the first copy |
| `StartPod`, `PodBecomesReady`, `RollOut`, `EvictPod` | kubelet and StatefulSet controller |
| `AddUser`, `RemoveUser` | the user controller, or people in PocketID |

`HTTPRoute` extends `OIDCClient`: every action of that module is an action of the
composition (`ClientStep`), and writing the client wakes both controllers. New
are the route, the instance with its permissions, whose the client is (`owner`),
and the two halves of a reconciliation of the route, `BeginRoute` (read and
decide) and `WriteClient` (create, or update of the cached copy). What
`OIDCClient` leaves free, `instanceOK` and `routeOK`, is here computed: from
the instance and the labels of the namespace by `Permitted` of `References`, and
from the route. One process runs both controllers, so `Restart` ends both.

Abstractions, all of data:

- equality of contents stands for equality of resourceVersions;
- a lagging cache jumps to the latest version (skipping versions is what
  informers are allowed to do; seeing an older one twice is not);
- `ready`, `synced` and the condition move together and are one field,
  `observed` says that the condition carries the present generation;
- the three checks of the instance are one Boolean, `instanceOK`;
- the fields compared as a whole are one value (`conf`, `profile`, `label`);
- `spec.clientId` is unset, a resource keeps the name of its Secret;
- keys are model values that can come back; ids are never reused;
- reasons, messages, times and the onboarding e-mail flags are left out;
- a ConfigMap, a pod template and a Service are one value each; an instance has
  one replica; the key Secrets users bring themselves are always there;
- one route, one client name, and at most one instance at a time, so the error
  for several instances in a namespace is not modelled;
- in `HTTPRoute` PocketID gives out ids in one order (`InOrder`): ids are only
  ever compared, so one order stands for all.

What is assumed of PocketID, which is not in the repository: deleting an
unknown id succeeds, as in the mock of `test/integration` (the mock of
`pocketidoidcclient_controller_test.go:129` answers 404, which the code takes for an
error like any status from 400 up, `internal/pocketid/client.go:68`; with such a
server a deletion whose first answer was lost, or that crashed before the finalizer
was removed, would never complete, so the three `DeletionCompletes` rest on
this); unknown group ids in a membership are ignored; deleting a group ends its memberships; a second user of a name is refused; an
`update` is atomic; nobody else edits what the operator made, except that
users may come and go.

## 3. The runs

`CHECK_DEADLOCK FALSE` everywhere: when all resources are gone and the bounds
are spent the system rests.

| Run | Instance | Shows |
|---|---|---|
| `oidc_single` | one resource, two specs (with and without gateway, always restricted), lagging resource cache, one fault, up to `MaxEdits` outside steps | type invariant, five safety properties (among them `NamesRecorded`: Secret and policy name the recorded client), an action property, and that it implements `Lifecycle` |
| `oidc_pair` | two resources with disjoint names, a rename, pages of one, both caches lag | no takeover: `RecordedLive`; `CredentialsKept`: credentials in use are invalidated only by a rotation decided on a stale copy of the Secret |
| `oidc_live` | one resource, fairness, one fault | `Converges`, `CredentialsSettle`, `DeletionCompletes` |
| `group` | two groups, one adopts a hand-made one, fairness, one fault | the same questions for groups, and `ReadyIsEarned`: what the status claims to be synced is synced |
| `user` | one user, a group that comes and goes, fairness, one fault | memberships, link, deletion, refinement |
| `instance` | one instance, two specs that differ in administrator, configuration, image and in who brings the API key; instance and API key lag; API key Secret and StatefulSet may survive the instance; three keys, two users; fairness, one fault, three edits | objects only for an instance that is held (`InstanceHeld`), `InitializedEarned`, `OneAdmin`, `KeysKept`; `RollsOut`, `Settles`, `NothingLeft` |
| `route` | one route that is served, without hostnames, or without instance annotation; a client edited by hand; permission by label, granted and withdrawn; lagging client cache; fairness, one fault, two edits | `FinalizerHeld` beside a second writer of the same resource; `Settled`: the client follows its route and goes with it |
| `oidc_leak` | one resource, one crash | violated: `CleanedUp` |
| `oidc_rotated` | one resource, lagging Secret cache | violated: `CredentialsCurrent` |
| `oidc_gateway` | one resource with a gateway, one fault, no lag | violated: `GatewaySettles` |
| `user_edit` | one user, an edited profile | violated: `ProfileSettles` |
| `user_link` | one user, deleted and made again | violated: `LinkKept` |

Why the bounds are enough to be interesting. `MaxEdits = 3` or more allows
create, delete, create again, the shortest way to two incarnations of a
resource, with the worker, the caches and the garbage collector interleaved
freely (their steps are not counted). One fault can hit any call, and a second
source of retries, the conflict from a stale cache, is unbounded. Ids exceed
the names by one or more, so a second object for one name is possible whenever
the code would create it. The properties about one resource need one resource;
those about two (`RecordedLive` of clients, listings) have `oidc_pair` and
`group`. `Create` stops when the ids are used up; no run with a liveness
property can get there, since each incarnation uses one id and the edits and faults are
bounded. In `instance`, three edits allow create, delete, create again on the old
volume, and two changes of mind while the pod of the first spec still runs;
evictions, deleted Secrets and users who come and go count as edits. In `route`
two edits come on top of a state in which the route is there: an edit of the
route and one of the client, or a deletion and a remake. The route there asks
for no gateway; the gateway's own steps are `oidc_single`'s subject.

The five violations are disagreements between the documentation and the code;
`findings` in `PROJECT.json` quotes the lines. They are:

1. the finalizer of a resource whose client was created but not recorded is
   removed without any deletion in PocketID (`O:120`);
2. a lagging Secret cache makes the code rotate the key and then fail to store
   it; the Secret keeps the old key and is never repaired (`O:286-302`).
   `CredentialsKept` of `oidc_pair`, proved as `CredentialsAreKept`, says that a copy
   behind the stored Secret is the only way to that; in `oidc_live`, whose Secret
   cache is current, the key settles;
3. the policy is made only with `status.clientId`, which in memory is set by the
   branch that creates the client (`O:174`), not by the one that finds it by name
   (`O:149`), and is stored after the policy. A reconciliation that ends between
   the creation and the record (in the trace: the read of the Secret fails) leaves
   a client that every later one finds by name, to fail at `securitypolicy.go:44`
   for ever. If only the final status write is lost, the policy is already there
   and the same line keeps the resource from becoming Ready; `:47` asks the same of
   `status.credentialsSecretName`, which is only set by the reconciliation that
   stores the Secret. This is why `Converges` and `CredentialsSettle` are stated
   for resources without a gateway;
4. a user with a recorded id is never updated (`pocketiduser_controller.go:148`);
5. a one-time link written into a predecessor's Secret disappears with it
   (`onboarding.go:90`).

Preconditions of the properties, each because the code fails without it:
`RecordedLive` assumes that two resources never share a `spec.name`;
`OneClientPerName`, `OneUserPerName`, `OneGroupPerName` that a listing shows everything (one page)
and fixed names; `NamesRecorded` fixed names; the
liveness properties that the instance is reachable and, for clients, that the
groups resolve. `Settles` of an instance with an administrator assumes that the
key in force is the one the operator reads: a pod does not restart when its
Secret is replaced. `Settled` of a route assumes that nobody else makes a client
of that name (`OnlyRoutes`; a client that is not the route's survives it), and
that the permission lasts: no watch wakes a route that is granted one.

### Fairness

`FairSpec` asks for weak fairness of the worker, of `Begin`, of the informers
and of the garbage collector. The code justifies it: every reconciliation ends
in an error, which controller-runtime retries, or in `RequeueAfter` (five
minutes, or 30 seconds), and a watch triggers one after every change. With two
resources the queue alternates, which is strong fairness of `Begin(g)` in
`UserGroup`. Instances and routes are different: no timer
brings them back once they succeeded, so `FairSpec` of `Instance` asks for weak
fairness of `Begin`, which is enabled only while the instance is queued, of the
worker, the informers, the garbage collector and the kubelet (`StartPod`,
`PodBecomesReady`, `RollOut`), and `queued` is set only by a delivered event, an
error or `RequeueAfter`, as in the code. `RouteFairSpec` does the same for the
route's queue, the client's queue and its informer. That `RollsOut`, `Settles`
and `Settled` hold says that no wake-up is missed. Nothing is assumed of users, of other controllers, or of faults,
which the bound ends: with unboundedly many, nothing converges.

## 4. The proofs

Checked by TLAPS for every value of the constants that meets their assumptions
(sets of any size, any specs, any page size, any bounds, any set of lagging
caches). Every invariant and every action property that a passing run checks is
stated by a theorem, and so are the three refinements of `Lifecycle`.

What a theorem needs beyond the assumptions of the constants is a premise in
its statement. There are four, none of which the code guarantees:

| Premise | Says | Without it |
|---|---|---|
| `NamesDisjoint` | no two resources can be given one name | one adopts the other's object and deletes it with itself |
| `NamesFixed` | no resource is given another name | an update can rename onto a taken name; a copy older than the record makes an object of the new name |
| `ExistingDistinct` | PocketID starts with one object of a name | there are two from the start |
| `OnePage` | one page of the listing holds everything | an object beyond it is not found and made again |

What is proved, and from what (`UniqueNames` is `NamesFixed`, `ExistingDistinct`
and `OnePage`):

| Theorem | Property | Premises |
|---|---|---|
| `TypeCorrect`, `FinalizerIsHeld` | `TypeOK`, `FinalizerHeld` of clients | - |
| `FinishEarned`, `RestrictionHolds` | `FinishIsEarned`, `NeverUnrestricted` | - |
| `RecordedIsLive`, `LifecycleImplemented` | `RecordedLive`, `Implements` of clients | `NamesDisjoint` |
| `CredentialsAreKept` | `CredentialsKept` | `NamesDisjoint` |
| `ClientPerNameIsOne` | `OneClientPerName` | `UniqueNames` |
| `ClientIdIsStable` | `IdStable` of clients | `UniqueNames`, `NamesDisjoint` |
| `NamesAgree` | `NamesRecorded` | `NamesDisjoint`, `ExistingDistinct`, `OnePage` |
| `GroupTypeCorrect` | `TypeOK` of groups | - |
| `GroupReadyIsEarned` | `ReadyIsEarned` | `NamesDisjoint` |
| `GroupRecordedIsLive`, `GroupLifecycleImplemented` | `RecordedLive`, `Implements` of groups | `NamesDisjoint` |
| `GroupPerNameIsOne`, `GroupIdIsStable` | `OneGroupPerName`; `IdStable` of groups | `UniqueNames`; for the second also `NamesDisjoint` |
| `UserTypeCorrect`, `MembershipsAreAsRead` | `TypeOK` of users, `MembershipsAsRead` | - |
| `UserRecordedIsLive`, `UserLifecycleImplemented` | the same as for groups | `NamesDisjoint` |
| `UserPerNameIsOne` | `OneUserPerName` | `UniqueNames` |
| `UserIdIsStable`, `LinkIsOfRecorded` | ids are not replaced; `LinkOfRecorded` | `UniqueNames`, `NamesDisjoint` |
| `InstanceTypeCorrect`, `KeysAreKept`, `OneAdminOnly`, `InstanceIsHeld`, `InitializedIsEarned` | `TypeOK`, `KeysKept`, `OneAdmin`, `InstanceHeld`, `InitializedEarned` | - |
| `RouteTypeCorrect`, `RouteFinalizerIsHeld` | `RouteTypeOK`, `FinalizerHeld` beside the route controller | - |

(A premise that the property itself states, like the `NamesDisjoint =>` of
`RecordedLive`, is in the table too.) Where it is known to be needed: in
`LinkOfRecorded`, TLC finds on one user with two names that a reconciliation
from a copy older than the recorded id makes a user of the new name and stores
that user's link before the status names the user.

Hardly any of these properties is inductive. The strengthenings, by module:

**Clients.** `TypeOK` is inductive with `JobOK`, that a step past the resolution
knows its client. `FinalizerHeld` is not: that the stored resource still holds
the finalizer follows neither from the worker's copy nor from the cache.
`FinalizerInv` (theorem `FinalizerProtocol`) adds what a copy, however old, says
about the present: a copy that is live with the finalizer means that the
resource still has it (only this worker removes it, and only after a copy that
shows a deletion); a copy that shows a deletion means that the present resource
is not live with the finalizer (only this worker adds it, and only when it sees
a live one). The second half is what a re-created resource needs.

`RecordedLive` and the refinement rest on `AllInv`, which adds to the two above:
every id that a resource, its cached copy or the job knows belongs to a client
named as that resource was once named (`NamesInv`: ids come from a lookup by
name or from a creation, and names are only changed by the owner); nothing is
recorded without finalizer (`RecordsInv`); a copy of a deletion that is already
over names a client that is gone, so repeating that deletion cannot hurt the
resource made since under the same name (`DeletionsInv`); the client the worker
acts on, and the one an error status would record for the first time, is live
(`ActingInv`). The step lemmas speak of how ids move (`RemoteMove`, `RecordMove`,
`IdsMove`), so that each action is looked at once. The refinement then maps
every action: `AddFinalizer` to `Manage`, `Create` to `Provision`, and so on,
and all else to a stutter.

`OIDCClientRecords` is about one reconciliation and what it leaves. `WorkInv` says
what the worker can rely on at each of its calls although others act in between:
a spec that names groups was resolved to some (`GroupsInv`), the client is live
and, once written, stays as written (`EarnedInv`), the policy names it or was
collected (`PolicyInv`), the key about to be stored is the last one made
(`KeyInv`). It needs no premise: shared or changing names do not disturb a
single reconciliation, because one worker serves all. `CredentialsInv` ties every
stored key to a client of the resource's names, so no other resource rotates it,
and says that the copy on which the worker decided to rotate holds no key: if that
copy is the stored Secret, the rotation replaces nothing, and if it is not, it is
the exception that `CredentialsKept` names. `UniqueInv` adds `LookupInv`: while the worker is about to
create, no client has the name, for nobody has made one since it listed them.
`OwnedInv` says that Secret and policy, while owned, name a live client of the
resource's own names; with uniqueness that is the recorded one.

**Groups.** `ReadyIsEarned` rests on `ClaimInv`: when a resource claims to be
synced with its present spec, the cache shows that spec, and so does the copy of
whatever reconciliation is under way; hence no older copy is left that could
rewrite the group. The claim is made by a read through the cache just before the
write, which stands only if that copy is the stored one. `FinishUncached`, the
plausible improvement of reading from the API server, makes the claim before the
cache has caught up, and the next reconciliation rewrites the group from the old
spec under it; TLC finds that in `group`. Ownership and uniqueness go along the argument for clients. They are
proofs of their own, because the group controller looks up a recorded group by
id and resolves the instance before it looks at a deletion. A recorded id is
stable because whatever would replace it is, by `NamesInv`, live and of the same
name, hence the same group.

**Users.** The same again for the finalizer, ownership and uniqueness.
`MembershipsAsRead` needs `GroupsInv`, that users are only in groups there are,
and `MembersInv`, what the answer the worker holds (`job.has`, `job.want`) says
of the memberships at each call: groups may be deleted between the answer and
the call that sets the memberships, and since ids are not reused, both sides
lose the same groups. `LinkOfRecorded` needs `LinkInv`: what a copy says of the
link is not ahead of the resource, the worker's `job.link` is only set on the
way to `Finish`, and the link stored on that way is of the user that `Finish`
will record.

**Instances.** `TypeInv` adds to the types what an object of each kind can hold,
which is what makes a generated key a key, and that a key is in the hands of a
job only when it is about to make the administrator. `AdminInv` adds that the
operator's administrators are among the users, and that while the worker is
about to make one there is none of its own: users may come between the listing
and the creation, administrators may not. `CopyInv` says, as for clients, what
an old copy of the instance tells about the present one; `WorkInv` what a job's
copy does; `UsedInv` that every copy that says `Initialized`, and every job about
to, is of an instance whose database was used, or of one that is gone. The step
lemmas (`InstMoves`, `SeenMoves`, `UsedMoves`, `JobMoves`) say how each variable
may move, so that the invariants are taken through each kind of move, not
through each action.

**Routes.** Every step of the composition either is a step of `OIDCClient`, to
which its lemmas apply, or leaves the client's job and finalizer alone. What is
to be shown is that a write of the route controller, which starts from a copy
of the client and can conflict, is one of the moves that `FinalizerInv` survives:
it creates a resource without finalizer, or gives the present one another spec.

Only model-checked: liveness under fairness, which is beyond the prover
(`Converges`, `CredentialsSettle`, `DeletionCompletes`, `MembershipsSettle`,
`OnboardingSettles`, `RollsOut`, `Settles`, `NothingLeft`, `Settled`), and the five
violations. `RecordedLive` and `IdStable` of users are proved and not run; their
definitions are beside their theorems.

## 5. Not modelled, and what is left of the plan

Left of the plan:

1. a composition of `UserGroup` and `User` in which `gid` and `groupState` are
   the group controller's own (now they are free to change, which is weaker);
2. the finalizer of the instance and the client of a deleted route: what a
   theorem could say of `NothingLeft` and `Settled` short of liveness;
3. several instances, and several routes that ask for one client: each would
   multiply the states of a run beyond what TLC finishes.

Left out for good: generated code and manifests, `cmd/main.go` (flags and
wiring), HTTP and JSON details, the contents of the StatefulSet. Behaviours of
the code that no property states, because they are what the code does and no
document says otherwise, are in `hazards` with a note, for example that a new
ConfigMap does not restart the pod, or that an API key Secret that is collected
before the resources that need it leaves them unable to reach PocketID.
