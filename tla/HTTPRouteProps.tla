---------------------------- MODULE HTTPRouteProps ----------------------------
(***************************************************************************)
(* What the HTTPRoute and the PocketIDOIDCClient controllers should        *)
(* guarantee together, stated over the state of module HTTPRoute.          *)
(***************************************************************************)
EXTENDS HTTPRoute

\* The route is one the operator can serve, throughout.
Served == route # None /\ route.enabled /\ route.conf # None

Reachable == Found /\ Permitted(instance, RouteNamespace, labels)

\* Nobody else makes a client of that name.
OnlyRoutes == obj[Target].state = "live" => owner # "none"

Follows(o, a) == o.state = "live" /\ o.spec = Asked(a, o.spec.name)

\* A route that is left alone has a client with just what it asks for, although
\* users edit and delete that client, a client of a former route is collected
\* under it, and the other controller's writes conflict with the route's.  The
\* permission must be there throughout: nothing wakes a route that is granted it.
Followed ==
    ([](route # None => Reachable) /\ <>[]Served)
        => <>[](\E a \in Asks : route = a /\ Follows(obj[Target], a))

\* When a route is deleted for good its client goes too, even one that a
\* reconciliation of the route makes after that, if the instance can be reached.
Withdrawn ==
    <>[](route = None /\ instanceOK) => <>[](obj[Target].state = "absent")

\* The client follows its route, as long as nobody else makes one of that name.
Settled == []OnlyRoutes => Followed /\ Withdrawn
===============================================================================
