------------------------------ MODULE References ------------------------------
(***************************************************************************)
(* Who may refer to a PocketIDInstance                                     *)
(* (src/internal/controller/reference_validation.go): the instance's own   *)
(* namespace, and those its allowedReferences admit.                       *)
(***************************************************************************)
CONSTANTS
    Namespaces,  \* the namespaces of the cluster
    Labels,      \* the labels, key and value, a namespace may carry
    Unset        \* a field that is not given

\* spec.allowedReferences.namespaces.  Of the selector only matchLabels is read.
AllowedReferences ==
    [from : {Unset, "Same", "All", "Selector"}, selector : {Unset} \cup SUBSET Labels]

PocketIDInstance ==
    [namespace : Namespaces, allowed : {Unset} \cup AllowedReferences]

\* ValidateCrossNamespaceReference, for a referrer in namespace ns with these
\* labels.  A from that is not given stands for Same.
Permitted(instance, ns, labels) ==
    \/ instance.namespace = ns
    \/ /\ instance.allowed # Unset
       /\ \/ instance.allowed.from = "All"
          \/ /\ instance.allowed.from = "Selector"
             /\ instance.allowed.selector # Unset
             /\ instance.allowed.selector \subseteq labels
===============================================================================
