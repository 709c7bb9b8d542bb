------------------------------- MODULE Cluster ------------------------------
(***************************************************************************)
(* control-plane/k8s/client.go and as much of the Kubernetes API server as *)
(* it relies on: objects are keyed by their name, creating a name that     *)
(* exists fails, deleting or scaling one that does not fails.  With Faults *)
(* any call may also be refused, or take effect and report an error (the   *)
(* answer is lost); the client never retries.                              *)
(*                                                                         *)
(* Each operator takes the Adapter VALUE its Go counterpart is passed; ok  *)
(* is what it returns.  Errors that every caller only logs are not passed  *)
(* on.  Pods, labels and specs are left out: a deployment runs one pod,    *)
(* configured for the adapter id in its ADAPTER_ID variable, while it has  *)
(* a replica.                                                              *)
(***************************************************************************)
EXTENDS Adapters

CONSTANT Faults

ASSUME FaultsAssumption == Faults \in BOOLEAN

VARIABLES
    deployments,    \* DeploymentName (its adapter name) -> Deployment or Nil
    services,       \* Service name -> adapter id its selector asks for, or Nil
    apiRules        \* APIRule name -> adapter id of its label, or Nil

clusterVars == <<deployments, services, apiRules>>

Deployment == [owner : AdapterIds, replicas : {0, 1}]

ASSUME DeploymentAssumption == Nil \notin Deployment

ClusterTypeOK ==
    /\ deployments \in [Names -> Deployment \cup {Nil}]
    /\ services \in [Names -> AdapterIds \cup {Nil}]
    /\ apiRules \in [Names -> AdapterIds \cup {Nil}]

ClusterInit ==
    /\ deployments = [n \in Names |-> Nil]
    /\ services = [n \in Names |-> Nil]
    /\ apiRules = [n \in Names |-> Nil]

(* What may become of the objects when a call creates one and returns ok.  *)
Created(objs, name, v, ok) ==
    LET taken == objs[name] # Nil
        with  == [objs EXCEPT ![name] = v]
    IN  CASE ok /\ taken -> {}
          [] ok /\ ~taken -> {with}
          [] ~ok /\ taken -> {objs}
          [] ~ok /\ ~taken -> IF Faults THEN {objs, with} ELSE {}

Removed(objs, name) ==
    {[objs EXCEPT ![name] = Nil]} \cup (IF Faults THEN {objs} ELSE {})

-----------------------------------------------------------------------------

CreateAdapterDeployment(x, ok) ==
    /\ deployments' \in
          Created(deployments, x.dep, [owner |-> x.id, replicas |-> 1], ok)
    /\ UNCHANGED <<services, apiRules>>

CreateAdapterService(x, ok) ==
    /\ services' \in Created(services, x.name, x.id, ok)
    /\ UNCHANGED <<deployments, apiRules>>

(* Up to 24 polls; the load balancer may not get an address in time.       *)
GetLoadBalancerHostname(x, ok) ==
    /\ ok => services[x.name] # Nil
    /\ UNCHANGED clusterVars

CreateAdapterAPIRule(x, ok) ==
    /\ apiRules' \in Created(apiRules, x.name, x.id, ok)
    /\ UNCHANGED <<deployments, services>>

(* Mutant: every deployment with the label app=adapter.                    *)
StopByAppLabel(x) ==
    /\ deployments' =
          [n \in Names |-> IF deployments[n] = Nil THEN Nil
                           ELSE [deployments[n] EXCEPT !.replicas = 0]]
    /\ UNCHANGED <<services, apiRules>>

(* Scales to zero: the Deployment object and its name remain.              *)
StopAdapterDeployment(x) ==
    /\ \/ deployments' =
            IF deployments[x.dep] = Nil THEN deployments
            ELSE [deployments EXCEPT ![x.dep].replicas = 0]
       \/ Faults /\ UNCHANGED deployments
    /\ UNCHANGED <<services, apiRules>>

(* Mutant: the deployment is looked for under the adapter's current name.  *)
DeleteDeploymentByName(x) ==
    /\ deployments' \in Removed(deployments, x.name)
    /\ UNCHANGED <<services, apiRules>>

(* The two halves of DeleteAdapterResources.                               *)
DeleteDeployment(x) ==
    /\ deployments' \in Removed(deployments, x.dep)
    /\ UNCHANGED <<services, apiRules>>

DeleteService(x) ==
    /\ services' \in Removed(services, x.name)
    /\ UNCHANGED <<deployments, apiRules>>

DeleteAdapterAPIRule(x) ==
    /\ IF x.type = Sftp THEN UNCHANGED apiRules
       ELSE apiRules' \in Removed(apiRules, x.name)
    /\ UNCHANGED <<deployments, services>>

(* The three parts of CleanupOrphanedResources: what is listed is deleted, *)
(* one by one, each deletion failing or not.                               *)
Swept(objs) ==
    { [n \in Names |-> IF n \in kept THEN objs[n] ELSE Nil] :
         kept \in IF Faults THEN SUBSET Names ELSE {{}} }

SweepDeployments ==
    deployments' \in Swept(deployments) /\ UNCHANGED <<services, apiRules>>

SweepServices ==
    services' \in Swept(services) /\ UNCHANGED <<deployments, apiRules>>

SweepAPIRules ==
    apiRules' \in Swept(apiRules) /\ UNCHANGED <<deployments, services>>

=============================================================================
