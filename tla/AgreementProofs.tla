-------------------------- MODULE AgreementProofs ---------------------------
(***************************************************************************)
(* What store and cluster have to do with each other when requests come    *)
(* one at a time: a deployment has its adapter (OwnedInv), names are given *)
(* once (NamesInv), a running adapter has what was made for it (BackedInv) *)
(* and a stopped one nothing that is in the way of its launch, except what *)
(* a stop left of it (OrderInv).                                           *)
(***************************************************************************)
EXTENDS SerialProofs

-----------------------------------------------------------------------------
(* Every deployment has its adapter in the store.                          *)

Owned(n) ==
    \E sid \in ScenarioIds : \E i \in Positions(sid) :
        AdapterAt(sid, i).id = deployments[n].owner /\ AdapterAt(sid, i).dep = n

(* What a deletion is through with, as far as the deployment goes.         *)
TornDown(p, i) ==
    LET l == local[p]
    IN  \/ l.op = "deleteScenario" /\ i < l.idx
        \/ /\ l.op \in {"deleteScenario", "deleteAdapter"} /\ i = l.idx
           /\ l.pc \in {"deleteService", "reread", "deleteRule", "remove"}

(* An adapter must be without its deployment by the time it goes.          *)
OwnedInv ==
    /\ \A n \in Names : deployments[n] # Nil => Owned(n)
    /\ \A p \in Reqs, sid \in ScenarioIds : local[p].sid = sid =>
          \A i \in Positions(sid) :
             TornDown(p, i) => deployments[AdapterAt(sid, i).dep] = Nil

(* For a cluster that answers: what a request does to the deployments.     *)
Deploys(p) ==
    /\ UNCHANGED storeVars /\ local[p].op = "launch"
    /\ local[p].sid \in ScenarioIds /\ local[p].idx \in Positions(local[p].sid)
    /\ deployments' = [deployments EXCEPT ![Slot(p).dep] = [owner |-> Slot(p).id, replicas |-> 1]]

Scales(p) ==
    /\ UNCHANGED storeVars /\ local[p].op \in {"stop", "stopAdapter"}
    /\ deployments' = IF deployments[Slot(p).dep] = Nil THEN deployments
                      ELSE [deployments EXCEPT ![Slot(p).dep].replicas = 0]

TearsDown(p) ==
    /\ UNCHANGED storeVars /\ Goes(p, "deleteService") /\ At(p, "deleteDeployment")
    /\ deployments' = [deployments EXCEPT ![Slot(p).dep] = Nil]

LEMMA DeploymentMoves ==
    ASSUME SystemInv, SerialInv, ~Faults, NEW p \in Reqs, Continue(p),
           local[p].op # "cleanup"
    PROVE  UNCHANGED deployments \/ Deploys(p) \/ Scales(p) \/ TearsDown(p)
<1>1. local[p].op \in OpsAt(local[p].pc) /\ local[p].op # "idle"
  BY ContinueCases, AtWork DEF Sound
<1>2. CASE CreateDeployment(p)
  <2>1. PICK ok \in BOOLEAN : CreateAdapterDeployment(Slot(p), ok)
    BY <1>2, LaunchEffects
  <2>2. UNCHANGED storeVars /\ At(p, "createDeployment")
    BY <1>2, LaunchEffects DEF CreateDeployment
  <2>3. local[p].op = "launch" /\ local[p].sid \in ScenarioIds
        /\ local[p].idx \in Positions(local[p].sid)
    BY <1>1, <2>2, ContinueCases, AtWork DEF At, OpsAt, LoopOps, OnSlot
  <2>4. \/ UNCHANGED deployments
        \/ deployments' = [deployments EXCEPT ![Slot(p).dep] = [owner |-> Slot(p).id, replicas |-> 1]]
    BY <2>1 DEF CreateAdapterDeployment, Created
  <2>5. QED
    BY <2>2, <2>3, <2>4 DEF Deploys
<1>3. CASE Scale(p)
  <2>1. StopAdapterDeployment(Slot(p)) /\ UNCHANGED storeVars
    BY <1>3, TeardownEffects
  <2>2. local[p].op \in {"stop", "stopAdapter"}
    BY <1>1, <1>3 DEF Scale, At, OpsAt
  <2>3. QED
    BY <2>1, <2>2 DEF StopAdapterDeployment, Scales
<1>4. CASE RemoveDeployment(p)
  <2>1. DeleteDeployment(Slot(p)) /\ UNCHANGED storeVars /\ Goes(p, "deleteService")
        /\ At(p, "deleteDeployment")
    BY <1>4, TeardownEffects DEF RemoveDeployment
  <2>2. deployments' = [deployments EXCEPT ![Slot(p).dep] = Nil]
    BY <2>1 DEF DeleteDeployment, Removed
  <2>3. QED
    BY <2>1, <2>2 DEF TearsDown
<1>5. CASE ~ CreateDeployment(p) /\ ~ Scale(p) /\ ~ RemoveDeployment(p)
  <2>1. CASE CreateService(p) \/ Expose(p)
    BY <2>1, LaunchEffects DEF CreateAdapterService, GetLoadBalancerHostname,
                               CreateAdapterAPIRule, clusterVars
  <2>2. CASE RemoveService(p) \/ RemoveRule(p)
    BY <2>2, TeardownEffects DEF DeleteService, DeleteAdapterAPIRule
  <2>3. CASE Writes(p) \/ Pick(p) \/ Check(p) \/ Reread(p) \/ ReadKey(p)
    BY <2>3 DEF Writes, MarkRunning, SetUrl, WriteStatus, WriteUrl, MarkStopped,
                RemoveAdapter, Write, Finish, Pick, Check, Reread, ReadKey, StoreOnly,
                LocalOnly, clusterVars
  <2>4. CASE SweepTheRest(p)
    BY <2>4 DEF SweepTheRest, SweepServices, SweepAPIRules
  <2>5. QED
    BY <1>5, <2>1, <2>2, <2>3, <2>4 DEF Continue, Writes
<1>6. QED
  BY <1>2, <1>3, <1>4, <1>5

(* The steps of deletions.                                                 *)
LEMMA DeletionMoves ==
    ASSUME SystemInv, SerialInv, ~LocalMode, NEW p \in Reqs, Continue(p),
           local[p].op \in {"deleteScenario", "deleteAdapter"}
    PROVE  \/ local'[p] = Ready
           \/ /\ UNCHANGED storeVars /\ SameRequest(p)
              /\ At(p, "deleteDeployment") \/
                 \A i \in Positions(local[p].sid) : TornDown(p, i)' => TornDown(p, i)
              /\ At(p, "deleteDeployment") =>
                    local'[p].pc = "deleteService" /\ local'[p].idx = local[p].idx
<1> DEFINE l == local[p]
<1>1. /\ l.op \in OpsAt(l.pc) /\ l.sid \in ScenarioIds /\ l.idx \in Nat
      /\ \A i \in Positions(l.sid) : i \in Nat
  BY ContinueCases, AtWork, SlotFacts
     DEF Sound, LoopOps, AdapterOps, Positions, SystemInv, HeapInv
<1>2. \/ Pick(p) \/ Check(p) \/ RemoveDeployment(p) \/ RemoveService(p) \/ Reread(p)
      \/ RemoveRule(p) \/ RemoveAdapter(p) \/ Finish(p)
  BY <1>1 DEF Continue, CreateDeployment, CreateService, Expose, MarkRunning, SetUrl,
              WriteStatus, WriteUrl, MarkStopped, Scale, ReadKey, Write, SweepTheRest,
              At, OpsAt, AdapterOps
<1>3. CASE Pick(p)
  <2>1. /\ UNCHANGED storeVars /\ l.op = "deleteScenario" /\ At(p, "pick")
        /\ Goes(p, "finish") \/ Takes(p, "deleteDeployment")
    BY <1>1, <1>3, PickEffect DEF Wanted, FirstStep, Pick, LoopOps
  <2>2. SameRequest(p) /\ local'[p].idx = l.idx /\ local'[p].pc \in {"finish", "deleteDeployment"}
    BY <2>1, MovesTo
  <2>3. QED
    BY <2>1, <2>2 DEF TornDown, SameRequest, At
<1>4. CASE Check(p)
  <2>1. /\ UNCHANGED storeVars /\ l.op = "deleteAdapter" /\ At(p, "check")
        /\ Takes(p, "deleteDeployment")
    BY <1>1, <1>4, CheckEffect DEF Check, At, OpsAt, AdapterOps
  <2>2. SameRequest(p) /\ local'[p].idx = l.idx /\ local'[p].pc = "deleteDeployment"
    BY <2>1, MovesTo
  <2>3. QED
    BY <2>1, <2>2 DEF TornDown, SameRequest, At
<1>5. CASE RemoveDeployment(p)
  <2>1. UNCHANGED storeVars /\ At(p, "deleteDeployment") /\ Goes(p, "deleteService")
    BY <1>5, TeardownEffects DEF RemoveDeployment
  <2>2. QED
    BY <2>1, MovesTo
<1>6. CASE RemoveService(p) \/ Reread(p)
  <2>1. /\ UNCHANGED storeVars /\ l.pc \in {"deleteService", "reread"}
        /\ \E pc \in {"reread", "deleteRule"} : Goes(p, pc) \/ Takes(p, pc)
    BY <1>6, TeardownEffects, OtherEffects DEF RemoveService, Reread, At
  <2>2. SameRequest(p) /\ local'[p].idx = l.idx /\ local'[p].pc \in {"reread", "deleteRule"}
    BY <2>1, MovesTo
  <2>3. QED
    BY <2>1, <2>2 DEF TornDown, SameRequest, At
<1>7. CASE RemoveRule(p)
  <2>1. /\ UNCHANGED storeVars /\ l.pc = "deleteRule"
        /\ \/ l.op = "deleteScenario" /\ Advances(p)
           \/ l.op = "deleteAdapter" /\ Goes(p, "remove")
    BY <1>7, TeardownEffects DEF RemoveRule, At
  <2>2. SameRequest(p)
        /\ \/ l.op = "deleteScenario" /\ local'[p].idx = l.idx + 1 /\ local'[p].pc = "pick"
           \/ l.op = "deleteAdapter" /\ local'[p].idx = l.idx /\ local'[p].pc = "remove"
    BY <2>1, MovesTo
  <2>3. QED
    BY <1>1, <2>1, <2>2 DEF TornDown, SameRequest, At
<1>8. CASE RemoveAdapter(p) \/ Finish(p)
  BY <1>8, OtherEffects
<1>9. QED
  BY <1>2, <1>3, <1>4, <1>5, <1>6, <1>7, <1>8

(* Deployments keep their owners while these keep id and deployment.       *)
LEMMA OwnersKept ==
    ASSUME KeepsAdapters, NEW n \in Names, Owned(n), deployments'[n].owner = deployments[n].owner
    PROVE  Owned(n)'
<1>1. PICK sid \in ScenarioIds : \E i \in Positions(sid) :
         AdapterAt(sid, i).id = deployments[n].owner /\ AdapterAt(sid, i).dep = n
  BY DEF Owned
<1>2. PICK i \in Positions(sid) :
         AdapterAt(sid, i).id = deployments[n].owner /\ AdapterAt(sid, i).dep = n
  BY <1>1
<1>3. i \in Positions(sid)' /\ Agree(AdapterAt(sid, i)', AdapterAt(sid, i))
  BY SamePositions DEF KeepsAdapters
<1>4. QED
  BY <1>2, <1>3 DEF Owned, Agree

LEMMA ContinueOwned ==
    ASSUME SystemInv, SerialInv, ~LocalMode, ~Faults, OwnedInv, NEW p \in Reqs, Continue(p)
    PROVE  OwnedInv'
<1> DEFINE l == local[p]
           m == local'[p]
<1>1. /\ StoreInv /\ deployments \in [Names -> Deployment \cup {Nil}]
      /\ ~ At(p, "ready") /\ l.op \in OpsAt(l.pc)
      /\ \A q \in Reqs \ {p} : local'[q].op = Nil
  BY ContinueCases, AtWork DEF SystemInv, HeapInv, ClusterTypeOK, Sound
<1>2. UNCHANGED storeVars => KeepsAdapters
  BY <1>1, KeptBy, UnchangedAdapters
<1>3. ASSUME NEW n \in Names, deployments'[n] # Nil
      PROVE  Owned(n)'
  <2>1. CASE UNCHANGED deployments
    <3>1. Owned(n)
      BY <1>3, <2>1 DEF OwnedInv
    <3>2. CASE KeepsAdapters
      BY <2>1, <3>1, <3>2, OwnersKept
    <3>3. PICK sid \in ScenarioIds : \E i \in Positions(sid) :
             AdapterAt(sid, i).id = deployments[n].owner /\ AdapterAt(sid, i).dep = n
      BY <3>1 DEF Owned
    <3>4. PICK i \in Positions(sid) :
             AdapterAt(sid, i).id = deployments[n].owner /\ AdapterAt(sid, i).dep = n
      BY <3>3
    <3>5. CASE RemoveAdapter(p) /\ Vacated(l.sid, l.idx)
      <4>1. l.op = "deleteAdapter" /\ l.pc = "remove" /\ l.sid \in ScenarioIds
            /\ l.idx \in Positions(l.sid) /\ l.idx \in Nat
        BY <1>1, <3>5, AtWork DEF RemoveAdapter, At, OpsAt, AdapterOps, OnSlot
      <4>2. TornDown(p, l.idx) /\ deployments[AdapterAt(l.sid, l.idx).dep] = Nil
        <5>1. \A j : j = l.idx => TornDown(p, j)
          BY <4>1 DEF TornDown
        <5>2. QED
          BY <4>1, <5>1 DEF OwnedInv
      <4>3. ~ (sid = l.sid /\ i = l.idx)
        BY <1>3, <2>1, <3>4, <4>2
      <4>4. /\ Holds(sid) /\ catalog'[sid] = catalog[sid]
            /\ Size(sid)' = IF sid = l.sid THEN Size(sid) - 1 ELSE Size(sid)
            /\ Positions(sid) = 1 .. Size(sid) /\ Size(sid) \in Nat
            /\ \A j \in Positions(sid)' : AdapterAt(sid, j)' =
                  AdapterAt(sid, IF sid = l.sid /\ j >= l.idx THEN j + 1 ELSE j)
        BY <1>1, <3>5, SlotFacts DEF Vacated, Positions
      <4>5. Positions(sid)' = 1 .. Size(sid)'
        BY <4>4 DEF Positions, Holds, Size
      <4>6. i \in Nat /\ (sid = l.sid => Size(l.sid) = Size(sid) /\ l.idx \in 1 .. Size(sid))
        BY <4>1, <4>4
      <4>7. PICK j \in Positions(sid)' : i = IF sid = l.sid /\ j >= l.idx THEN j + 1 ELSE j
        <5>1. CASE sid = l.sid /\ i > l.idx
          <6>1. i - 1 \in Positions(sid)' /\ i - 1 >= l.idx /\ i = (i - 1) + 1
            BY <4>1, <4>4, <4>5, <4>6, <5>1
          <6>2. QED
            BY <5>1, <6>1
        <5>2. CASE ~ (sid = l.sid /\ i > l.idx)
          <6>1. i \in Positions(sid)' /\ ~ (sid = l.sid /\ i >= l.idx)
            BY <4>1, <4>3, <4>4, <4>5, <4>6, <5>2
          <6>2. QED
            BY <6>1
        <5>3. QED
          BY <5>1, <5>2
      <4>8. AdapterAt(sid, j)' = AdapterAt(sid, i)
        BY <4>4, <4>7
      <4>9. QED
        BY <2>1, <3>4, <4>8 DEF Owned
    <3>6. CASE Write(p) /\ Written(l.sid, l.idx, [Slot(p) EXCEPT
                !.name = IF l.name = Nil THEN @ ELSE l.name, !.key = l.key])
      <4> DEFINE x == [Slot(p) EXCEPT !.name = IF l.name = Nil THEN @ ELSE l.name, !.key = l.key]
      <4>1. Slot(p) \in AdapterRecord
        BY <1>1, <3>6, AtWork DEF Write, At, OpsAt, AdapterOps
      <4>2. x.id = Slot(p).id /\ x.dep = Slot(p).dep
        BY <4>1 DEF AdapterRecord
      <4> HIDE DEF x
      <4>3. i \in Positions(sid)' /\ AdapterAt(sid, i)' =
               IF sid = l.sid /\ i = l.idx THEN x ELSE AdapterAt(sid, i)
        BY <3>6, SamePositions DEF Written, x
      <4>4. AdapterAt(sid, i)'.id = AdapterAt(sid, i).id /\ AdapterAt(sid, i)'.dep = AdapterAt(sid, i).dep
        BY <4>2, <4>3 DEF Slot
      <4>5. QED
        BY <2>1, <3>4, <4>3, <4>4 DEF Owned
    <3>7. CASE Finish(p) /\ l.op = "deleteScenario" /\ Dropped(l.sid)
      <4>1. l.pc = "finish" /\ InStep(p) /\ l.op \in LoopOps
        BY <3>7 DEF Finish, At, SerialInv, LoopOps
      <4>2. sid = l.sid => l.idx > Size(sid)
        BY <4>1 DEF InStep
      <4>3. Positions(sid) = 1 .. Size(sid) /\ Size(sid) \in Nat /\ l.idx \in Nat
        BY <1>1, <3>4, SlotFacts, AtWork DEF Positions, Local
      <4>4. sid # l.sid
        <5>1. ASSUME sid = l.sid
              PROVE  FALSE
          <6>1. i < l.idx
            BY <4>2, <4>3, <5>1
          <6>2. TornDown(p, i)
            BY <3>7, <6>1 DEF TornDown
          <6>3. deployments[AdapterAt(sid, i).dep] = Nil
            BY <5>1, <6>2 DEF OwnedInv
          <6>4. QED
            BY <1>3, <2>1, <3>4, <6>3
        <5>2. QED
          BY <5>1
      <4>5. i \in Positions(sid)' /\ AdapterAt(sid, i)' = AdapterAt(sid, i)
        BY <3>7, <4>4 DEF Dropped, Positions, Holds, AdapterAt
      <4>6. QED
        BY <2>1, <3>4, <4>5 DEF Owned
    <3>8. QED
      BY <3>2, <3>5, <3>6, <3>7, ContinueInStep DEF Ends
  <2>2. CASE Deploys(p)
    <3>1. CASE n = Slot(p).dep
      <4>1. deployments'[n] = [owner |-> Slot(p).id, replicas |-> 1]
        BY <1>1, <2>2, <3>1 DEF Deploys
      <4>2. PICK t \in ScenarioIds : l.sid = t
        BY <2>2 DEF Deploys
      <4>3. PICK j \in Positions(t) : l.idx = j
        BY <2>2, <4>2 DEF Deploys
      <4>4. j \in Positions(t)' /\ AdapterAt(t, j)' = Slot(p)
        BY <2>2, <4>2, <4>3 DEF Deploys, Positions, Holds, AdapterAt, storeVars, Slot
      <4>5. QED
        BY <3>1, <4>1, <4>4 DEF Owned
    <3>2. CASE n # Slot(p).dep
      <4>1. deployments'[n] = deployments[n] /\ KeepsAdapters
        BY <1>1, <1>2, <2>2, <3>2 DEF Deploys
      <4>2. QED
        BY <1>3, <4>1, OwnersKept DEF OwnedInv
    <3>3. QED
      BY <3>1, <3>2
  <2>3. CASE Scales(p) \/ TearsDown(p)
    <3>1. KeepsAdapters
      BY <1>2, <2>3 DEF Scales, TearsDown
    <3>2. deployments[n] # Nil /\ deployments'[n].owner = deployments[n].owner
      BY <1>1, <1>3, <2>3 DEF Scales, TearsDown, Deployment
    <3>3. QED
      BY <3>1, <3>2, OwnersKept DEF OwnedInv
  <2>4. CASE l.op = "cleanup"
    <3>1. UNCHANGED deployments /\ UNCHANGED storeVars
      <4>1. SweepTheRest(p)
        BY <1>1, <2>4 DEF Continue, Pick, CreateDeployment, CreateService, Expose, MarkRunning,
           SetUrl, WriteStatus, WriteUrl, MarkStopped, Scale, ReadKey, Write, Check,
           RemoveDeployment, RemoveService, Reread, RemoveRule, RemoveAdapter, Finish,
           At, OpsAt, AdapterOps, LoopOps
      <4>2. QED
        BY <4>1, OtherEffects DEF SweepTheRest, SweepServices, SweepAPIRules
    <3>2. QED
      BY <1>2, <1>3, <3>1, OwnersKept DEF OwnedInv
  <2>5. QED
    BY <2>1, <2>2, <2>3, <2>4, DeploymentMoves
<1>4. ASSUME NEW q \in Reqs, NEW t \in ScenarioIds, local'[q].sid = t,
             NEW i \in Positions(t)', TornDown(q, i)'
      PROVE  deployments'[AdapterAt(t, i)'.dep] = Nil
  <2>1. /\ q = p /\ m # Ready
        /\ m.op \in {"deleteScenario", "deleteAdapter"}
    BY <1>1, <1>4, ControlPlaneAssumption DEF TornDown, AllOps, Ready
  <2>2. SameRequest(p) /\ l.op = m.op /\ l.sid = t
    BY <1>4, <2>1, ContinueOp DEF SameRequest
  <2>3. /\ UNCHANGED storeVars
        /\ At(p, "deleteDeployment") \/
                 \A j \in Positions(l.sid) : TornDown(p, j)' => TornDown(p, j)
        /\ At(p, "deleteDeployment") => m.pc = "deleteService" /\ m.idx = l.idx
    BY <2>1, <2>2, DeletionMoves
  <2>4. i \in Positions(t) /\ AdapterAt(t, i)' = AdapterAt(t, i) /\ AdapterAt(t, i).dep \in Names
    <3>1. i \in Positions(t) /\ AdapterAt(t, i)' = AdapterAt(t, i)
      BY <2>3 DEF Positions, Holds, AdapterAt, storeVars
    <3>2. QED
      BY <1>1, <3>1, LookupFacts DEF AdapterRecord
  <2>5. \A n \in Names : deployments[n] = Nil => deployments'[n] = Nil
    <3>1. UNCHANGED deployments \/ TearsDown(p)
      BY <2>1, <2>2, DeploymentMoves DEF Deploys, Scales
    <3>2. QED
      BY <1>1, <3>1 DEF TearsDown
  <2>6. CASE TornDown(p, i)
    BY <2>2, <2>4, <2>5, <2>6 DEF OwnedInv
  <2>7. CASE At(p, "deleteDeployment") /\ ~ TornDown(p, i)
    <3>1. i = l.idx
      BY <1>4, <2>1, <2>2, <2>3, <2>7 DEF TornDown
    <3>2. TearsDown(p)
      <4>1. RemoveDeployment(p)
        BY <2>7 DEF Continue, Pick, CreateDeployment, CreateService, Expose, MarkRunning,
           SetUrl, WriteStatus, WriteUrl, MarkStopped, Scale, ReadKey, Write, Check,
           RemoveService, Reread, RemoveRule, RemoveAdapter, Finish, SweepTheRest, At
      <4>2. DeleteDeployment(Slot(p)) /\ Goes(p, "deleteService")
        BY <4>1, TeardownEffects
      <4>3. QED
        BY <2>3, <2>7, <4>2 DEF TearsDown, DeleteDeployment, Removed
    <3>3. QED
      BY <1>1, <2>2, <2>4, <3>1, <3>2 DEF TearsDown, Slot
  <2>8. QED
    BY <1>4, <2>1, <2>2, <2>3, <2>4, <2>6, <2>7
<1>5. QED
  BY <1>3, <1>4 DEF OwnedInv

(* Nothing beside the requests makes a deployment or gives it away; the    *)
(* idle check scales some.                                                 *)
LEMMA SurroundedDeployments ==
    ASSUME SystemInv, SerialInv, OneByOne, Surroundings, NEW n \in Names,
           deployments'[n] # Nil
    PROVE  deployments[n] # Nil /\ deployments'[n].owner = deployments[n].owner
<1>1. CASE IdleScales
  <2>1. deployments \in [Names -> Deployment \cup {Nil}]
    BY DEF SystemInv, ClusterTypeOK
  <2>2. local[Idle].cur.dep \in Names
    BY <1>1 DEF IdleScales, AdapterRecord
  <2>3. \/ deployments' = deployments
        \/ deployments' = [deployments EXCEPT ![local[Idle].cur.dep].replicas = 0]
           /\ deployments[local[Idle].cur.dep] # Nil
    BY <1>1 DEF IdleScales, StopAdapterDeployment
  <2>4. QED
    BY <2>1, <2>2, <2>3 DEF Deployment
<1>2. CASE UNCHANGED clusterVars
  BY <1>2 DEF clusterVars
<1>3. UNCHANGED clusterVars \/ IdleScales
  <2>1. CASE OneStep
    BY <2>1, OneStepEffect
  <2>2. CASE IdleStep
    BY <2>2, IdleEffect
  <2>3. CASE Wait
    BY <2>3 DEF Wait
  <2>4. CASE UNCHANGED vars
    BY <2>4 DEF vars, controlVars
  <2>5. QED
    BY <2>1, <2>2, <2>3, <2>4 DEF Surroundings
<1>4. QED
  BY <1>1, <1>2, <1>3

LEMMA OwnedStep ==
    ASSUME SystemInv, SerialInv, OneByOne, ~LocalMode, ~Faults, "restart" \notin Ops,
           OwnedInv, [Next]_vars
    PROVE  OwnedInv'
<1>1. StoreInv
  BY DEF SystemInv, HeapInv
<1>2. ASSUME NEW p \in Reqs, Begin(p)
      PROVE  OwnedInv'
  <2>1. /\ Quiet /\ UNCHANGED storeVars
        /\ \A q \in Processes \ {p} : local'[q] = local[q]
        /\ BeginsLoop(p) \/ BeginsAdapter(p) \/ BeginsCleanup(p)
    BY <1>2, BeginEffect
  <2>2. \A q \in Reqs \ {p} : local'[q].op = Nil
    BY <2>1 DEF Quiet, At, SystemInv, LocalsInv, Sound, OpsAt, Processes
  <2>3. /\ local'[p].op = "deleteScenario" => local'[p].idx = 1
        /\ local'[p].op \in {"deleteScenario", "deleteAdapter"} => local'[p].pc \in {"pick", "check"}
        /\ UNCHANGED deployments \/ SweepDeployments
    <3>1. BeginsLoop(p) => local'[p].idx = 1 /\ local'[p].pc = "pick" /\ UNCHANGED deployments
      BY DEF BeginsLoop, Ready, clusterVars
    <3>2. BeginsAdapter(p) => /\ local'[p].op \in AdapterOps /\ local'[p].pc = "check"
                              /\ UNCHANGED deployments
      BY DEF BeginsAdapter, Pointing, Ready, clusterVars
    <3>3. BeginsCleanup(p) => local'[p].op = "cleanup" /\ SweepDeployments
      BY DEF BeginsCleanup, Ready
    <3>4. QED
      BY <2>1, <3>1, <3>2, <3>3 DEF AdapterOps
  <2>4. ASSUME NEW n \in Names, deployments'[n] # Nil
        PROVE  Owned(n)'
    <3>1. deployments' = deployments
      <4>1. SweepDeployments => deployments'[n] = Nil
        BY DEF SweepDeployments, Swept
      <4>2. QED
        BY <2>3, <2>4, <4>1
    <3>2. KeepsAdapters
      BY <1>1, <2>1, KeptBy, UnchangedAdapters
    <3>3. QED
      BY <2>4, <3>1, <3>2, OwnersKept DEF OwnedInv
  <2>5. ASSUME NEW q \in Reqs, NEW t \in ScenarioIds, NEW i \in Positions(t)'
        PROVE  ~ TornDown(q, i)'
    <3>1. i \in Nat /\ i >= 1
      <4>1. i \in Positions(t)
        BY <2>1 DEF Positions, Holds, storeVars
      <4>2. QED
        BY <1>1, <4>1, SlotFacts DEF Positions
    <3>2. q # p => local'[q].op = Nil
      BY <2>2
    <3>3. QED
      BY <2>3, <3>1, <3>2, ControlPlaneAssumption DEF TornDown, AllOps
  <2>6. QED
    BY <2>4, <2>5 DEF OwnedInv
<1>3. ~ Restart
  BY DEF Restart, Spend
<1>4. CASE Surroundings
  <2>1. /\ \A q \in Reqs : local'[q] = local[q]
        /\ KeepsAdapters \/ (Grows /\ Quiet)
    <3>1. /\ \A q \in Reqs : local'[q] = local[q]
          /\ SameAdapters \/ Elapsed \/ Loads \/ Creates \/ Adds \/ Reports \/ IdleStops
          /\ Quiet \/ KeepsAdapters
      BY <1>4, SurroundingsEffect
    <3>2. Loads \/ Creates \/ Adds => Grows /\ Quiet
      BY NewOnesGrow
    <3>3. ASSUME NEW sid \in ScenarioIds, NEW i \in Positions(sid),
                 \/ Written(sid, i, [AdapterAt(sid, i) EXCEPT !.last = "recent"])
                 \/ Written(sid, i, WithStatus(AdapterAt(sid, i), "stopped"))
          PROVE  KeepsAdapters
      <4>1. AdapterAt(sid, i) \in AdapterRecord
        BY <1>1, LookupFacts
      <4>2. /\ Agree([AdapterAt(sid, i) EXCEPT !.last = "recent"], AdapterAt(sid, i))
            /\ Agree(WithStatus(AdapterAt(sid, i), "stopped"), AdapterAt(sid, i))
        BY <4>1 DEF Agree, WithStatus, AdapterRecord
      <4>3. QED
        BY <1>1, <3>3, <4>2, KeptBy
    <3>4. Reports \/ IdleStops => KeepsAdapters
      BY <3>3 DEF Reports, IdleStops
    <3>5. QED
      BY <1>1, <3>1, <3>2, <3>4, KeptBy
  <2>2. \A q \in Reqs : \A i : TornDown(q, i)' = TornDown(q, i)
    BY <2>1 DEF TornDown
  <2>3. CASE KeepsAdapters
    <3>2. \A n \in Names : deployments'[n] # Nil => Owned(n)'
      BY <1>4, <2>3, SurroundedDeployments, OwnersKept DEF OwnedInv
    <3>3. ASSUME NEW q \in Reqs, NEW t \in ScenarioIds, local'[q].sid = t,
                 NEW i \in Positions(t)', TornDown(q, i)'
          PROVE  deployments'[AdapterAt(t, i)'.dep] = Nil
      <4>1. i \in Positions(t) /\ AdapterAt(t, i)'.dep = AdapterAt(t, i).dep
        BY <2>3, SamePositions DEF KeepsAdapters, Agree
      <4>2. AdapterAt(t, i).dep \in Names /\ deployments[AdapterAt(t, i).dep] = Nil
        BY <1>1, <2>1, <2>2, <3>3, <4>1, LookupFacts DEF OwnedInv, AdapterRecord
      <4>3. QED
        BY <1>4, <4>1, <4>2, SurroundedDeployments
    <3>4. QED
      BY <3>2, <3>3 DEF OwnedInv
  <2>4. CASE Grows /\ Quiet
    <3>1. ASSUME NEW n \in Names, deployments'[n] # Nil
          PROVE  Owned(n)'
      <4>1. PICK sid \in ScenarioIds : \E i \in Positions(sid) :
               AdapterAt(sid, i).id = deployments'[n].owner /\ AdapterAt(sid, i).dep = n
        BY <1>4, <3>1, SurroundedDeployments DEF OwnedInv, Owned
      <4>2. PICK i \in Positions(sid) :
               AdapterAt(sid, i).id = deployments'[n].owner /\ AdapterAt(sid, i).dep = n
        BY <4>1
      <4>3. i \in Positions(sid)' /\ AdapterAt(sid, i)' = AdapterAt(sid, i)
        BY <2>4 DEF Grows
      <4>4. QED
        BY <4>2, <4>3 DEF Owned
    <3>2. \A q \in Reqs : \A i : ~ TornDown(q, i)'
      <4>1. \A q \in Reqs : local[q].op = Nil
        BY <2>4 DEF Quiet, At, SystemInv, LocalsInv, Sound, OpsAt, Processes
      <4>2. QED
        BY <2>2, <4>1, ControlPlaneAssumption DEF TornDown, AllOps
    <3>3. QED
      BY <3>1, <3>2 DEF OwnedInv
  <2>5. QED
    BY <2>1, <2>3, <2>4
<1>5. QED
  BY <1>2, <1>3, <1>4, StepCases, ContinueOwned

(* The deployments of the cluster through the steps of every request:      *)
(* each has its adapter, or the request at work has yet to remove it.      *)
THEOREM OwnedInvariant ==
    ASSUME OneByOne, ~LocalMode, ~Faults, "restart" \notin Ops
    PROVE  Spec => []OwnedInv
<1>1. Init => OwnedInv
  BY ControlPlaneAssumption
     DEF Init, ClusterInit, Ready, OwnedInv, TornDown, Processes, AllOps
<1>2. SystemInv /\ SerialInv /\ OwnedInv /\ [Next]_vars => OwnedInv'
  BY OwnedStep
<1>3. QED
  BY <1>1, <1>2, SystemInvariant, Serial, PTL DEF Spec

(* If requests come one at a time and the cluster answers them all, every  *)
(* deployment belongs to an adapter of the store that would find it, as    *)
(* long as the control plane does not restart and forget it, also where    *)
(* the idle check scales deployments meanwhile.                            *)
THEOREM DeploymentsHaveOwners ==
    ASSUME OneByOne, ~LocalMode, ~Faults, "restart" \notin Ops
    PROVE  Spec => []DeploymentsOwned
<1>1. OwnedInv => DeploymentsOwned
  BY DEF OwnedInv, Owned, DeploymentsOwned, Scenarios, Positions
<1>2. QED
  BY <1>1, OwnedInvariant, PTL

-----------------------------------------------------------------------------
(* A slot without a request holds nothing.                                 *)

Rested == \A p \in Reqs : At(p, "ready") => local[p] = Ready

LEMMA RestedStep ==
    ASSUME SystemInv, SystemInv', SerialInv, OneByOne, Rested, [Next]_vars
    PROVE  Rested'
<1>1. ASSUME NEW p \in Reqs, Continue(p)
      PROVE  Rested'
  <2>1. /\ ~ At(p, "ready") /\ OthersWait(p)
        /\ local[p].op \in OpsAt(local[p].pc) /\ local[p].pc \in Steps
    BY <1>1, ContinueCases, AtWork DEF Sound, Local
  <2>2. local[p].op # Nil
    BY <2>1, ControlPlaneAssumption DEF OpsAt, At, Steps, LoopOps, AdapterOps, AllOps
  <2>3. SameRequest(p) => local'[p].op # Nil
    BY <2>2 DEF SameRequest
  <2>4. At(p, "ready")' => local'[p].op = Nil
    BY DEF SystemInv, LocalsInv, Sound, OpsAt, At, Processes
  <2>5. At(p, "ready")' => local'[p] = Ready
    BY <1>1, <2>3, <2>4, ContinueOp
  <2>6. QED
    BY <2>1, <2>5 DEF Rested, OthersWait, At, Ready
<1>2. ASSUME NEW p \in Reqs, Begin(p)
      PROVE  Rested'
  <2>1. /\ \A q \in Processes \ {p} : local'[q] = local[q]
        /\ BeginsLoop(p) \/ BeginsAdapter(p) \/ BeginsCleanup(p)
    BY <1>2, BeginEffect
  <2>2. local'[p].pc # "ready"
    BY <2>1 DEF BeginsLoop, BeginsAdapter, BeginsCleanup, Pointing, Ready
  <2>3. QED
    BY <2>1, <2>2 DEF Rested, At, Processes, Ready
<1>3. CASE Restart
  BY <1>3, WorldEffects DEF Rested, Processes, Ready
<1>4. CASE Surroundings
  BY <1>4, SurroundingsEffect DEF Rested, At, Ready
<1>5. QED
  BY <1>1, <1>2, <1>3, <1>4, StepCases

-----------------------------------------------------------------------------
(* No name is used for two adapters.                                       *)

NamesOf(x) == {x.name, x.dep}

(* A file names its adapters differently.                                  *)
FileNamesDiffer ==
    \A g \in GithubIds : \A i, j \in 1 .. Len(Manifest[g]) :
        Manifest[g][i].name = Manifest[g][j].name => i = j

(* ... within a scenario (between them, see OneClaim); and nobody has the  *)
(* name that an update is about to give.                                   *)
NamesInv ==
    /\ \A sid \in ScenarioIds : \A i, j \in Positions(sid) :
          i # j => NamesOf(AdapterAt(sid, i)) \cap NamesOf(AdapterAt(sid, j)) = {}
    /\ \A p \in Reqs, sid \in ScenarioIds : local[p].sid = sid /\ local[p].name # Nil =>
          \A i \in Positions(sid) : local[p].name \notin NamesOf(AdapterAt(sid, i))

(* A usable name is nobody's.                                              *)
LEMMA UsableIsNew ==
    ASSUME ~NameClash, NEW name \in Names, Usable(name), NEW sid \in ScenarioIds,
           NEW i \in Positions(sid)
    PROVE  name \notin NamesOf(AdapterAt(sid, i))
<1>1. AdapterAt(sid, i) \in Seen
  BY DEF Seen
<1>2. QED
  BY <1>1 DEF Usable, InUse, NamesOf

(* Steps after which every scenario has adapters, in their order, that it  *)
(* had before, keep their names apart.                                     *)
LEMMA NamesFollow ==
    ASSUME NamesInv, NEW sid \in ScenarioIds,
           NEW from \in [Positions(sid)' -> Positions(sid)],
           \A i, j \in Positions(sid)' : from[i] = from[j] => i = j,
           \A i \in Positions(sid)' :
              /\ AdapterAt(sid, i)'.name = AdapterAt(sid, from[i]).name
              /\ AdapterAt(sid, i)'.dep = AdapterAt(sid, from[i]).dep
    PROVE  /\ \A i, j \in Positions(sid)' : i # j =>
                 NamesOf(AdapterAt(sid, i)') \cap NamesOf(AdapterAt(sid, j)') = {}
           /\ \A n : (\A k \in Positions(sid) : n \notin NamesOf(AdapterAt(sid, k))) =>
                 \A i \in Positions(sid)' : n \notin NamesOf(AdapterAt(sid, i)')
<1>1. \A i \in Positions(sid)' : NamesOf(AdapterAt(sid, i)') = NamesOf(AdapterAt(sid, from[i]))
  BY DEF NamesOf
<1>2. QED
  BY <1>1 DEF NamesInv

(* What keeps positions and names: nothing changes but statuses, urls and  *)
(* activity.                                                               *)
LEMMA NamesKept ==
    ASSUME NamesInv, KeepsAdapters, NEW sid \in ScenarioIds
    PROVE  /\ \A i, j \in Positions(sid)' : i # j =>
                 NamesOf(AdapterAt(sid, i)') \cap NamesOf(AdapterAt(sid, j)') = {}
           /\ \A n : (\A k \in Positions(sid) : n \notin NamesOf(AdapterAt(sid, k))) =>
                 \A i \in Positions(sid)' : n \notin NamesOf(AdapterAt(sid, i)')
<1>1. Positions(sid)' = Positions(sid)
  BY SamePositions DEF KeepsAdapters
<1>2. \A i \in Positions(sid) : NamesOf(AdapterAt(sid, i)') = NamesOf(AdapterAt(sid, i))
  BY DEF KeepsAdapters, Agree, NamesOf
<1>3. QED
  BY <1>1, <1>2 DEF NamesInv

(* The names of a scenario after a request has ended with a change.        *)
LEMMA NamesAtEnds ==
    ASSUME SystemInv, SerialInv, NamesInv, NEW p \in Reqs, Ends(p), ~ At(p, "ready"),
           NEW sid \in ScenarioIds
    PROVE  \A i, j \in Positions(sid)' : i # j =>
              NamesOf(AdapterAt(sid, i)') \cap NamesOf(AdapterAt(sid, j)') = {}
<1> DEFINE l == local[p]
<1>1. StoreInv /\ l \in Local /\ l.op \in OpsAt(l.pc)
  BY AtWork DEF SystemInv, HeapInv, Sound
<1>2. CASE RemoveAdapter(p) /\ Vacated(l.sid, l.idx)
  <2>1. l.sid \in ScenarioIds /\ l.idx \in Positions(l.sid)
    BY <1>1, <1>2, AtWork DEF RemoveAdapter, At, OpsAt, AdapterOps, OnSlot
  <2>2. ASSUME NEW i \in Positions(sid)'
        PROVE  /\ i \in Nat
               /\ (IF sid = l.sid /\ i >= l.idx THEN i + 1 ELSE i) \in Positions(sid)
               /\ AdapterAt(sid, i)' =
                     AdapterAt(sid, IF sid = l.sid /\ i >= l.idx THEN i + 1 ELSE i)
    <3>1. /\ Holds(sid) /\ i \in 1 .. Size(sid)'
          /\ Size(sid)' = IF sid = l.sid THEN Size(sid) - 1 ELSE Size(sid)
      BY <1>2 DEF Vacated, Positions, Holds, Size
    <3>2. Positions(sid) = 1 .. Size(sid) /\ Size(sid) \in Nat
      BY <1>1, <3>1, SlotFacts
    <3>3. QED
      BY <1>2, <3>1, <3>2 DEF Vacated
  <2>3. l.idx \in Nat
    BY <1>1 DEF Local
  <2>4. QED
    <3>1. ASSUME NEW i \in Positions(sid)', NEW j \in Positions(sid)', i # j
          PROVE  NamesOf(AdapterAt(sid, i)') \cap NamesOf(AdapterAt(sid, j)') = {}
      <4> DEFINE a == IF sid = l.sid /\ i >= l.idx THEN i + 1 ELSE i
                 b == IF sid = l.sid /\ j >= l.idx THEN j + 1 ELSE j
      <4>1. a \in Positions(sid) /\ b \in Positions(sid) /\ a # b
        BY <2>2, <2>3, <3>1
      <4>2. AdapterAt(sid, i)' = AdapterAt(sid, a) /\ AdapterAt(sid, j)' = AdapterAt(sid, b)
        BY <2>2
      <4> HIDE DEF a, b
      <4>3. QED
        BY <4>1, <4>2 DEF NamesInv
    <3>2. QED
      BY <3>1
<1>3. CASE Write(p) /\ Written(l.sid, l.idx, [Slot(p) EXCEPT
                !.name = IF l.name = Nil THEN @ ELSE l.name, !.key = l.key])
  <2> DEFINE x == [Slot(p) EXCEPT !.name = IF l.name = Nil THEN @ ELSE l.name, !.key = l.key]
  <2>1. l.sid \in ScenarioIds /\ l.idx \in Positions(l.sid) /\ Slot(p) \in AdapterRecord
        /\ Slot(p) = AdapterAt(l.sid, l.idx)
    BY <1>1, <1>3, AtWork DEF Write, At, OpsAt, AdapterOps, OnSlot, Slot
  <2>2. NamesOf(x) \subseteq NamesOf(Slot(p)) \cup ({l.name} \ {Nil})
    BY <2>1 DEF NamesOf, AdapterRecord
  <2> HIDE DEF x
  <2>3. /\ Positions(sid)' = Positions(sid)
        /\ \A i \in Positions(sid) : AdapterAt(sid, i)' =
              IF sid = l.sid /\ i = l.idx THEN x ELSE AdapterAt(sid, i)
    BY <1>3, SamePositions DEF Written, x
  <2>4. \A i \in Positions(sid) : sid = l.sid /\ i # l.idx =>
           NamesOf(x) \cap NamesOf(AdapterAt(sid, i)) = {}
    <3>1. ASSUME NEW i \in Positions(sid), sid = l.sid, i # l.idx
          PROVE  NamesOf(x) \cap NamesOf(AdapterAt(sid, i)) = {}
      <4>1. NamesOf(Slot(p)) \cap NamesOf(AdapterAt(sid, i)) = {}
        BY <2>1, <3>1 DEF NamesInv
      <4>2. l.name # Nil => l.name \notin NamesOf(AdapterAt(sid, i))
        BY <3>1 DEF NamesInv
      <4>3. QED
        BY <2>2, <4>1, <4>2
    <3>2. QED
      BY <3>1
  <2>5. ASSUME NEW i \in Positions(sid), NEW j \in Positions(sid), i # j
        PROVE  NamesOf(AdapterAt(sid, i)') \cap NamesOf(AdapterAt(sid, j)') = {}
    <3>1. NamesOf(AdapterAt(sid, i)) \cap NamesOf(AdapterAt(sid, j)) = {}
      BY <2>5 DEF NamesInv
    <3>2. CASE sid = l.sid /\ i = l.idx
      BY <2>3, <2>4, <2>5, <3>2
    <3>3. CASE sid = l.sid /\ j = l.idx
      BY <2>3, <2>4, <2>5, <3>3
    <3>4. QED
      BY <2>3, <3>1, <3>2, <3>3
  <2>6. QED
    BY <2>3, <2>5
<1>4. CASE Dropped(l.sid)
  <2>1. ASSUME NEW i \in Positions(sid)'
        PROVE  i \in Positions(sid) /\ AdapterAt(sid, i)' = AdapterAt(sid, i)
    BY <1>4 DEF Dropped, Positions, Holds, AdapterAt
  <2>2. QED
    BY <2>1 DEF NamesInv
<1>5. QED
  BY <1>2, <1>3, <1>4 DEF Ends

LEMMA ContinueNames ==
    ASSUME SystemInv, SerialInv, Rested, NamesInv, NEW p \in Reqs, Continue(p)
    PROVE  NamesInv'
<1>1. /\ ~ At(p, "ready")
      /\ \A q \in Reqs \ {p} : local'[q] = local[q] /\ local[q].name = Nil
  BY ContinueCases, AtWork DEF OthersWait, Rested, Ready
<1>2. CASE KeepsAdapters
  <2>1. \A sid \in ScenarioIds : \A i, j \in Positions(sid)' : i # j =>
           NamesOf(AdapterAt(sid, i)') \cap NamesOf(AdapterAt(sid, j)') = {}
    BY <1>2, NamesKept
  <2>2. ASSUME NEW q \in Reqs, NEW sid \in ScenarioIds, local'[q].sid = sid,
               local'[q].name # Nil, NEW i \in Positions(sid)'
        PROVE  local'[q].name \notin NamesOf(AdapterAt(sid, i)')
    <3>1. q = p /\ SameRequest(p)
      BY <1>1, <2>2, ContinueOp DEF Ready
    <3>2. local'[q].name = local[q].name /\ local[q].sid = sid
      BY <2>2, <3>1 DEF SameRequest
    <3>3. \A k \in Positions(sid) : local[q].name \notin NamesOf(AdapterAt(sid, k))
      BY <2>2, <3>2 DEF NamesInv
    <3>4. QED
      BY <1>2, <3>2, <3>3, NamesKept
  <2>3. QED
    BY <2>1, <2>2 DEF NamesInv, NamesOf
<1>3. CASE Ends(p)
  <2>1. \A q \in Reqs : local'[q].name = Nil
    BY <1>1, <1>3 DEF Ends, Ready
  <2>2. \A sid \in ScenarioIds : \A i, j \in Positions(sid)' : i # j =>
           NamesOf(AdapterAt(sid, i)') \cap NamesOf(AdapterAt(sid, j)') = {}
    BY <1>1, <1>3, NamesAtEnds
  <2>3. QED
    BY <2>1, <2>2 DEF NamesInv, NamesOf
<1>4. QED
  BY <1>2, <1>3, ContinueInStep

(* New adapters and those of files.                                        *)
LEMMA NewOnesNamed ==
    ASSUME SystemInv, SerialInv, NamesInv, FileNamesDiffer, ~NameClash, "clone" \notin Ops,
           Loads \/ Creates \/ Adds, NEW sid \in ScenarioIds
    PROVE  \A i, j \in Positions(sid)' : i # j =>
              NamesOf(AdapterAt(sid, i)') \cap NamesOf(AdapterAt(sid, j)') = {}
<1>1. StoreInv
  BY DEF SystemInv, HeapInv
<1>2. \A id, name, type, key : NamesOf(NewAdapter(id, name, type, key)) = {name}
  BY DEF NewAdapter, NamesOf
<1>3. ASSUME NEW t \in ScenarioIds, NEW xs, Founded(t, xs),
             \A i, j \in 1 .. Len(xs) : i # j => NamesOf(xs[i]) \cap NamesOf(xs[j]) = {},
             NEW i \in Positions(sid)', NEW j \in Positions(sid)', i # j
      PROVE  NamesOf(AdapterAt(sid, i)') \cap NamesOf(AdapterAt(sid, j)') = {}
  <2>1. CASE sid = t
    <3>1. Positions(sid)' = 1 .. Len(xs)
      BY <1>3, <2>1 DEF Founded, Positions, Holds, Size
    <3>2. AdapterAt(sid, i)' = xs[i] /\ AdapterAt(sid, j)' = xs[j]
      BY <1>3, <2>1 DEF Founded
    <3>3. QED
      BY <1>3, <3>1, <3>2
  <2>2. CASE sid # t
    <3>1. catalog'[sid] = catalog[sid] /\ (Holds(sid) => Size(sid)' = Size(sid))
      BY <1>3, <2>2 DEF Founded
    <3>2. Positions(sid)' = Positions(sid)
      BY <3>1 DEF Positions, Holds, Size
    <3>3. AdapterAt(sid, i)' = AdapterAt(sid, i) /\ AdapterAt(sid, j)' = AdapterAt(sid, j)
      BY <1>3, <2>2 DEF Founded
    <3>4. QED
      BY <1>3, <3>2, <3>3 DEF NamesInv
  <2>3. QED
    BY <2>1, <2>2
<1>4. CASE Loads
  <2>1. PICK g \in unloaded : Founded(g, FromFile(g))
    BY <1>4 DEF Loads
  <2>2. g \in GithubIds /\ g \in ScenarioIds
    BY <2>1 DEF SystemInv, CountersInv, ScenarioIds
  <2>3. Len(FromFile(g)) = Len(Manifest[g])
    BY <2>2, FromFileType
  <2>4. \A i \in 1 .. Len(Manifest[g]) : NamesOf(FromFile(g)[i]) = {Manifest[g][i].name}
    BY <1>2 DEF FromFile
  <2>5. \A i, j \in 1 .. Len(Manifest[g]) : i # j => Manifest[g][i].name # Manifest[g][j].name
    BY <2>2 DEF FileNamesDiffer
  <2>6. \A i, j \in 1 .. Len(FromFile(g)) : i # j =>
           NamesOf(FromFile(g)[i]) \cap NamesOf(FromFile(g)[j]) = {}
    <3>1. ASSUME NEW i \in 1 .. Len(Manifest[g]), NEW j \in 1 .. Len(Manifest[g]), i # j
          PROVE  NamesOf(FromFile(g)[i]) \cap NamesOf(FromFile(g)[j]) = {}
      <4>1. NamesOf(FromFile(g)[i]) = {Manifest[g][i].name}
        BY <2>4
      <4>2. NamesOf(FromFile(g)[j]) = {Manifest[g][j].name}
        BY <2>4
      <4>3. Manifest[g][i].name # Manifest[g][j].name
        BY <2>5, <3>1
      <4>4. QED
        BY <4>1, <4>2, <4>3
    <3>2. QED
      BY <2>3, <3>1
  <2>7. QED
    BY <1>3, <2>1, <2>2, <2>6
<1>5. CASE Creates
  <2>1. Founded(clock, <<>>) /\ clock \in ScenarioIds
    BY <1>5, ClockIsFree DEF Creates
  <2>2. Len(<<>>) = 0
    OBVIOUS
  <2>3. QED
    BY <1>3, <2>1, <2>2
<1>6. CASE Adds
  <2>1. PICK t \in Scenarios, name \in Names, type \in Types :
           \E key : /\ Usable(name)
                    /\ Extended(t, NewAdapter(<<t, type, clock>>, name, type, key))
    BY <1>6 DEF Adds
  <2>2. PICK key : Usable(name) /\ Extended(t, NewAdapter(<<t, type, clock>>, name, type, key))
    BY <2>1
  <2> DEFINE x == NewAdapter(<<t, type, clock>>, name, type, key)
  <2>3. NamesOf(x) = {name} /\ Extended(t, x) /\ t \in ScenarioIds /\ Holds(t)
    BY <1>2, <2>2 DEF Scenarios
  <2> HIDE DEF x
  <2>4. /\ Holds(sid)' = Holds(sid)
        /\ Holds(sid) => Size(sid)' = IF sid = t THEN Size(sid) + 1 ELSE Size(sid)
        /\ \A i \in Positions(sid)' :
              AdapterAt(sid, i)' = IF sid = t /\ i = Size(t) + 1 THEN x ELSE AdapterAt(sid, i)
    BY <2>3 DEF Extended, Holds
  <2>5. \A i \in Positions(sid)' : ~ (sid = t /\ i = Size(t) + 1) => i \in Positions(sid)
    <3>1. ASSUME NEW i \in Positions(sid)', ~ (sid = t /\ i = Size(t) + 1)
          PROVE  i \in Positions(sid)
      <4>1. Holds(sid) /\ i \in 1 .. Size(sid)'
        BY <2>4, <3>1 DEF Positions, Holds, Size
      <4>2. Positions(sid) = 1 .. Size(sid) /\ Size(sid) \in Nat
        BY <1>1, <4>1, SlotFacts
      <4>3. QED
        BY <2>4, <3>1, <4>1, <4>2
    <3>2. QED
      BY <3>1
  <2>6. \A i \in Positions(sid) : name \notin NamesOf(AdapterAt(sid, i))
    BY <2>2, UsableIsNew
  <2>7. ASSUME NEW i \in Positions(sid)', NEW j \in Positions(sid)', i # j
        PROVE  NamesOf(AdapterAt(sid, i)') \cap NamesOf(AdapterAt(sid, j)') = {}
    <3>1. CASE sid = t /\ i = Size(t) + 1
      <4>1. j \in Positions(sid) /\ AdapterAt(sid, j)' = AdapterAt(sid, j)
        BY <2>4, <2>5, <2>7, <3>1
      <4>2. AdapterAt(sid, i)' = x
        BY <2>4, <3>1
      <4>3. QED
        BY <2>3, <2>6, <4>1, <4>2
    <3>2. CASE sid = t /\ j = Size(t) + 1
      <4>1. i \in Positions(sid) /\ AdapterAt(sid, i)' = AdapterAt(sid, i)
        BY <2>4, <2>5, <2>7, <3>2
      <4>2. AdapterAt(sid, j)' = x
        BY <2>4, <3>2
      <4>3. QED
        BY <2>3, <2>6, <4>1, <4>2
    <3>3. CASE ~ (sid = t /\ i = Size(t) + 1) /\ ~ (sid = t /\ j = Size(t) + 1)
      BY <2>4, <2>5, <2>7, <3>3 DEF NamesInv
    <3>4. QED
      BY <3>1, <3>2, <3>3
  <2>8. QED
    BY <2>7
<1>7. QED
  BY <1>4, <1>5, <1>6

LEMMA NamesStep ==
    ASSUME SystemInv, SerialInv, OneByOne, Rested, Rested', ~NameClash, "clone" \notin Ops,
           FileNamesDiffer, NamesInv, [Next]_vars
    PROVE  NamesInv'
<1>1. ASSUME NEW p \in Reqs, Begin(p)
      PROVE  NamesInv'
  <2>1. /\ Quiet /\ UNCHANGED storeVars
        /\ \A q \in Processes \ {p} : local'[q] = local[q]
        /\ BeginsLoop(p) \/ BeginsAdapter(p) \/ BeginsCleanup(p)
    BY <1>1, BeginEffect
  <2>2. \A q \in Reqs \ {p} : local'[q].name = Nil
    BY <2>1 DEF Quiet, Rested, Processes, Ready
  <2>3. \A t \in ScenarioIds : /\ Positions(t)' = Positions(t)
                               /\ \A i : AdapterAt(t, i)' = AdapterAt(t, i)
    BY <2>1 DEF Positions, Holds, AdapterAt, storeVars
  <2>4. local'[p].name # Nil => local'[p].name \in Names /\ Usable(local'[p].name)
    <3>1. BeginsLoop(p) \/ BeginsCleanup(p) => local'[p].name = Nil
      BY DEF BeginsLoop, BeginsCleanup, Ready
    <3>2. BeginsAdapter(p) => local'[p].name = Nil
             \/ (local'[p].name \in Names /\ Usable(local'[p].name))
      BY DEF BeginsAdapter, Pointing, Brings, Ready
    <3>3. QED
      BY <2>1, <3>1, <3>2
  <2>5. ASSUME NEW t \in ScenarioIds, NEW i \in Positions(t), local'[p].name # Nil
        PROVE  local'[p].name \notin NamesOf(AdapterAt(t, i))
    BY <2>4, <2>5, UsableIsNew
  <2>6. QED
    BY <2>2, <2>3, <2>5 DEF NamesInv, NamesOf
<1>2. CASE Restart
  <2>1. /\ \A sid \in ScenarioIds : Positions(sid)' = {}
        /\ \A q \in Reqs : local'[q].name = Nil
    BY <1>2, WorldEffects DEF Ready, Processes
  <2>2. QED
    BY <2>1 DEF NamesInv
<1>3. CASE Surroundings
  <2>1. /\ \A q \in Reqs : local'[q] = local[q]
        /\ Quiet \/ KeepsAdapters
        /\ KeepsAdapters \/ Loads \/ Creates \/ Adds
    <3>1. StoreInv
      BY DEF SystemInv, HeapInv
    <3>2. Reports => KeepsAdapters
      <4>1. ASSUME NEW sid \in ScenarioIds, NEW i \in Positions(sid),
                   Written(sid, i, [AdapterAt(sid, i) EXCEPT !.last = "recent"])
            PROVE  KeepsAdapters
        <5>1. AdapterAt(sid, i) \in AdapterRecord
          BY <3>1, LookupFacts
        <5>2. Agree([AdapterAt(sid, i) EXCEPT !.last = "recent"], AdapterAt(sid, i))
          BY <5>1 DEF Agree, AdapterRecord
        <5>3. QED
          BY <3>1, <4>1, <5>2, KeptBy
      <4>2. QED
        BY <4>1 DEF Reports
    <3>3. IdleStops => KeepsAdapters
      <4>1. ASSUME NEW sid \in ScenarioIds, NEW i \in Positions(sid),
                   Written(sid, i, WithStatus(AdapterAt(sid, i), "stopped"))
            PROVE  KeepsAdapters
        <5>1. AdapterAt(sid, i) \in AdapterRecord
          BY <3>1, LookupFacts
        <5>2. Agree(WithStatus(AdapterAt(sid, i), "stopped"), AdapterAt(sid, i))
          BY <5>1 DEF Agree, AdapterRecord, WithStatus
        <5>3. QED
          BY <3>1, <4>1, <5>2, KeptBy
      <4>2. QED
        BY <4>1 DEF IdleStops
    <3>4. QED
      BY <1>3, <3>1, <3>2, <3>3, SurroundingsEffect, KeptBy
  <2>2. \A sid \in ScenarioIds : \A i, j \in Positions(sid)' : i # j =>
           NamesOf(AdapterAt(sid, i)') \cap NamesOf(AdapterAt(sid, j)') = {}
    BY <2>1, NamesKept, NewOnesNamed
  <2>3. ASSUME NEW q \in Reqs, NEW sid \in ScenarioIds, local'[q].sid = sid,
               local'[q].name # Nil, NEW i \in Positions(sid)'
        PROVE  local'[q].name \notin NamesOf(AdapterAt(sid, i)')
    <3>1. KeepsAdapters
      BY <2>1, <2>3 DEF Quiet, Rested, Ready
    <3>2. \A k \in Positions(sid) : local[q].name \notin NamesOf(AdapterAt(sid, k))
      BY <2>1, <2>3 DEF NamesInv
    <3>3. QED
      BY <2>1, <3>1, <3>2, NamesKept
  <2>4. QED
    BY <2>2, <2>3 DEF NamesInv, NamesOf
<1>4. QED
  BY <1>1, <1>2, <1>3, StepCases, ContinueNames

(* If requests come one at a time, names stay apart where those that are   *)
(* given are.                                                              *)
THEOREM NamesInvariant ==
    ASSUME OneByOne, ~NameClash, "clone" \notin Ops, FileNamesDiffer
    PROVE  Spec => [](Rested /\ NamesInv)
<1>1. Init => Rested /\ NamesInv
  <2>1. ASSUME Init
        PROVE  /\ \A sid \in ScenarioIds : Positions(sid) = {}
               /\ \A q \in Reqs : local[q] = Ready
    BY <2>1 DEF Init, StoreInit, Holds, Positions, Processes
  <2>2. QED
    BY <2>1 DEF Rested, NamesInv, Ready
<1>2. SystemInv /\ SystemInv' /\ SerialInv /\ Rested /\ [Next]_vars => Rested'
  BY RestedStep
<1>3. SystemInv /\ SerialInv /\ Rested /\ Rested' /\ NamesInv /\ [Next]_vars => NamesInv'
  BY NamesStep
<1>4. QED
  BY <1>1, <1>2, <1>3, SystemInvariant, Serial, PTL DEF Spec

-----------------------------------------------------------------------------
(* Running adapters are backed by the cluster.                             *)

Up(sid, i) ==
    deployments[AdapterAt(sid, i).dep] = [owner |-> AdapterAt(sid, i).id, replicas |-> 1]

Reached(sid, i) == services[AdapterAt(sid, i).name] = AdapterAt(sid, i).id

Exposed(sid, i) == apiRules[AdapterAt(sid, i).name] = AdapterAt(sid, i).id

BackedAt(sid, i) ==
    LET x == AdapterAt(sid, i)
    IN  x.status = "running" =>
          /\ Up(sid, i) /\ Reached(sid, i)
          /\ x.url = "public" /\ x.type # Sftp => Exposed(sid, i)

(* A request is at work on the adapter, or on its way to delete it.        *)
WorksOn(p, sid, i) ==
    /\ local[p].sid = sid
    /\ \/ local[p].op = "deleteScenario"
       \/ local[p].idx = i /\ local[p].pc \notin {"pick", "finish"}

(* How far it is: a launch has what comes before its step; and an update   *)
(* has stopped the adapter before it gives it another name.                *)
ProgressAt(p, t, j) ==
    LET l == local[p]
        x == AdapterAt(t, j)
    IN  /\ l.pc \in { "createDeployment", "createService", "expose", "markRunning",
                      "readKey", "write" } => x.status = "stopped"
        /\ l.pc \in { "createService", "expose", "markRunning", "setUrl",
                      "pokeStatus", "pokeUrl" } => Up(t, j)
        /\ l.pc \in { "expose", "markRunning", "setUrl", "pokeStatus", "pokeUrl" } =>
              Reached(t, j)
        /\ l.pc \in { "markRunning", "setUrl", "pokeStatus", "pokeUrl" } =>
              (l.url = "public" /\ x.type # Sftp => Exposed(t, j))
        /\ l.pc \in { "pokeStatus", "pokeUrl" } => x.url = l.url

Progress(p) ==
    \A t \in ScenarioIds : \A j \in Positions(t) :
        local[p].sid = t /\ local[p].idx = j => ProgressAt(p, t, j)

BackedInv ==
    /\ \A sid \in ScenarioIds : \A i \in Positions(sid) :
          BackedAt(sid, i) \/ \E p \in Reqs : WorksOn(p, sid, i)
    /\ \A p \in Reqs : Progress(p) /\ local[p].op # "cleanup"

-----------------------------------------------------------------------------
(* The steps of a request on its slot.                                     *)

(* Another step on the slot ...                                            *)
Works(p) ==
    /\ SameRequest(p) /\ local'[p].idx = local[p].idx
    /\ local'[p].pc \notin {"ready", "pick", "finish"}
    /\ \A t, j : local[p].sid = t /\ local[p].idx = j => ProgressAt(p, t, j)'

(* ... or the last one.                                                    *)
Leaves(p) ==
    /\ local'[p] = Ready \/ (SameRequest(p) /\ local'[p].pc = "pick")
    /\ \A t, j : local[p].sid = t /\ local[p].idx = j =>
          BackedAt(t, j)' \/ local'[p].op = "deleteScenario"

LEMMA CreationBacks ==
    ASSUME SystemInv, SerialInv, NEW p \in Reqs, ~ At(p, "ready"), NEW t \in ScenarioIds,
           NEW j \in Positions(t), local[p].sid = t, local[p].idx = j, ProgressAt(p, t, j),
           CreateDeployment(p) \/ CreateService(p) \/ Expose(p)
    PROVE  Works(p) \/ Leaves(p)
<1> DEFINE x == AdapterAt(t, j)
           l == local[p]
           m == local'[p]
<1>1. /\ StoreInv /\ deployments \in [Names -> Deployment \cup {Nil}]
      /\ services \in [Names -> AdapterIds \cup {Nil}]
      /\ apiRules \in [Names -> AdapterIds \cup {Nil}]
  BY DEF SystemInv, HeapInv, ClusterTypeOK
<1>2. x \in AdapterRecord /\ Slot(p) = x
  BY <1>1, LookupFacts DEF Slot
<1>3. UNCHANGED storeVars
  BY LaunchEffects
<1>4. x' = x
  BY <1>3 DEF AdapterAt, storeVars
<1>5. Up(t, j) = (deployments[x.dep] = [owner |-> x.id, replicas |-> 1])
  BY DEF Up
<1> HIDE DEF x
<1>6. CASE CreateDeployment(p)
  <2>1. x.status = "stopped"
    BY <1>6 DEF CreateDeployment, At, ProgressAt, x
  <2>2. PICK ok \in BOOLEAN : /\ CreateAdapterDeployment(x, ok)
                              /\ IF ok THEN Goes(p, "createService") ELSE Advances(p)
    BY <1>2, <1>6, LaunchEffects
  <2>3. CASE ok
    <3>1. deployments'[x.dep] = [owner |-> x.id, replicas |-> 1]
      BY <1>1, <1>2, <2>2, <2>3 DEF CreateAdapterDeployment, Created, AdapterRecord
    <3>2. Goes(p, "createService")
      BY <2>2, <2>3
    <3>3. SameRequest(p) /\ m.idx = j /\ m.pc = "createService"
      BY <3>2, MovesTo
    <3>4. Up(t, j)'
      BY <1>4, <3>1 DEF Up, x
    <3>5. ProgressAt(p, t, j)'
      BY <1>4, <2>1, <3>3, <3>4 DEF ProgressAt, x
    <3>6. QED
      BY <3>3, <3>5 DEF Works
  <2>4. CASE ~ ok
    <3>1. SameRequest(p) /\ m.pc = "pick"
      BY <2>2, <2>4, MovesTo
    <3>2. BackedAt(t, j)'
      BY <1>4, <2>1 DEF BackedAt, x
    <3>3. QED
      BY <3>1, <3>2 DEF Leaves
  <2>5. QED
    BY <2>3, <2>4
<1>7. CASE CreateService(p)
  <2>1. x.status = "stopped" /\ Up(t, j)
    BY <1>7 DEF CreateService, At, ProgressAt, x
  <2>2. PICK ok \in BOOLEAN : /\ CreateAdapterService(x, ok)
                              /\ IF ok THEN Goes(p, "expose") ELSE Advances(p)
    BY <1>2, <1>7, LaunchEffects
  <2>3. CASE ok
    <3>1. services'[x.name] = x.id /\ deployments' = deployments
      BY <1>1, <1>2, <2>2, <2>3 DEF CreateAdapterService, Created, AdapterRecord
    <3>2. Goes(p, "expose")
      BY <2>2, <2>3
    <3>3. SameRequest(p) /\ m.idx = j /\ m.pc = "expose"
      BY <3>2, MovesTo
    <3>4. Up(t, j)' /\ Reached(t, j)'
      BY <1>4, <2>1, <3>1 DEF Up, Reached, x
    <3>5. ProgressAt(p, t, j)'
      BY <1>4, <2>1, <3>3, <3>4 DEF ProgressAt, x
    <3>6. QED
      BY <3>3, <3>5 DEF Works
  <2>4. CASE ~ ok
    <3>1. SameRequest(p) /\ m.pc = "pick"
      BY <2>2, <2>4, MovesTo
    <3>2. BackedAt(t, j)'
      BY <1>4, <2>1 DEF BackedAt, x
    <3>3. QED
      BY <3>1, <3>2 DEF Leaves
  <2>5. QED
    BY <2>3, <2>4
<1>8. CASE Expose(p)
  <2>1. x.status = "stopped" /\ Up(t, j) /\ Reached(t, j)
    BY <1>8 DEF Expose, At, ProgressAt, x
  <2>2. PICK ok \in BOOLEAN :
           /\ IF x.type = Sftp THEN GetLoadBalancerHostname(x, ok)
              ELSE CreateAdapterAPIRule(x, ok)
           /\ m.url = IF ok THEN "public" ELSE "internal"
    BY <1>2, <1>8, LaunchEffects
  <2>3. SameRequest(p) /\ m.pc = "markRunning" /\ m.idx = j
    BY <1>8, LaunchEffects
  <2>4. UNCHANGED <<deployments, services>>
    BY <2>2 DEF GetLoadBalancerHostname, CreateAdapterAPIRule, clusterVars
  <2>5. Up(t, j)' /\ Reached(t, j)'
    BY <1>4, <2>1, <2>4 DEF Up, Reached, x
  <2>6. m.url = "public" /\ x.type # Sftp => apiRules'[x.name] = x.id
    BY <1>1, <1>2, <2>2 DEF CreateAdapterAPIRule, Created, AdapterRecord
  <2>7. ProgressAt(p, t, j)'
    BY <1>4, <2>1, <2>3, <2>5, <2>6 DEF ProgressAt, Exposed, x
  <2>8. QED
    BY <2>3, <2>7 DEF Works
<1>9. QED
  BY <1>6, <1>7, <1>8

(* The bookkeeping of a launch changes status and url.                     *)
LEMMA MarkingBacks ==
    ASSUME SystemInv, SerialInv, NEW p \in Reqs, ~ At(p, "ready"), NEW t \in ScenarioIds,
           NEW j \in Positions(t), local[p].sid = t, local[p].idx = j, ProgressAt(p, t, j),
           MarkRunning(p) \/ SetUrl(p) \/ WriteStatus(p) \/ WriteUrl(p)
    PROVE  Works(p) \/ Leaves(p)
<1> DEFINE x == AdapterAt(t, j)
           l == local[p]
           m == local'[p]
<1>1. StoreInv /\ x \in AdapterRecord /\ Slot(p) = x
  BY LookupFacts DEF Slot, SystemInv, HeapInv
<1>2. UNCHANGED clusterVars
  BY DEF MarkRunning, SetUrl, WriteStatus, WriteUrl, StoreOnly
<1>3. ASSUME NEW y, Written(t, j, y), y.id = x.id, y.name = x.name, y.dep = x.dep,
             y.type = x.type
      PROVE  /\ AdapterAt(t, j)' = y
             /\ Up(t, j)' = Up(t, j) /\ Reached(t, j)' = Reached(t, j)
             /\ Exposed(t, j)' = Exposed(t, j)
  <2>1. AdapterAt(t, j)' = y
    BY <1>3 DEF Written
  <2>2. QED
    BY <1>2, <1>3, <2>1 DEF Up, Reached, Exposed, clusterVars
<1> HIDE DEF x
<1>4. CASE MarkRunning(p)
  <2> DEFINE y == WithStatus(x, "running")
  <2>1. l.pc = "markRunning" /\ Goes(p, "setUrl") /\ Written(t, j, y)
    BY <1>1, <1>4, LaunchEffects, WritesHome DEF MarkRunning, At
  <2>2. y.id = x.id /\ y.name = x.name /\ y.dep = x.dep /\ y.type = x.type
    BY <1>1 DEF WithStatus, AdapterRecord
  <2> HIDE DEF y
  <2>3. SameRequest(p) /\ m.idx = j /\ m.pc = "setUrl" /\ m.url = l.url
    BY <2>1 DEF Goes
  <2>4. Up(t, j)' /\ Reached(t, j)' /\ (m.url = "public" /\ x.type # Sftp => Exposed(t, j)')
    BY <1>3, <2>1, <2>2, <2>3 DEF ProgressAt, x
  <2>5. AdapterAt(t, j)'.type = x.type
    BY <1>3, <2>1, <2>2
  <2>6. ProgressAt(p, t, j)'
    BY <2>3, <2>4, <2>5 DEF ProgressAt
  <2>7. QED
    BY <2>3, <2>6 DEF Works
<1>5. CASE SetUrl(p)
  <2> DEFINE y == [x EXCEPT !.url = l.url]
  <2>1. l.pc = "setUrl" /\ Goes(p, "pokeStatus") /\ Written(t, j, y)
    BY <1>1, <1>5, LaunchEffects, WritesHome DEF SetUrl, At
  <2>2. y.id = x.id /\ y.name = x.name /\ y.dep = x.dep /\ y.type = x.type /\ y.url = l.url
    BY <1>1 DEF AdapterRecord
  <2> HIDE DEF y
  <2>3. SameRequest(p) /\ m.idx = j /\ m.pc = "pokeStatus" /\ m.url = l.url
    BY <2>1 DEF Goes
  <2>4. Up(t, j)' /\ Reached(t, j)' /\ (m.url = "public" /\ x.type # Sftp => Exposed(t, j)')
    BY <1>3, <2>1, <2>2, <2>3 DEF ProgressAt, x
  <2>5. AdapterAt(t, j)'.type = x.type /\ AdapterAt(t, j)'.url = m.url
    BY <1>3, <2>1, <2>2, <2>3
  <2>6. ProgressAt(p, t, j)'
    BY <2>3, <2>4, <2>5 DEF ProgressAt
  <2>7. QED
    BY <2>3, <2>6 DEF Works
<1>6. CASE WriteStatus(p)
  <2> DEFINE y == [x EXCEPT !.status = "running"]
  <2>1. l.pc = "pokeStatus" /\ Goes(p, "pokeUrl") /\ Written(t, j, y)
    BY <1>1, <1>6, LaunchEffects, WritesHome DEF WriteStatus, At
  <2>2. y.id = x.id /\ y.name = x.name /\ y.dep = x.dep /\ y.type = x.type /\ y.url = x.url
    BY <1>1 DEF AdapterRecord
  <2> HIDE DEF y
  <2>3. SameRequest(p) /\ m.idx = j /\ m.pc = "pokeUrl" /\ m.url = l.url
    BY <2>1 DEF Goes
  <2>4. /\ Up(t, j)' /\ Reached(t, j)' /\ (m.url = "public" /\ x.type # Sftp => Exposed(t, j)')
        /\ x.url = l.url
    BY <1>3, <2>1, <2>2, <2>3 DEF ProgressAt, x
  <2>5. AdapterAt(t, j)'.type = x.type /\ AdapterAt(t, j)'.url = m.url
    BY <1>3, <2>1, <2>2, <2>3, <2>4
  <2>6. ProgressAt(p, t, j)'
    BY <2>3, <2>4, <2>5 DEF ProgressAt
  <2>7. QED
    BY <2>3, <2>6 DEF Works
<1>7. CASE WriteUrl(p)
  <2> DEFINE y == [x EXCEPT !.url = l.url]
  <2>1. l.pc = "pokeUrl" /\ Advances(p) /\ Written(t, j, y)
    BY <1>1, <1>7, LaunchEffects, WritesHome DEF WriteUrl, At
  <2>2. y.id = x.id /\ y.name = x.name /\ y.dep = x.dep /\ y.type = x.type /\ y.url = l.url
    BY <1>1 DEF AdapterRecord
  <2> HIDE DEF y
  <2>3. SameRequest(p) /\ m.pc = "pick"
    BY <2>1, MovesTo
  <2>4. Up(t, j)' /\ Reached(t, j)' /\ (l.url = "public" /\ x.type # Sftp => Exposed(t, j)')
    BY <1>3, <2>1, <2>2 DEF ProgressAt, x
  <2>5. AdapterAt(t, j)'.type = x.type /\ AdapterAt(t, j)'.url = l.url
    BY <1>3, <2>1, <2>2
  <2>6. BackedAt(t, j)'
    BY <2>4, <2>5 DEF BackedAt
  <2>7. QED
    BY <2>3, <2>6 DEF Leaves
<1>8. QED
  BY <1>4, <1>5, <1>6, <1>7

(* Stops, updates and deletions: what does not run need not be backed.     *)
LEMMA StoppingBacks ==
    ASSUME SystemInv, SerialInv, ~LocalMode, NEW p \in Reqs, ~ At(p, "ready"),
           NEW t \in ScenarioIds, NEW j \in Positions(t), local[p].sid = t, local[p].idx = j,
           ProgressAt(p, t, j),
           \/ Check(p) \/ Scale(p) \/ MarkStopped(p) \/ RemoveDeployment(p)
           \/ RemoveService(p) \/ RemoveRule(p) \/ Reread(p) \/ ReadKey(p) \/ Write(p)
    PROVE  Works(p) \/ Leaves(p)
<1> DEFINE x == AdapterAt(t, j)
           l == local[p]
           m == local'[p]
<1>1. StoreInv /\ x \in AdapterRecord /\ Slot(p) = x
  BY LookupFacts DEF Slot, SystemInv, HeapInv
<1>2. UNCHANGED storeVars => x' = x
  BY DEF AdapterAt, storeVars
<1>3. l.op \in OpsAt(l.pc) /\ l.name \in Names \cup {Nil} /\ l.key \in Keys
  BY AtWork DEF Sound, Local
<1>4. ASSUME SameRequest(p), m.idx = j,
             \/ m.pc \in { "deleteDeployment", "deleteService", "reread", "deleteRule",
                           "remove", "scale", "markStopped" }
             \/ m.pc \in {"readKey", "write"} /\ AdapterAt(t, j)'.status = "stopped"
      PROVE  Works(p)
  <2>1. ProgressAt(p, t, j)'
    BY <1>4 DEF ProgressAt
  <2>2. QED
    BY <1>4, <2>1 DEF Works
<1>5. AdapterAt(t, j)'.status = "stopped" => BackedAt(t, j)'
  BY DEF BackedAt
<1> HIDE DEF x
<1>6. CASE Check(p)
  <2>1. /\ UNCHANGED storeVars
        /\ \/ Takes(p, "deleteDeployment") \/ Takes(p, "scale") \/ Goes(p, "markStopped")
           \/ Goes(p, "readKey") /\ x.status # "running"
    BY <1>1, <1>6, CheckEffect
  <2>2. /\ SameRequest(p) /\ m.idx = j
        /\ \/ m.pc \in {"deleteDeployment", "scale", "markStopped"}
           \/ m.pc = "readKey" /\ x.status # "running"
    BY <2>1, MovesTo
  <2>3. x.status # "running" => x'.status = "stopped"
    BY <1>1, <1>2, <2>1 DEF AdapterRecord, Statuses
  <2>4. QED
    BY <1>4, <2>2, <2>3 DEF x
<1>7. CASE Scale(p) \/ RemoveDeployment(p)
  <2>1. Goes(p, "markStopped") \/ Goes(p, "deleteService")
    BY <1>7, TeardownEffects
  <2>2. SameRequest(p) /\ m.idx = j /\ m.pc \in {"markStopped", "deleteService"}
    BY <2>1, MovesTo
  <2>3. QED
    BY <1>4, <2>2
<1>8. CASE RemoveService(p)
  <2>1. Goes(p, "markStopped") \/ Goes(p, "reread") \/ Goes(p, "deleteRule")
    BY <1>8, TeardownEffects
  <2>2. SameRequest(p) /\ m.idx = j /\ m.pc \in {"markStopped", "reread", "deleteRule"}
    BY <2>1, MovesTo
  <2>3. QED
    BY <1>4, <2>2
<1>9. CASE RemoveRule(p)
  <2>1. (l.op = "deleteScenario" /\ Advances(p)) \/ Goes(p, "remove")
    BY <1>9, TeardownEffects
  <2>2. /\ SameRequest(p)
        /\ \/ l.op = "deleteScenario" /\ m.pc = "pick"
           \/ m.idx = j /\ m.pc = "remove"
    BY <2>1, MovesTo
  <2>3. QED
    BY <1>4, <2>2 DEF Leaves, SameRequest
<1>10. CASE Reread(p)
  <2>1. Takes(p, "deleteRule")
    BY <1>10, OtherEffects
  <2>2. SameRequest(p) /\ m.idx = j /\ m.pc = "deleteRule"
    BY <2>1, MovesTo
  <2>3. QED
    BY <1>4, <2>2
<1>11. CASE ReadKey(p)
  <2>1. UNCHANGED storeVars /\ SameRequest(p) /\ m.pc = "write" /\ m.idx = j
    BY <1>11, OtherEffects
  <2>2. x.status = "stopped"
    BY <1>11 DEF ReadKey, At, ProgressAt, x
  <2>3. QED
    BY <1>2, <1>4, <2>1, <2>2 DEF x
<1>12. CASE MarkStopped(p)
  <2>1. AdapterAt(t, j)' = WithStatus(x, "stopped")
    BY <1>1, <1>12, WritesHome DEF Written
  <2>2. AdapterAt(t, j)'.status = "stopped"
    BY <1>1, <2>1 DEF WithStatus, AdapterRecord
  <2>3. Advances(p) \/ m = Ready \/ Goes(p, "readKey")
    BY <1>12, OtherEffects
  <2>4. \/ SameRequest(p) /\ m.pc = "pick"
        \/ m = Ready
        \/ SameRequest(p) /\ m.pc = "readKey" /\ m.idx = j
    BY <2>3, MovesTo
  <2>5. QED
    BY <1>4, <1>5, <2>2, <2>4 DEF Leaves
<1>13. CASE Write(p)
  <2>1. AdapterAt(t, j)' = [x EXCEPT !.name = IF l.name = Nil THEN @ ELSE l.name, !.key = l.key]
    BY <1>1, <1>13, WritesHome DEF Written
  <2>2. x.status = "stopped"
    BY <1>13 DEF Write, At, ProgressAt, x
  <2>3. AdapterAt(t, j)'.status = "stopped"
    BY <1>1, <2>1, <2>2 DEF AdapterRecord
  <2>4. m = Ready
    BY <1>13, OtherEffects
  <2>5. QED
    BY <1>5, <2>3, <2>4 DEF Leaves
<1>14. QED
  BY <1>6, <1>7, <1>8, <1>9, <1>10, <1>11, <1>12, <1>13

(* Two adapters of the store have no name in common.                       *)
LEMMA SlotsApart ==
    ASSUME SystemInv, NamesInv, OneClaim, ~LocalMode, NEW s \in ScenarioIds,
           NEW t \in ScenarioIds, NEW i \in Positions(s), NEW j \in Positions(t),
           ~ (s = t /\ i = j)
    PROVE  NamesOf(AdapterAt(s, i)) \cap NamesOf(AdapterAt(t, j)) = {}
<1>1. CASE s = t
  BY <1>1 DEF NamesInv
<1>2. CASE s # t
  <2>1. ASSUME NEW r \in ScenarioIds, NEW k \in Positions(r)
        PROVE  /\ AdapterAt(r, k) \in AdapterRecord /\ AdapterAt(r, k).id[1] = r
               /\ \A n \in NamesOf(AdapterAt(r, k)) : n \in Names /\ Claims(n, r)
    <3>1. /\ StoreInv /\ Homes
          /\ AdapterAt(r, k) \in AdapterRecord
          /\ Arr(r) \in Arrays /\ k \in 1 .. Len(array[Arr(r)])
          /\ AdapterAt(r, k) = array[Arr(r)][k] /\ Holds(r)
      BY SlotFacts, LookupFacts DEF SystemInv, HeapInv, Positions
    <3>2. AdapterAt(r, k) # Nil /\ Arr(r) # NoArray
      BY <3>1, NilAssumption, ConstantsAssumption DEF AdapterRecord, Arrays, NoArray
    <3>3. AdapterAt(r, k).id[1] = r
      BY <3>1, <3>2 DEF Homes, Arr
    <3>4. AdapterAt(r, k) \in Seen
      BY DEF Seen
    <3>5. QED
      BY <3>1, <3>3, <3>4 DEF NamesOf, Claims, AdapterRecord
  <2>2. QED
    BY <1>2, <2>1 DEF OneClaim
<1>3. QED
  BY <1>1, <1>2

(* What a request changes in the cluster has the names of its slot.        *)
Reaches(p) ==
    /\ UNCHANGED storeVars
    /\ local[p].sid \in ScenarioIds /\ local[p].idx \in Positions(local[p].sid)
    /\ \A n \in Names :
          /\ n # Slot(p).dep => deployments'[n] = deployments[n]
          /\ n # Slot(p).name => services'[n] = services[n] /\ apiRules'[n] = apiRules[n]

LEMMA ClusterReach ==
    ASSUME SystemInv, SerialInv, NEW p \in Reqs, Continue(p), local[p].op # "cleanup"
    PROVE  UNCHANGED clusterVars \/ Reaches(p)
<1> DEFINE l == local[p]
<1>1. /\ ~ At(p, "ready") /\ l.op \in OpsAt(l.pc)
      /\ ClusterTypeOK
  BY ContinueCases, AtWork DEF Sound, SystemInv
<1>2. /\ deployments \in [Names -> Deployment \cup {Nil}]
      /\ services \in [Names -> AdapterIds \cup {Nil}]
      /\ apiRules \in [Names -> AdapterIds \cup {Nil}]
  BY <1>1 DEF ClusterTypeOK
<1>3. ASSUME l.pc \in Calls
      PROVE  /\ l.sid \in ScenarioIds /\ l.idx \in Positions(l.sid)
             /\ Slot(p) \in AdapterRecord
  <2>1. l.op \in AdapterOps \/ (l.op \in LoopOps /\ l.pc \notin {"pick", "finish"})
    BY <1>1, <1>3 DEF OpsAt, Calls, LoopOps, AdapterOps
  <2>2. QED
    BY <1>1, <2>1, AtWork DEF OnSlot
<1>4. ASSUME NEW x \in AdapterRecord
      PROVE  /\ \A ok \in BOOLEAN :
                   /\ CreateAdapterDeployment(x, ok) =>
                         /\ \A n \in Names : n # x.dep => deployments'[n] = deployments[n]
                         /\ services' = services /\ apiRules' = apiRules
                   /\ CreateAdapterService(x, ok) =>
                         /\ \A n \in Names : n # x.name => services'[n] = services[n]
                         /\ deployments' = deployments /\ apiRules' = apiRules
                   /\ CreateAdapterAPIRule(x, ok) =>
                         /\ \A n \in Names : n # x.name => apiRules'[n] = apiRules[n]
                         /\ deployments' = deployments /\ services' = services
             /\ StopAdapterDeployment(x) \/ DeleteDeployment(x) =>
                   /\ \A n \in Names : n # x.dep => deployments'[n] = deployments[n]
                   /\ services' = services /\ apiRules' = apiRules
             /\ DeleteService(x) =>
                   /\ \A n \in Names : n # x.name => services'[n] = services[n]
                   /\ deployments' = deployments /\ apiRules' = apiRules
             /\ DeleteAdapterAPIRule(x) =>
                   /\ \A n \in Names : n # x.name => apiRules'[n] = apiRules[n]
                   /\ deployments' = deployments /\ services' = services
  <2>1. /\ \A ok \in BOOLEAN : \A v : deployments' \in Created(deployments, x.dep, v, ok) =>
              \A n \in Names : n # x.dep => deployments'[n] = deployments[n]
        /\ \A ok \in BOOLEAN : \A v : services' \in Created(services, x.name, v, ok) =>
              \A n \in Names : n # x.name => services'[n] = services[n]
        /\ \A ok \in BOOLEAN : \A v : apiRules' \in Created(apiRules, x.name, v, ok) =>
              \A n \in Names : n # x.name => apiRules'[n] = apiRules[n]
    BY <1>2 DEF Created
  <2>2. /\ deployments' \in Removed(deployments, x.dep) =>
              \A n \in Names : n # x.dep => deployments'[n] = deployments[n]
        /\ services' \in Removed(services, x.name) =>
              \A n \in Names : n # x.name => services'[n] = services[n]
        /\ apiRules' \in Removed(apiRules, x.name) =>
              \A n \in Names : n # x.name => apiRules'[n] = apiRules[n]
    BY <1>2 DEF Removed
  <2>3. StopAdapterDeployment(x) =>
           \A n \in Names : n # x.dep => deployments'[n] = deployments[n]
    BY <1>2 DEF StopAdapterDeployment
  <2>4. QED
    BY <2>1, <2>2, <2>3 DEF CreateAdapterDeployment, CreateAdapterService,
       CreateAdapterAPIRule, StopAdapterDeployment, DeleteDeployment, DeleteService,
       DeleteAdapterAPIRule
<1>5. CASE CreateDeployment(p) \/ CreateService(p)
  <2>1. l.pc \in Calls
    BY <1>5 DEF CreateDeployment, CreateService, At, Calls
  <2>2. /\ UNCHANGED storeVars
        /\ \E ok \in BOOLEAN : \/ CreateAdapterDeployment(Slot(p), ok)
                               \/ CreateAdapterService(Slot(p), ok)
    BY <1>5, LaunchEffects
  <2>3. QED
    BY <1>3, <1>4, <2>1, <2>2 DEF Reaches
<1>6. CASE Expose(p)
  <2>1. l.pc \in Calls
    BY <1>6 DEF Expose, At, Calls
  <2>2. /\ UNCHANGED storeVars
        /\ \E ok \in BOOLEAN : \/ GetLoadBalancerHostname(Slot(p), ok)
                               \/ CreateAdapterAPIRule(Slot(p), ok)
    BY <1>6, LaunchEffects
  <2>3. \A ok : GetLoadBalancerHostname(Slot(p), ok) => UNCHANGED clusterVars
    BY DEF GetLoadBalancerHostname
  <2>4. QED
    BY <1>3, <1>4, <2>1, <2>2, <2>3 DEF Reaches
<1>7. CASE Scale(p) \/ RemoveDeployment(p) \/ RemoveService(p) \/ RemoveRule(p)
  <2>1. l.pc \in Calls
    BY <1>7 DEF Scale, RemoveDeployment, RemoveService, RemoveRule, At, Calls
  <2>2. /\ UNCHANGED storeVars
        /\ \/ StopAdapterDeployment(Slot(p)) \/ DeleteDeployment(Slot(p))
           \/ DeleteService(Slot(p)) \/ DeleteAdapterAPIRule(Slot(p))
    BY <1>7, TeardownEffects
  <2>3. QED
    BY <1>3, <1>4, <2>1, <2>2 DEF Reaches
<1>8. CASE Pick(p) \/ Check(p) \/ Reread(p) \/ ReadKey(p)
  BY <1>8 DEF Pick, Check, Reread, ReadKey, LocalOnly, clusterVars
<1>9. CASE MarkRunning(p) \/ SetUrl(p) \/ WriteStatus(p) \/ WriteUrl(p) \/ MarkStopped(p)
           \/ Write(p) \/ Finish(p) \/ RemoveAdapter(p)
  BY <1>9 DEF MarkRunning, SetUrl, WriteStatus, WriteUrl, MarkStopped, Write, Finish,
     RemoveAdapter, StoreOnly, clusterVars
<1>10. ~ SweepTheRest(p)
  BY OtherEffects
<1>11. QED
  BY <1>5, <1>6, <1>7, <1>8, <1>9, <1>10 DEF Continue

(* Where nothing happens but the passage of time.                          *)
LEMMA FollowsBacked ==
    ASSUME UNCHANGED clusterVars, NEW t, NEW j, NEW k,
           Same(AdapterAt(t, j)', AdapterAt(t, k)), BackedAt(t, k)
    PROVE  BackedAt(t, j)'
BY DEF BackedAt, Up, Reached, Exposed, Same, Agree, clusterVars

(* What belongs to an adapter elsewhere is left alone.                     *)
LEMMA ElsewhereSpared ==
    ASSUME SystemInv, SerialInv, NamesInv, OneClaim, ~LocalMode, NEW p \in Reqs, Continue(p),
           local[p].op # "cleanup", NEW t \in ScenarioIds, NEW j \in Positions(t),
           ~ (local[p].sid = t /\ local[p].idx = j)
    PROVE  LET x == AdapterAt(t, j)
           IN  /\ deployments'[x.dep] = deployments[x.dep]
               /\ services'[x.name] = services[x.name] /\ apiRules'[x.name] = apiRules[x.name]
<1>1. CASE UNCHANGED clusterVars
  BY <1>1 DEF clusterVars
<1>2. CASE Reaches(p)
  <2>1. PICK s \in ScenarioIds : local[p].sid = s
    BY <1>2 DEF Reaches
  <2>2. PICK i \in Positions(s) : local[p].idx = i
    BY <1>2, <2>1 DEF Reaches
  <2>3. Slot(p) = AdapterAt(s, i)
    BY <2>1, <2>2 DEF Slot
  <2>4. NamesOf(AdapterAt(s, i)) \cap NamesOf(AdapterAt(t, j)) = {}
    BY <2>1, <2>2, SlotsApart
  <2>5. AdapterAt(t, j) \in AdapterRecord
    BY LookupFacts DEF SystemInv, HeapInv
  <2> DEFINE x == AdapterAt(t, j)
  <2>6. x.dep \in Names /\ x.name \in Names /\ x.dep # Slot(p).dep /\ x.name # Slot(p).name
    BY <2>3, <2>4, <2>5 DEF NamesOf, AdapterRecord
  <2>7. QED
    BY <1>2, <2>6 DEF Reaches
<1>3. QED
  BY <1>1, <1>2, ClusterReach

LEMMA ElsewhereBacked ==
    ASSUME SystemInv, SerialInv, NamesInv, OneClaim, ~LocalMode, NEW p \in Reqs, Continue(p),
           local[p].op # "cleanup", NEW t \in ScenarioIds, NEW j \in Positions(t),
           ~ (local[p].sid = t /\ local[p].idx = j), AdapterAt(t, j)' = AdapterAt(t, j),
           BackedAt(t, j)
    PROVE  BackedAt(t, j)'
BY ElsewhereSpared DEF BackedAt, Up, Reached, Exposed

(* A step of a request that stays with its adapter or leaves it.           *)
LEMMA SlotStepBacks ==
    ASSUME SystemInv, SerialInv, NamesInv, OneClaim, ~LocalMode, Rested, BackedInv,
           NEW p \in Reqs, Continue(p), ~ At(p, "finish"), NEW t \in ScenarioIds,
           NEW j \in Positions(t), local[p].sid = t, local[p].idx = j, SameSlots,
           \A u \in ScenarioIds : \A k \in Positions(u) :
              ~ (u = t /\ k = j) => AdapterAt(u, k)' = AdapterAt(u, k),
           Works(p) \/ Leaves(p)
    PROVE  BackedInv'
<1> DEFINE l == local[p]
           m == local'[p]
<1>1. /\ ~ At(p, "ready") /\ OthersWait(p)
      /\ \A q \in Reqs \ {p} : local'[q].pc = "ready" /\ local'[q].op = Nil
      /\ l.op # "cleanup"
  BY ContinueCases DEF BackedInv
<1>2. \A q \in Reqs \ {p} : local[q] = Ready
  BY <1>1, AtWork DEF Rested
<1>3. /\ \A u \in ScenarioIds : \A k : \A q \in Reqs \ {p} : ~ WorksOn(q, u, k)
      /\ Nil # "deleteScenario" /\ Nil # "cleanup"
  BY <1>2, NilAssumption, ControlPlaneAssumption DEF WorksOn, Ready, AllOps
<1>4. m = Ready \/ (SameRequest(p) /\ m.sid = t /\ m.op = l.op)
  BY MovesTo DEF Works, Leaves
<1>5. l.op = "deleteScenario" => SameRequest(p)
  BY LoopEnds DEF LoopOps, Finish
<1>6. ASSUME NEW u \in ScenarioIds, NEW k \in Positions(u)'
      PROVE  BackedAt(u, k)' \/ \E q \in Reqs : WorksOn(q, u, k)'
  <2>1. k \in Positions(u)
    BY <1>6, SamePositions
  <2>2. CASE u = t /\ k = j
    <3>1. CASE Works(p)
      BY <1>4, <2>2, <3>1, MovesTo DEF Works, WorksOn
    <3>2. CASE Leaves(p)
      <4>1. BackedAt(t, j)' \/ m.op = "deleteScenario"
        BY <3>2 DEF Leaves
      <4>2. m.op = "deleteScenario" => WorksOn(p, u, k)'
        BY <1>3, <1>4, <2>2 DEF WorksOn, Ready
      <4>3. QED
        BY <2>2, <4>1, <4>2
    <3>3. QED
      BY <3>1, <3>2
  <2>3. CASE ~ (u = t /\ k = j)
    <3>1. CASE BackedAt(u, k)
      BY <1>1, <2>1, <2>3, <3>1, ElsewhereBacked
    <3>2. CASE ~ BackedAt(u, k)
      <4>1. PICK q \in Reqs : WorksOn(q, u, k)
        BY <2>1, <3>2 DEF BackedInv
      <4>2. q = p
        BY <1>3, <4>1
      <4>3. l.sid = u /\ l.op = "deleteScenario"
        BY <2>3, <4>1, <4>2 DEF WorksOn
      <4>4. WorksOn(p, u, k)'
        BY <1>4, <1>5, <4>3 DEF WorksOn, SameRequest
      <4>5. QED
        BY <4>4
    <3>3. QED
      BY <3>1, <3>2
  <2>4. QED
    BY <2>2, <2>3
<1>7. ASSUME NEW q \in Reqs
      PROVE  Progress(q)' /\ local'[q].op # "cleanup"
  <2>1. CASE q # p
    BY <1>1, <1>3, <2>1 DEF Progress, ProgressAt
  <2>2. CASE q = p /\ Works(p)
    <3>1. \A u \in ScenarioIds : \A k \in Positions(u)' :
             m.sid = u /\ m.idx = k => ProgressAt(p, u, k)'
      BY <2>2, MovesTo DEF Works
    <3>2. m.op = l.op
      BY <2>2, MovesTo DEF Works
    <3>3. QED
      BY <1>1, <2>2, <3>1, <3>2 DEF Progress
  <2>3. CASE q = p /\ Leaves(p)
    <3>1. m.pc \in {"ready", "pick"} /\ m.op \in {Nil, l.op}
      BY <2>3, MovesTo DEF Leaves
    <3>2. QED
      BY <1>1, <1>3, <2>3, <3>1 DEF Progress, ProgressAt
  <2>4. QED
    BY <2>1, <2>2, <2>3
<1>8. QED
  BY <1>6, <1>7 DEF BackedInv

(* A request chooses its next adapter.                                     *)
LEMMA PickBacks ==
    ASSUME SystemInv, SerialInv, ~LocalMode, Rested, BackedInv, NEW p \in Reqs, Pick(p)
    PROVE  BackedInv'
<1> DEFINE l == local[p]
           m == local'[p]
<1>1. /\ Continue(p) /\ At(p, "pick") /\ ~ At(p, "ready")
      /\ UNCHANGED clusterVars
  BY DEF Continue, Pick, At, LocalOnly
<1>2. /\ l.op \in LoopOps \ {"idle"} /\ UNCHANGED storeVars /\ OthersWait(p)
      /\ \/ Goes(p, "finish")
         \/ /\ l.idx \in Positions(l.sid)
            /\ IF Wanted(l.op, Slot(p)) THEN Takes(p, FirstStep(l.op)) ELSE Advances(p)
  BY PickEffect
<1>3. /\ \A q \in Reqs \ {p} : local[q] = Ready /\ local'[q] = Ready
      /\ l.op # "cleanup"
  BY <1>1, <1>2, AtWork DEF Rested, BackedInv, OthersWait
<1>4. /\ \A u \in ScenarioIds : \A k : \A q \in Reqs \ {p} : ~ WorksOn(q, u, k)
      /\ Nil # "cleanup"
  BY <1>3, NilAssumption, ControlPlaneAssumption DEF WorksOn, Ready, AllOps
<1>5. SameRequest(p) /\ m.op = l.op /\ m.sid = l.sid
  BY <1>2, MovesTo
<1>6. \A u, k : AdapterAt(u, k)' = AdapterAt(u, k) /\ Positions(u)' = Positions(u)
  BY <1>2 DEF AdapterAt, Positions, Holds, storeVars
<1>7. ASSUME NEW u \in ScenarioIds, NEW k \in Positions(u)'
      PROVE  BackedAt(u, k)' \/ \E q \in Reqs : WorksOn(q, u, k)'
  <2>1. k \in Positions(u) /\ Same(AdapterAt(u, k)', AdapterAt(u, k))
    BY <1>6, <1>7 DEF Same, Agree
  <2>2. CASE BackedAt(u, k)
    BY <1>1, <2>1, <2>2, FollowsBacked
  <2>3. CASE ~ BackedAt(u, k)
    <3>1. WorksOn(p, u, k)
      BY <1>4, <2>1, <2>3 DEF BackedInv
    <3>2. l.op = "deleteScenario" /\ l.sid = u
      BY <1>1, <3>1 DEF WorksOn, At
    <3>3. WorksOn(p, u, k)'
      BY <1>5, <3>2 DEF WorksOn
    <3>4. QED
      BY <3>3
  <2>4. QED
    BY <2>2, <2>3
<1>8. Progress(p)'
  <2>1. CASE m.pc \in {"finish", "pick"}
    BY <2>1 DEF Progress, ProgressAt
  <2>2. CASE Takes(p, FirstStep(l.op)) /\ Wanted(l.op, Slot(p))
    <3>1. m.pc = FirstStep(l.op) /\ m.idx = l.idx
      BY <2>2, MovesTo
    <3>2. CASE l.op = "launch"
      <4>1. m.pc = "createDeployment" /\ Slot(p).status = "stopped"
        BY <2>2, <3>1, <3>2 DEF FirstStep, Wanted
      <4>2. \A u \in ScenarioIds : \A k \in Positions(u)' :
               m.sid = u /\ m.idx = k => AdapterAt(u, k)'.status = "stopped"
        BY <1>5, <1>6, <3>1, <4>1 DEF Slot
      <4>3. QED
        BY <4>1, <4>2 DEF Progress, ProgressAt
    <3>3. CASE l.op # "launch"
      <4>1. m.pc \in {"scale", "deleteDeployment"}
        BY <1>2, <3>1, <3>3 DEF FirstStep, LoopOps
      <4>2. QED
        BY <4>1 DEF Progress, ProgressAt
    <3>4. QED
      BY <3>2, <3>3
  <2>3. QED
    BY <1>2, <2>1, <2>2, MovesTo
<1>9. \A q \in Reqs \ {p} : Progress(q)' /\ local'[q].op # "cleanup"
  BY <1>3, <1>4 DEF Progress, ProgressAt, Ready
<1>10. QED
  BY <1>3, <1>5, <1>7, <1>8, <1>9 DEF BackedInv

(* A request that is done: an adapter or its whole scenario may be gone,   *)
(* and those that are left are ones that it did not work on.               *)
LEMMA RemovalFollows ==
    ASSUME SystemInv, SerialInv, NEW p \in Reqs, RemoveAdapter(p), NEW u \in ScenarioIds,
           NEW k \in Positions(u)'
    PROVE  \E f \in Positions(u) :
              AdapterAt(u, k)' = AdapterAt(u, f) /\ ~ WorksOn(p, u, f)
<1> DEFINE l == local[p]
<1>1. ~ At(p, "ready")
  BY DEF RemoveAdapter, At
<1>2. Vacated(l.sid, l.idx) /\ l.op = "deleteAdapter"
  <2>1. l.op \in OpsAt(l.pc)
    BY <1>1, AtWork DEF Sound
  <2>2. QED
    BY <2>1, WritesHome DEF RemoveAdapter, At, OpsAt
<1>3. PICK s \in ScenarioIds : l.sid = s
  BY <1>1, <1>2, AtWork DEF AdapterOps
<1>4. l.idx \in Positions(s) /\ l.idx \in Nat /\ StoreInv
  BY <1>1, <1>2, <1>3, AtWork DEF AdapterOps, OnSlot, SystemInv, HeapInv
<1> DEFINE f == IF u = s /\ k >= l.idx THEN k + 1 ELSE k
<1>5. AdapterAt(u, k)' = AdapterAt(u, f)
  BY <1>2, <1>3 DEF Vacated
<1>6. f \in Positions(u) /\ ~ (u = s /\ f = l.idx)
  <2>1. catalog' = catalog /\ Size(u)' = IF u = s THEN Size(u) - 1 ELSE Size(u)
    BY <1>2, <1>3 DEF Vacated, Holds, Positions
  <2>2. Holds(u) /\ k \in 1 .. Size(u)'
    BY <2>1 DEF Positions, Holds, Size
  <2>3. Positions(u) = 1 .. Size(u) /\ Size(u) \in Nat
    BY <1>4, <2>2, SlotFacts
  <2>4. QED
    BY <1>4, <2>1, <2>2, <2>3
<1> HIDE DEF f
<1>7. ~ WorksOn(p, u, f)
  BY <1>2, <1>3, <1>6 DEF WorksOn
<1>8. QED
  BY <1>5, <1>6, <1>7

LEMMA FinishFollows ==
    ASSUME SystemInv, SerialInv, NEW p \in Reqs, Finish(p), NEW u \in ScenarioIds,
           NEW k \in Positions(u)'
    PROVE  k \in Positions(u) /\ AdapterAt(u, k)' = AdapterAt(u, k) /\ ~ WorksOn(p, u, k)
<1> DEFINE l == local[p]
<1>1. At(p, "finish")
  BY DEF Finish
<1>2. CASE l.op \in {"launch", "stop"} /\ SameAdapters
  <2>1. k \in Positions(u)
    BY <1>2, SamePositions DEF SameAdapters
  <2>2. AdapterAt(u, k)' = AdapterAt(u, k)
    BY <1>2, <2>1 DEF SameAdapters
  <2>3. ~ WorksOn(p, u, k)
    BY <1>1, <1>2 DEF WorksOn, At
  <2>4. QED
    BY <2>1, <2>2, <2>3
<1>3. CASE l.op = "deleteScenario" /\ Dropped(l.sid)
  <2>1. u # l.sid /\ catalog'[u] = catalog[u] /\ UNCHANGED <<object, array>>
    BY <1>3 DEF Dropped, Positions, Holds
  <2>2. QED
    BY <2>1 DEF WorksOn, Positions, Holds, AdapterAt
<1>4. QED
  BY <1>2, <1>3, FinishEffect

LEMMA LastBacks ==
    ASSUME SystemInv, SerialInv, ~LocalMode, Rested, BackedInv, NEW p \in Reqs,
           RemoveAdapter(p) \/ Finish(p)
    PROVE  BackedInv'
<1> DEFINE l == local[p]
           m == local'[p]
<1>1. Continue(p) /\ UNCHANGED clusterVars
  BY DEF Continue, RemoveAdapter, Finish, StoreOnly, clusterVars
<1>2. /\ ~ At(p, "ready") /\ OthersWait(p) /\ m = Ready
  BY <1>1, ContinueCases, OtherEffects
<1>3. /\ \A q \in Reqs \ {p} : local[q] = Ready
      /\ \A q \in Reqs : local'[q] = Ready
  BY <1>2, AtWork DEF Rested, OthersWait
<1>4. /\ \A u \in ScenarioIds : \A k : \A q \in Reqs \ {p} : ~ WorksOn(q, u, k)
      /\ Nil # "cleanup"
  BY <1>3, NilAssumption, ControlPlaneAssumption DEF WorksOn, Ready, AllOps
<1>5. \A q \in Reqs : Progress(q)' /\ local'[q].op # "cleanup"
  BY <1>3, <1>4 DEF Progress, ProgressAt, Ready
<1>6. ASSUME NEW u \in ScenarioIds, NEW k \in Positions(u)'
      PROVE  BackedAt(u, k)'
  <2>1. PICK f \in Positions(u) : AdapterAt(u, k)' = AdapterAt(u, f) /\ ~ WorksOn(p, u, f)
    BY <1>6, RemovalFollows, FinishFollows
  <2>2. BackedAt(u, f)
    BY <1>4, <2>1 DEF BackedInv
  <2>3. Same(AdapterAt(u, k)', AdapterAt(u, f))
    BY <2>1 DEF Same, Agree
  <2>4. QED
    BY <1>1, <2>2, <2>3, FollowsBacked
<1>7. QED
  BY <1>5, <1>6 DEF BackedInv

LEMMA ContinueBacked ==
    ASSUME SystemInv, SerialInv, NamesInv, OneClaim, ~LocalMode, Rested, BackedInv,
           NEW p \in Reqs, Continue(p)
    PROVE  BackedInv'
<1> DEFINE l == local[p]
<1>1. ~ At(p, "ready") /\ l.op # "cleanup" /\ l.op \in OpsAt(l.pc)
  BY ContinueCases, AtWork DEF BackedInv, Sound
<1>2. ~ SweepTheRest(p)
  BY <1>1, OtherEffects
<1>3. ASSUME NEW pc, At(p, pc),
             pc \in {"createDeployment", "createService", "expose", "markRunning", "setUrl",
                     "pokeStatus", "pokeUrl", "check", "scale", "markStopped",
                     "deleteDeployment", "deleteService", "deleteRule", "reread",
                     "readKey", "write"},
             UNCHANGED storeVars \/ \E x : Written(l.sid, l.idx, x),
             \A t \in ScenarioIds : \A j \in Positions(t) :
                l.sid = t /\ l.idx = j /\ ProgressAt(p, t, j) => Works(p) \/ Leaves(p)
      PROVE  BackedInv'
  <2>1. l.op \in AdapterOps \/ (l.op \in LoopOps /\ l.pc \notin {"pick", "finish"})
    BY <1>1, <1>3 DEF OpsAt, At, LoopOps, AdapterOps
  <2>2. PICK t \in ScenarioIds : l.sid = t
    BY <1>1, <2>1, AtWork
  <2>3. PICK j \in Positions(t) : l.idx = j
    BY <1>1, <2>1, <2>2, AtWork DEF OnSlot
  <2>4. ProgressAt(p, t, j)
    BY <2>2, <2>3 DEF BackedInv, Progress
  <2>5. /\ SameSlots
        /\ \A u \in ScenarioIds : \A k \in Positions(u) :
              ~ (u = t /\ k = j) => AdapterAt(u, k)' = AdapterAt(u, k)
    BY <1>3, <2>2, <2>3, UnchangedAdapters DEF Written, SameAdapters
  <2>6. ~ At(p, "finish")
    BY <1>3 DEF At
  <2>7. QED
    BY <1>3, <2>2, <2>3, <2>4, <2>5, <2>6, SlotStepBacks
<1>4. CASE Pick(p)
  BY <1>4, PickBacks
<1>5. CASE RemoveAdapter(p) \/ Finish(p)
  BY <1>5, LastBacks
<1>6. CASE CreateDeployment(p) \/ CreateService(p) \/ Expose(p)
  <2>1. At(p, "createDeployment") \/ At(p, "createService") \/ At(p, "expose")
    BY <1>6 DEF CreateDeployment, CreateService, Expose
  <2>2. UNCHANGED storeVars
    BY <1>6, LaunchEffects
  <2>3. QED
    BY <1>1, <1>3, <1>6, <2>1, <2>2, CreationBacks
<1>7. CASE MarkRunning(p) \/ SetUrl(p) \/ WriteStatus(p) \/ WriteUrl(p)
  <2>1. \/ At(p, "markRunning") \/ At(p, "setUrl") \/ At(p, "pokeStatus") \/ At(p, "pokeUrl")
    BY <1>7 DEF MarkRunning, SetUrl, WriteStatus, WriteUrl
  <2>2. \E x : Written(l.sid, l.idx, x)
    BY <1>7, WritesHome
  <2>3. QED
    BY <1>1, <1>3, <1>7, <2>1, <2>2, MarkingBacks
<1>8. CASE \/ Check(p) \/ Scale(p) \/ MarkStopped(p) \/ RemoveDeployment(p)
           \/ RemoveService(p) \/ RemoveRule(p) \/ Reread(p) \/ ReadKey(p) \/ Write(p)
  <2>1. \/ At(p, "check") \/ At(p, "scale") \/ At(p, "markStopped") \/ At(p, "deleteDeployment")
        \/ At(p, "deleteService") \/ At(p, "deleteRule") \/ At(p, "reread")
        \/ At(p, "readKey") \/ At(p, "write")
    BY <1>8 DEF Check, Scale, MarkStopped, RemoveDeployment, RemoveService, RemoveRule,
       Reread, ReadKey, Write
  <2>2. UNCHANGED storeVars \/ \E x : Written(l.sid, l.idx, x)
    BY <1>8, CheckEffect, TeardownEffects, OtherEffects, WritesHome
  <2>3. QED
    BY <1>1, <1>3, <1>8, <2>1, <2>2, StoppingBacks
<1>9. QED
  BY <1>2, <1>4, <1>5, <1>6, <1>7, <1>8 DEF Continue

(* The steps around it.                                                    *)
LEMMA SurroundingsBacked ==
    ASSUME SystemInv, SerialInv, OneByOne, "idle" \notin Ops, Rested, BackedInv, Surroundings
    PROVE  BackedInv'
<1>1. /\ \A q \in Reqs : local'[q] = local[q]
      /\ UNCHANGED clusterVars
      /\ Untouched \/ (Grows /\ Quiet)
  BY CalmSurroundings
<1>2. \A q \in Reqs : local'[q].op # "cleanup"
  BY <1>1 DEF BackedInv
<1>3. \A q \in Reqs : \A t, j : WorksOn(q, t, j) => WorksOn(q, t, j)'
  BY <1>1 DEF WorksOn
<1>4. \A x, y : x = y => Same(x, y)
  BY DEF Same, Agree
<1>5. CASE Untouched
  <2>1. SameSlots
    BY <1>5 DEF Untouched
  <2>2. ASSUME NEW u \in ScenarioIds, NEW k \in Positions(u)'
        PROVE  k \in Positions(u) /\ Same(AdapterAt(u, k)', AdapterAt(u, k))
    BY <1>5, <2>1, <2>2, SamePositions DEF Untouched
  <2>3. ASSUME NEW u \in ScenarioIds, NEW k \in Positions(u)'
        PROVE  BackedAt(u, k)' \/ \E q \in Reqs : WorksOn(q, u, k)'
    <3>1. BackedAt(u, k) => BackedAt(u, k)'
      BY <1>1, <2>2, <2>3, FollowsBacked
    <3>2. BackedAt(u, k) \/ \E q \in Reqs : WorksOn(q, u, k)
      BY <2>2, <2>3 DEF BackedInv
    <3>3. QED
      BY <1>3, <3>1, <3>2
  <2>4. ASSUME NEW q \in Reqs, NEW u \in ScenarioIds, NEW k \in Positions(u)',
               local'[q].sid = u, local'[q].idx = k
        PROVE  ProgressAt(q, u, k)'
    <3>1. /\ ProgressAt(q, u, k) /\ local'[q] = local[q]
          /\ Same(AdapterAt(u, k)', AdapterAt(u, k))
      BY <1>1, <2>2, <2>4 DEF BackedInv, Progress
    <3>2. /\ Up(u, k) => Up(u, k)'
          /\ Reached(u, k) => Reached(u, k)'
          /\ Exposed(u, k) => Exposed(u, k)'
      BY <1>1, <3>1 DEF Up, Reached, Exposed, Same, Agree, clusterVars
    <3>3. QED
      BY <3>1, <3>2 DEF ProgressAt, Same, Agree
  <2>5. QED
    BY <1>2, <2>3, <2>4 DEF BackedInv, Progress
<1>6. CASE Grows /\ Quiet
  <2>1. \A q \in Reqs : local[q] = Ready /\ local'[q] = Ready
    BY <1>1, <1>6 DEF Quiet, Rested
  <2>2. ASSUME NEW u \in ScenarioIds, NEW k \in Positions(u)'
        PROVE  BackedAt(u, k)'
    <3>1. CASE k \in Positions(u)
      <4>1. BackedAt(u, k)
        BY <2>1, <3>1, NilAssumption, ControlPlaneAssumption
           DEF BackedInv, WorksOn, Ready, AllOps
      <4>2. AdapterAt(u, k)' = AdapterAt(u, k)
        BY <1>6, <3>1 DEF Grows
      <4>3. QED
        BY <1>1, <1>4, <4>1, <4>2, FollowsBacked
    <3>2. CASE k \notin Positions(u)
      <4>1. AdapterAt(u, k)'.status = "stopped"
        BY <1>6, <2>2, <3>2 DEF Grows
      <4>2. QED
        BY <4>1 DEF BackedAt
    <3>3. QED
      BY <3>1, <3>2
  <2>3. \A q \in Reqs : Progress(q)'
    BY <2>1 DEF Progress, ProgressAt, Ready
  <2>4. QED
    BY <1>2, <2>2, <2>3 DEF BackedInv
<1>7. QED
  BY <1>1, <1>5, <1>6

LEMMA BackedStep ==
    ASSUME SystemInv, SerialInv, NamesInv, OneClaim, OneByOne, ~LocalMode, Rested,
           "idle" \notin Ops, "cleanup" \notin Ops, BackedInv, [Next]_vars
    PROVE  BackedInv'
<1>1. \A x, y : x = y => Same(x, y)
  BY DEF Same, Agree
<1>2. ASSUME NEW p \in Reqs, Begin(p)
      PROVE  BackedInv'
  <2>1. /\ Quiet /\ UNCHANGED storeVars
        /\ \A q \in Processes \ {p} : local'[q] = local[q]
        /\ BeginsLoop(p) \/ BeginsAdapter(p) \/ BeginsCleanup(p)
    BY <1>2, BeginEffect
  <2>2. /\ UNCHANGED clusterVars
        /\ local'[p].pc \in {"pick", "check"} /\ local'[p].op # "cleanup"
    <3>1. BeginsLoop(p) => /\ UNCHANGED clusterVars /\ local'[p].pc = "pick"
                           /\ local'[p].op \in {"launch", "stop", "deleteScenario"}
      BY DEF BeginsLoop, Ready
    <3>2. BeginsAdapter(p) => /\ UNCHANGED clusterVars /\ local'[p].pc = "check"
                              /\ local'[p].op \in AdapterOps
      BY DEF BeginsAdapter, Pointing, Ready
    <3>3. QED
      BY <2>1, <3>1, <3>2 DEF BeginsCleanup, AdapterOps
  <2>3. \A q \in Reqs : local[q] = Ready /\ (q # p => local'[q] = Ready)
    BY <2>1 DEF Quiet, Rested, Processes
  <2>4. ASSUME NEW u \in ScenarioIds, NEW k \in Positions(u)'
        PROVE  BackedAt(u, k)'
    <3>1. k \in Positions(u) /\ AdapterAt(u, k)' = AdapterAt(u, k)
      BY <2>1, <2>4 DEF Positions, Holds, AdapterAt, storeVars
    <3>2. BackedAt(u, k)
      BY <2>3, <3>1, NilAssumption DEF BackedInv, WorksOn, Ready
    <3>3. QED
      BY <1>1, <2>2, <3>1, <3>2, FollowsBacked
  <2>5. \A q \in Reqs : Progress(q)' /\ local'[q].op # "cleanup"
    BY <2>2, <2>3, NilAssumption, ControlPlaneAssumption
       DEF Progress, ProgressAt, Ready, AllOps
  <2>6. QED
    BY <2>4, <2>5 DEF BackedInv
<1>3. CASE Restart
  <2>1. /\ \A t \in ScenarioIds : Positions(t)' = {}
        /\ \A q \in Reqs : local'[q] = Ready
    BY <1>3, WorldEffects DEF Processes
  <2>2. QED
    BY <2>1, NilAssumption, ControlPlaneAssumption DEF BackedInv, Progress, Ready, AllOps
<1>4. CASE Surroundings
  BY <1>4, SurroundingsBacked
<1>5. QED
  BY <1>2, <1>3, <1>4, StepCases, ContinueBacked

(* What has been made in the cluster for each running adapter, also while  *)
(* a request is at work on it (BackedInv says what that one still owes).   *)
THEOREM BackedInvariant ==
    ASSUME OneByOne, ~LocalMode, ~NameClash, "clone" \notin Ops, "cleanup" \notin Ops,
           "idle" \notin Ops, ManifestNamesDiffer, FileNamesDiffer
    PROVE  Spec => [](Rested /\ BackedInv)
<1>1. Init => OneClaim /\ BackedInv
  <2>1. ASSUME Init
        PROVE  /\ \A sid \in ScenarioIds : Positions(sid) = {}
               /\ \A q \in Reqs : local[q] = Ready
    BY <2>1 DEF Init, StoreInit, Holds, Positions, Processes
  <2>2. Init => OneClaim
    BY InitClaims
  <2>3. QED
    BY <2>1, <2>2, NilAssumption, ControlPlaneAssumption DEF BackedInv, Progress, Ready, AllOps
<1>2. SystemInv /\ OneClaim /\ [Next]_vars => OneClaim'
  BY OneClaimStep
<1>3. /\ SystemInv /\ SerialInv /\ Rested /\ NamesInv /\ OneClaim /\ BackedInv /\ [Next]_vars
      => BackedInv'
  BY BackedStep
<1>4. QED
  BY <1>1, <1>2, <1>3, SystemInvariant, Serial, NamesInvariant, PTL DEF Spec

(* If requests come one at a time, and names are not given twice, then an  *)
(* adapter shown as running has its deployment, its service and, behind a  *)
(* public URL, its APIRule, whatever calls fail and however often the      *)
(* control plane restarts, unless the idle check or the sweep of cleanup,  *)
(* which do not tell the handlers, come in between.                        *)
THEOREM RunningAdaptersAreBacked ==
    ASSUME OneByOne, ~LocalMode, ~NameClash, "clone" \notin Ops, "cleanup" \notin Ops,
           "idle" \notin Ops, ManifestNamesDiffer, FileNamesDiffer
    PROVE  Spec => []RunningBacked
<1>1. Rested /\ BackedInv => RunningBacked
  <2>1. ASSUME Rested, BackedInv, Quiet, NEW sid \in Scenarios, NEW i \in Positions(sid)
        PROVE  BackedAt(sid, i)
    <3>1. sid \in ScenarioIds
      BY <2>1 DEF Scenarios
    <3>2. \A q \in Reqs : ~ WorksOn(q, sid, i)
      BY <2>1, <3>1, NilAssumption DEF Quiet, Rested, WorksOn, Ready
    <3>3. QED
      BY <2>1, <3>1, <3>2 DEF BackedInv
  <2>2. QED
    BY <2>1 DEF RunningBacked, EveryAdapter, Backed, BackedAt, Up, Reached, Exposed
<1>2. QED
  BY <1>1, BackedInvariant, PTL

-----------------------------------------------------------------------------
(* What a launch has omitted.                                              *)

(* The deployment is not, or is scaled to zero.                            *)
Scaled(t, j) ==
    LET n == AdapterAt(t, j).dep
    IN  deployments[n] # Nil => deployments[n].replicas = 0

(* There is no service without a deployment.                               *)
Served(t, j) ==
    services[AdapterAt(t, j).name] # Nil => deployments[AdapterAt(t, j).dep] # Nil

(* A launch that finds the adapter so either succeeds or fails because a   *)
(* deployment of no pods is in its way.                                    *)
Orderly(t, j) == Served(t, j) /\ (AdapterAt(t, j).status = "stopped" => Scaled(t, j))

Omittable(t, j) ==
    LET x == AdapterAt(t, j)
    IN  x.status = "running" \/ deployments[x.dep] = [owner |-> x.id, replicas |-> 0]

(* How far a request is with the adapter it works on.                      *)
StageAt(p, t, j) ==
    LET l == local[p]
        x == AdapterAt(t, j)
    IN  /\ l.pc \in {"check", "createDeployment", "readKey", "write"} => Orderly(t, j)
        /\ l.pc = "createService" => services[x.name] = Nil
        /\ l.pc \in {"setUrl", "pokeStatus", "pokeUrl"} => x.status = "running"
        /\ l.pc \in {"scale", "markStopped"} => Served(t, j)
        /\ l.pc = "markStopped" => Scaled(t, j)
        /\ l.pc = "deleteService" => deployments[x.dep] = Nil

Stage(p) ==
    \A t \in ScenarioIds : \A j \in Positions(t) :
        local[p].sid = t /\ local[p].idx = j => StageAt(p, t, j)

(* The scenarios of files are loaded before anything else is done; and a   *)
(* launch has omitted only what it got past that way.                      *)
OrderInv ==
    /\ unloaded # {} => \A n \in Names : deployments[n] = Nil /\ services[n] = Nil
    /\ \A sid \in ScenarioIds : \A i \in Positions(sid) :
          Orderly(sid, i) \/ \E p \in Reqs : WorksOn(p, sid, i)
    /\ \A p \in Reqs :
          /\ Stage(p)
          /\ local[p].op = "updateAdapter" /\ local[p].name # Nil =>
                services[local[p].name] = Nil
          /\ local[p].op = "launch" =>
                \A sid \in ScenarioIds : \A i \in Positions(sid) :
                   local[p].sid = sid /\ i < local[p].idx => Omittable(sid, i)

-----------------------------------------------------------------------------
(* The steps of a request on its slot.                                     *)
Settles(p, t, j) ==
    /\ local'[p].pc \notin {"ready", "pick", "finish"} => StageAt(p, t, j)'
    /\ local'[p].pc \in {"ready", "pick"} =>
          /\ Orderly(t, j)' \/ local'[p].op = "deleteScenario"
          /\ local'[p].op = "launch" => Omittable(t, j)'

LEMMA CreationSettles ==
    ASSUME SystemInv, SerialInv, NamesInv, OneClaim, OwnedInv, ~LocalMode, ~Faults,
           NEW p \in Reqs, ~ At(p, "ready"), NEW t \in ScenarioIds,
           NEW j \in Positions(t), local[p].sid = t, local[p].idx = j,
           ProgressAt(p, t, j), StageAt(p, t, j),
           CreateDeployment(p) \/ CreateService(p) \/ Expose(p)
    PROVE  Settles(p, t, j)
<1> DEFINE x == AdapterAt(t, j)
           m == local'[p]
<1>1. /\ StoreInv /\ deployments \in [Names -> Deployment \cup {Nil}]
      /\ services \in [Names -> AdapterIds \cup {Nil}]
  BY DEF SystemInv, HeapInv, ClusterTypeOK
<1>2. x \in AdapterRecord /\ Slot(p) = x
  BY <1>1, LookupFacts DEF Slot
<1>3. UNCHANGED storeVars
  BY LaunchEffects
<1>4. x' = x
  BY <1>3 DEF AdapterAt, storeVars
<1>5. CASE CreateDeployment(p)
  <2>1. x.status = "stopped" /\ Orderly(t, j)
    BY <1>5 DEF CreateDeployment, At, ProgressAt, StageAt
  <2>2. PICK ok \in BOOLEAN : /\ CreateAdapterDeployment(x, ok)
                              /\ IF ok THEN Goes(p, "createService") ELSE Advances(p)
    BY <1>2, <1>5, LaunchEffects
  <2>3. CASE ok
    <3>1. deployments[x.dep] = Nil /\ services' = services
      BY <2>2, <2>3 DEF CreateAdapterDeployment, Created
    <3>2. services[x.name] = Nil
      BY <2>1, <3>1 DEF Orderly, Served
    <3>3. Goes(p, "createService")
      BY <2>2, <2>3
    <3>4. m.pc = "createService"
      BY <3>3, MovesTo
    <3>5. StageAt(p, t, j)'
      BY <1>4, <3>1, <3>2, <3>4 DEF StageAt
    <3>6. QED
      BY <3>4, <3>5 DEF Settles
  <2>4. CASE ~ ok
    <3>1. /\ deployments[x.dep] # Nil /\ deployments' = deployments /\ services' = services
      BY <2>2, <2>4 DEF CreateAdapterDeployment, Created
    <3>2. deployments[x.dep].replicas = 0 /\ x.dep \in Names
      BY <1>2, <2>1, <3>1 DEF Orderly, Scaled, AdapterRecord
    <3>3. deployments[x.dep].owner = x.id
      <4>1. Owned(x.dep)
        BY <3>1, <3>2 DEF OwnedInv
      <4>2. PICK s \in ScenarioIds : \E i \in Positions(s) :
              AdapterAt(s, i).id = deployments[x.dep].owner /\ AdapterAt(s, i).dep = x.dep
        BY <4>1 DEF Owned
      <4>3. PICK i \in Positions(s) :
              AdapterAt(s, i).id = deployments[x.dep].owner /\ AdapterAt(s, i).dep = x.dep
        BY <4>2
      <4>4. x.dep \in NamesOf(AdapterAt(s, i)) \cap NamesOf(AdapterAt(t, j))
        BY <4>3 DEF NamesOf
      <4>5. s = t /\ i = j
        BY <4>4, SlotsApart
      <4>6. QED
        BY <4>3, <4>5
    <3>4. Omittable(t, j)'
      BY <1>1, <1>4, <3>1, <3>2, <3>3 DEF Omittable, Deployment
    <3>5. Orderly(t, j)'
      BY <1>4, <2>1, <3>1 DEF Orderly, Served, Scaled
    <3>6. Advances(p)
      BY <2>2, <2>4
    <3>7. m.pc = "pick"
      BY <3>6, MovesTo
    <3>8. QED
      BY <3>4, <3>5, <3>7 DEF Settles
  <2>5. QED
    BY <2>3, <2>4
<1>6. CASE CreateService(p)
  <2>1. services[x.name] = Nil
    BY <1>6 DEF CreateService, At, StageAt
  <2>2. PICK ok \in BOOLEAN : /\ CreateAdapterService(x, ok)
                              /\ IF ok THEN Goes(p, "expose") ELSE Advances(p)
    BY <1>2, <1>6, LaunchEffects
  <2>3. ok
    BY <2>1, <2>2 DEF CreateAdapterService, Created
  <2>4. Goes(p, "expose")
    BY <2>2, <2>3
  <2>5. m.pc = "expose"
    BY <2>4, MovesTo
  <2>6. QED
    BY <2>5 DEF Settles, StageAt
<1>7. CASE Expose(p)
  <2>1. m.pc = "markRunning"
    BY <1>7, LaunchEffects
  <2>2. QED
    BY <2>1 DEF Settles, StageAt
<1>8. QED
  BY <1>5, <1>6, <1>7

LEMMA MarkingSettles ==
    ASSUME SystemInv, SerialInv, NEW p \in Reqs, ~ At(p, "ready"), NEW t \in ScenarioIds,
           NEW j \in Positions(t), local[p].sid = t, local[p].idx = j,
           ProgressAt(p, t, j), StageAt(p, t, j),
           MarkRunning(p) \/ SetUrl(p) \/ WriteStatus(p) \/ WriteUrl(p)
    PROVE  Settles(p, t, j)
<1> DEFINE x == AdapterAt(t, j)
           l == local[p]
           m == local'[p]
<1>1. StoreInv /\ x \in AdapterRecord /\ Slot(p) = x
  BY LookupFacts DEF Slot, SystemInv, HeapInv
<1>2. UNCHANGED clusterVars
  BY DEF MarkRunning, SetUrl, WriteStatus, WriteUrl, StoreOnly
<1>3. ASSUME NEW y, Written(t, j, y)
      PROVE  AdapterAt(t, j)' = y
  BY <1>3 DEF Written
<1> HIDE DEF x
<1>4. CASE MarkRunning(p) \/ SetUrl(p) \/ WriteStatus(p)
  <2>1. /\ Goes(p, "setUrl") \/ Goes(p, "pokeStatus") \/ Goes(p, "pokeUrl")
        /\ l.pc \in {"setUrl", "pokeStatus", "pokeUrl"} \/ ~ SetUrl(p)
    BY <1>4, LaunchEffects DEF SetUrl, At
  <2>2. m.pc \in {"setUrl", "pokeStatus", "pokeUrl"}
    BY <2>1, MovesTo
  <2>3. AdapterAt(t, j)'.status = "running"
    <3>1. CASE MarkRunning(p)
      <4>1. AdapterAt(t, j)' = WithStatus(x, "running")
        BY <1>1, <1>3, <3>1, WritesHome
      <4>2. QED
        BY <1>1, <4>1 DEF WithStatus, AdapterRecord
    <3>2. CASE SetUrl(p)
      <4>1. AdapterAt(t, j)' = [x EXCEPT !.url = l.url]
        BY <1>1, <1>3, <3>2, WritesHome
      <4>2. x.status = "running"
        BY <2>1, <3>2 DEF StageAt, x
      <4>3. QED
        BY <1>1, <4>1, <4>2 DEF AdapterRecord
    <3>3. CASE WriteStatus(p)
      <4>1. AdapterAt(t, j)' = [x EXCEPT !.status = "running"]
        BY <1>1, <1>3, <3>3, WritesHome
      <4>2. QED
        BY <1>1, <4>1 DEF AdapterRecord
    <3>4. QED
      BY <1>4, <3>1, <3>2, <3>3
  <2>4. QED
    BY <2>2, <2>3 DEF Settles, StageAt
<1>5. CASE WriteUrl(p)
  <2>1. l.pc = "pokeUrl" /\ Advances(p)
    BY <1>5, LaunchEffects DEF WriteUrl, At
  <2>2. m.pc = "pick"
    BY <2>1, MovesTo
  <2>3. AdapterAt(t, j)' = [x EXCEPT !.url = l.url]
    BY <1>1, <1>3, <1>5, WritesHome
  <2>4. x.status = "running" /\ Up(t, j)
    BY <2>1 DEF StageAt, ProgressAt, x
  <2>5. AdapterAt(t, j)'.status = "running" /\ AdapterAt(t, j)'.dep = x.dep
    BY <1>1, <2>3, <2>4 DEF AdapterRecord
  <2>6. deployments'[x.dep] # Nil
    <3>1. deployments' = deployments /\ deployments[x.dep] = [owner |-> x.id, replicas |-> 1]
      BY <1>2, <2>4 DEF Up, x, clusterVars
    <3>2. deployments[x.dep].replicas = 1 /\ deployments[x.dep] \in Deployment
      BY <1>1, <3>1 DEF Deployment, AdapterRecord
    <3>3. QED
      BY <3>1, <3>2, DeploymentAssumption
  <2>7. Orderly(t, j)' /\ Omittable(t, j)'
    BY <2>5, <2>6 DEF Orderly, Served, Omittable
  <2>8. QED
    BY <2>2, <2>7 DEF Settles
<1>6. QED
  BY <1>4, <1>5

LEMMA StoppingSettles ==
    ASSUME SystemInv, SerialInv, ~LocalMode, ~Faults, NEW p \in Reqs, ~ At(p, "ready"),
           NEW t \in ScenarioIds, NEW j \in Positions(t), local[p].sid = t,
           local[p].idx = j, StageAt(p, t, j),
           local[p].op = "updateAdapter" /\ local[p].name # Nil => services[local[p].name] = Nil,
           \/ Check(p) \/ Scale(p) \/ MarkStopped(p) \/ RemoveDeployment(p)
           \/ RemoveService(p) \/ RemoveRule(p) \/ Reread(p) \/ ReadKey(p) \/ Write(p)
    PROVE  Settles(p, t, j)
<1> DEFINE x == AdapterAt(t, j)
           l == local[p]
           m == local'[p]
<1>1. /\ StoreInv /\ x \in AdapterRecord /\ Slot(p) = x
      /\ deployments \in [Names -> Deployment \cup {Nil}]
      /\ services \in [Names -> AdapterIds \cup {Nil}]
  BY LookupFacts DEF Slot, SystemInv, HeapInv, ClusterTypeOK
<1>2. UNCHANGED storeVars => x' = x
  BY DEF AdapterAt, storeVars
<1>3. l.op \in OpsAt(l.pc)
  BY AtWork DEF Sound
<1>4. x.dep \in Names /\ x.name \in Names /\ x.status \in Statuses
  BY <1>1 DEF AdapterRecord
<1>5. CASE Check(p)
  <2>1. Orderly(t, j) /\ UNCHANGED <<storeVars, clusterVars>>
    BY <1>5 DEF Check, At, StageAt, LocalOnly
  <2>2. \/ Takes(p, "deleteDeployment") \/ Takes(p, "scale")
        \/ Goes(p, "markStopped") /\ x.status # "running"
        \/ Goes(p, "readKey")
    BY <1>1, <1>5, CheckEffect
  <2>3. \/ m.pc \in {"deleteDeployment", "scale", "readKey"}
        \/ m.pc = "markStopped" /\ x.status = "stopped"
    BY <1>4, <2>2, MovesTo DEF Statuses
  <2>4. /\ Orderly(t, j)' /\ Served(t, j)'
        /\ x.status = "stopped" => Scaled(t, j)'
    BY <1>2, <2>1 DEF Orderly, Served, Scaled, clusterVars
  <2>5. QED
    BY <2>3, <2>4 DEF Settles, StageAt
<1>6. CASE Scale(p)
  <2>1. Served(t, j) /\ UNCHANGED storeVars /\ StopAdapterDeployment(x) /\ Goes(p, "markStopped")
    BY <1>1, <1>6, TeardownEffects DEF Scale, At, StageAt
  <2>2. m.pc = "markStopped"
    BY <2>1, MovesTo
  <2>3. CASE deployments[x.dep] = Nil
    <3>1. deployments' = deployments /\ services' = services
      BY <2>1, <2>3 DEF StopAdapterDeployment
    <3>2. Served(t, j)' /\ Scaled(t, j)'
      BY <1>2, <2>1, <2>3, <3>1 DEF Served, Scaled
    <3>3. QED
      BY <2>2, <3>2 DEF Settles, StageAt
  <2>4. CASE deployments[x.dep] # Nil
    <3>1. /\ deployments' = [deployments EXCEPT ![x.dep].replicas = 0]
          /\ services' = services
      BY <2>1, <2>4 DEF StopAdapterDeployment
    <3>2. deployments[x.dep] \in Deployment
      BY <1>1, <1>4, <2>4
    <3>3. deployments'[x.dep] = [deployments[x.dep] EXCEPT !.replicas = 0]
      BY <1>1, <1>4, <3>1
    <3>4. deployments'[x.dep] \in Deployment /\ deployments'[x.dep].replicas = 0
      BY <3>2, <3>3 DEF Deployment
    <3>5. Served(t, j)' /\ Scaled(t, j)'
      BY <1>2, <2>1, <3>4, DeploymentAssumption DEF Served, Scaled
    <3>6. QED
      BY <2>2, <3>5 DEF Settles, StageAt
  <2>5. QED
    BY <2>3, <2>4
<1>7. CASE MarkStopped(p)
  <2>1. Served(t, j) /\ Scaled(t, j) /\ UNCHANGED clusterVars /\ l.op # "launch"
    BY <1>3, <1>7 DEF MarkStopped, At, StageAt, StoreOnly, OpsAt
  <2>2. AdapterAt(t, j)' = WithStatus(x, "stopped")
    BY <1>1, <1>7, WritesHome DEF Written
  <2>3. AdapterAt(t, j)'.dep = x.dep /\ AdapterAt(t, j)'.name = x.name
    BY <1>1, <2>2 DEF WithStatus, AdapterRecord
  <2>4. Orderly(t, j)'
    BY <2>1, <2>3 DEF Orderly, Served, Scaled, clusterVars
  <2>5. Advances(p) \/ m = Ready \/ Goes(p, "readKey")
    BY <1>7, OtherEffects
  <2>6. /\ m.pc \in {"pick", "ready", "readKey"}
        /\ m.op # "launch"
    BY <2>1, <2>5, MovesTo, NilAssumption, ControlPlaneAssumption DEF AllOps
  <2>7. QED
    BY <2>4, <2>6 DEF Settles, StageAt
<1>8. CASE RemoveDeployment(p)
  <2>1. UNCHANGED storeVars /\ DeleteDeployment(x) /\ Goes(p, "deleteService")
    BY <1>1, <1>8, TeardownEffects
  <2>2. deployments'[x.dep] = Nil
    BY <1>1, <1>4, <2>1 DEF DeleteDeployment, Removed
  <2>3. m.pc = "deleteService"
    BY <2>1, MovesTo
  <2>4. QED
    BY <1>2, <2>1, <2>2, <2>3 DEF Settles, StageAt
<1>9. CASE RemoveService(p)
  <2>1. /\ UNCHANGED storeVars /\ DeleteService(x)
        /\ Goes(p, "markStopped") \/ Goes(p, "reread") \/ Goes(p, "deleteRule")
    BY <1>1, <1>9, TeardownEffects
  <2>2. services'[x.name] = Nil /\ deployments'[x.dep] = Nil
    BY <1>1, <1>4, <1>9, <2>1 DEF DeleteService, Removed, RemoveService, At, StageAt
  <2>3. m.pc \in {"markStopped", "reread", "deleteRule"}
    BY <2>1, MovesTo
  <2>4. Served(t, j)' /\ Scaled(t, j)'
    BY <1>2, <2>1, <2>2 DEF Served, Scaled
  <2>5. QED
    BY <2>3, <2>4 DEF Settles, StageAt
<1>10. CASE RemoveRule(p)
  <2>1. (l.op = "deleteScenario" /\ Advances(p)) \/ Goes(p, "remove")
    BY <1>10, TeardownEffects
  <2>2. (m.op = "deleteScenario" /\ m.pc = "pick") \/ m.pc = "remove"
    BY <2>1, MovesTo
  <2>3. QED
    BY <2>2 DEF Settles, StageAt
<1>11. CASE Reread(p)
  <2>1. Takes(p, "deleteRule")
    BY <1>11, OtherEffects
  <2>2. m.pc = "deleteRule"
    BY <2>1, MovesTo
  <2>3. QED
    BY <2>2 DEF Settles, StageAt
<1>12. CASE ReadKey(p)
  <2>1. Orderly(t, j) /\ UNCHANGED <<storeVars, clusterVars>>
    BY <1>12 DEF ReadKey, At, StageAt, LocalOnly
  <2>2. m.pc = "write"
    BY <1>12, OtherEffects
  <2>3. Orderly(t, j)'
    BY <1>2, <2>1 DEF Orderly, Served, Scaled, clusterVars
  <2>4. QED
    BY <2>2, <2>3 DEF Settles, StageAt
<1>13. CASE Write(p)
  <2>1. Orderly(t, j) /\ UNCHANGED clusterVars /\ l.op = "updateAdapter"
    <3>1. l.pc = "write" /\ UNCHANGED clusterVars
      BY <1>13 DEF Write, At, StoreOnly
    <3>2. l.op = "updateAdapter"
      BY <1>3, <3>1 DEF OpsAt
    <3>3. Orderly(t, j)
      BY <3>1 DEF StageAt
    <3>4. QED
      BY <3>1, <3>2, <3>3
  <2> DEFINE y == [Slot(p) EXCEPT !.name = IF l.name = Nil THEN @ ELSE l.name, !.key = l.key]
  <2>2. AdapterAt(t, j)' = y
    <3>1. Written(l.sid, l.idx, y)
      BY <1>13, WritesHome
    <3> HIDE DEF y
    <3>2. QED
      BY <3>1 DEF Written
  <2>3. /\ AdapterAt(t, j)'.dep = x.dep /\ AdapterAt(t, j)'.status = x.status
        /\ AdapterAt(t, j)'.name = IF l.name = Nil THEN x.name ELSE l.name
    BY <1>1, <2>2 DEF AdapterRecord
  <2>4. services'[AdapterAt(t, j)'.name] # Nil => services[x.name] # Nil
    BY <2>1, <2>3 DEF clusterVars
  <2>5. Orderly(t, j)'
    BY <2>1, <2>3, <2>4 DEF Orderly, Served, Scaled, clusterVars
  <2>6. m.pc = "ready" /\ m.op # "launch"
    <3>1. m = Ready
      BY <1>13, OtherEffects
    <3>2. QED
      BY <3>1, MovesTo, ControlPlaneAssumption DEF AllOps
  <2>7. QED
    BY <2>5, <2>6 DEF Settles
<1>14. QED
  BY <1>5, <1>6, <1>7, <1>8, <1>9, <1>10, <1>11, <1>12, <1>13

(* Adapters elsewhere, and those that others follow.                       *)
LEMMA ElsewhereOrderly ==
    ASSUME SystemInv, SerialInv, NamesInv, OneClaim, ~LocalMode, NEW p \in Reqs, Continue(p),
           local[p].op # "cleanup", NEW t \in ScenarioIds, NEW j \in Positions(t),
           ~ (local[p].sid = t /\ local[p].idx = j), AdapterAt(t, j)' = AdapterAt(t, j)
    PROVE  /\ Orderly(t, j) => Orderly(t, j)'
           /\ Omittable(t, j) => Omittable(t, j)'
BY ElsewhereSpared DEF Orderly, Served, Scaled, Omittable

LEMMA FollowsOrderly ==
    ASSUME UNCHANGED clusterVars, NEW t, NEW j, NEW k, Same(AdapterAt(t, j)', AdapterAt(t, k))
    PROVE  /\ Orderly(t, k) => Orderly(t, j)'
           /\ Omittable(t, k) => Omittable(t, j)'
BY DEF Orderly, Served, Scaled, Omittable, Same, Agree, clusterVars

(* The name that an update brings stays free.                              *)
LEMMA NameStaysFree ==
    ASSUME SystemInv, SerialInv, NamesInv, Rested, OrderInv, NEW p \in Reqs, Continue(p),
           local[p].op # "cleanup", NEW q \in Reqs, local'[q].op = "updateAdapter",
           local'[q].name # Nil
    PROVE  services'[local'[q].name] = Nil
<1>1. /\ OthersWait(p) /\ \A r \in Reqs \ {p} : local'[r].op = Nil
      /\ local'[p] = Ready \/ SameRequest(p)
  BY ContinueCases, ContinueOp
<1>2. q = p /\ SameRequest(p)
  BY <1>1, MovesTo, ControlPlaneAssumption DEF AllOps
<1>3. local[p].op = "updateAdapter" /\ local[p].name # Nil /\ local'[p].name = local[p].name
  BY <1>2 DEF SameRequest
<1>4. services[local[p].name] = Nil
  BY <1>3 DEF OrderInv
<1>5. CASE UNCHANGED clusterVars
  BY <1>2, <1>3, <1>4, <1>5 DEF clusterVars
<1>6. CASE Reaches(p)
  <2>1. PICK s \in ScenarioIds : local[p].sid = s
    BY <1>6 DEF Reaches
  <2>2. PICK i \in Positions(s) : local[p].idx = i
    BY <1>6, <2>1 DEF Reaches
  <2>3. local[p].name # Slot(p).name
    BY <1>3, <2>1, <2>2 DEF NamesInv, NamesOf, Slot
  <2>4. local[p].name \in Names
    BY <1>3 DEF SystemInv, LocalsInv, Local, Processes
  <2>5. QED
    BY <1>2, <1>3, <1>4, <1>6, <2>3, <2>4 DEF Reaches
<1>7. QED
  BY <1>3, <1>5, <1>6, ClusterReach

LEMMA PositionsAreNumbers ==
    ASSUME StoreInv, NEW sid \in ScenarioIds, NEW i \in Positions(sid)
    PROVE  i \in Nat \ {0}
<1>1. Holds(sid)
  BY DEF Positions
<1>2. Positions(sid) = 1 .. Size(sid) /\ Size(sid) \in Nat
  BY <1>1, SlotFacts
<1>3. QED
  BY <1>2

(* The steps of a request keep order.  Another step on its adapter, or the *)
(* last one there.                                                         *)
LEMMA SlotStepOrders ==
    ASSUME SystemInv, SerialInv, NamesInv, OneClaim, ~LocalMode, Rested, BackedInv, OrderInv,
           NEW p \in Reqs, Continue(p), ~ At(p, "finish"), NEW t \in ScenarioIds,
           NEW j \in Positions(t), local[p].sid = t, local[p].idx = j, SameSlots,
           \A u \in ScenarioIds : \A k \in Positions(u) :
              ~ (u = t /\ k = j) => AdapterAt(u, k)' = AdapterAt(u, k),
           \/ local'[p] = Ready
           \/ /\ SameRequest(p) /\ local'[p].pc \notin {"ready", "pick", "finish"}
              /\ local'[p].idx = local[p].idx
           \/ SameRequest(p) /\ local'[p].pc = "pick"
              /\ local'[p].idx \in {local[p].idx, local[p].idx + 1},
           Settles(p, t, j)
    PROVE  OrderInv'
<1> DEFINE l == local[p]
           m == local'[p]
<1>1. /\ ~ At(p, "ready") /\ ~ Quiet /\ OthersWait(p)
      /\ \A q \in Reqs \ {p} : local'[q].pc = "ready" /\ local'[q].op = Nil
      /\ l.op # "cleanup"
  BY ContinueCases DEF BackedInv
<1>2. \A q \in Reqs \ {p} : local[q] = Ready
  BY <1>1, AtWork DEF Rested
<1>3. /\ \A u \in ScenarioIds : \A k : \A q \in Reqs \ {p} : ~ WorksOn(q, u, k)
      /\ Nil # "deleteScenario" /\ Nil # "launch" /\ Nil \notin ScenarioIds
  BY <1>2, NilAssumption, ControlPlaneAssumption DEF WorksOn, Ready, AllOps
<1>4. m = Ready \/ (SameRequest(p) /\ m.sid = t /\ m.op = l.op)
  BY MovesTo
<1>5. l.op = "deleteScenario" => SameRequest(p)
  BY LoopEnds DEF LoopOps, Finish
<1>6. m = Ready => m.pc = "ready" /\ m.op = Nil /\ m.sid = Nil
  BY DEF Ready
<1>7. ASSUME NEW u \in ScenarioIds, NEW k \in Positions(u)'
      PROVE  Orderly(u, k)' \/ \E q \in Reqs : WorksOn(q, u, k)'
  <2>1. k \in Positions(u)
    BY <1>7, SamePositions
  <2>2. CASE u = t /\ k = j
    <3>1. CASE m.pc \in {"ready", "pick"}
      <4>1. Orderly(t, j)' \/ m.op = "deleteScenario"
        BY <3>1 DEF Settles
      <4>2. m.op = "deleteScenario" => WorksOn(p, u, k)'
        BY <1>3, <1>4, <1>6, <2>2 DEF WorksOn
      <4>3. QED
        BY <2>2, <4>1, <4>2
    <3>2. CASE m.pc \notin {"ready", "pick"}
      BY <1>4, <1>6, <2>2, <3>2 DEF WorksOn
    <3>3. QED
      BY <3>1, <3>2
  <2>3. CASE ~ (u = t /\ k = j)
    <3>1. CASE Orderly(u, k)
      BY <1>1, <2>1, <2>3, <3>1, ElsewhereOrderly
    <3>2. CASE ~ Orderly(u, k)
      <4>1. PICK q \in Reqs : WorksOn(q, u, k)
        BY <2>1, <3>2 DEF OrderInv
      <4>2. q = p
        BY <1>3, <4>1
      <4>3. l.sid = u /\ l.op = "deleteScenario"
        BY <2>3, <4>1, <4>2 DEF WorksOn
      <4>4. WorksOn(p, u, k)'
        BY <1>4, <1>5, <4>3 DEF WorksOn, SameRequest
      <4>5. QED
        BY <4>4
    <3>3. QED
      BY <3>1, <3>2
  <2>4. QED
    BY <2>2, <2>3
<1>8. \A q \in Reqs : Stage(q)'
  <2>1. CASE m.pc \in {"ready", "pick"}
    BY <1>1, <2>1 DEF Stage, StageAt
  <2>2. CASE m.pc \notin {"ready", "pick"}
    <3>1. StageAt(p, t, j)' /\ m.idx = j /\ m.sid = t
      BY <1>4, <1>6, <2>2 DEF Settles, StageAt
    <3>2. QED
      BY <1>1, <3>1 DEF Stage, StageAt
  <2>3. QED
    BY <2>1, <2>2
<1>9. ASSUME NEW q \in Reqs, local'[q].op = "launch", NEW u \in ScenarioIds,
             NEW k \in Positions(u)', local'[q].sid = u, k < local'[q].idx
      PROVE  Omittable(u, k)'
  <2>1. q = p /\ m.op = "launch" /\ l.op = "launch" /\ u = t /\ l.sid = t /\ m.idx \in {j, j + 1}
    BY <1>1, <1>3, <1>4, <1>6, <1>9
  <2>2. k \in Positions(t) /\ k \in Nat /\ j \in Nat
    BY <1>9, <2>1, SamePositions, PositionsAreNumbers DEF SystemInv, HeapInv
  <2>3. CASE k < j
    <3>1. Omittable(t, k)
      BY <2>1, <2>2, <2>3 DEF OrderInv
    <3>2. QED
      BY <1>1, <2>1, <2>2, <2>3, <3>1, ElsewhereOrderly
  <2>4. CASE k = j
    <3>1. m.pc = "pick"
      BY <1>3, <1>6, <1>9, <2>1, <2>2, <2>4
    <3>2. QED
      BY <2>1, <2>4, <3>1 DEF Settles
  <2>5. QED
    BY <1>9, <2>1, <2>2, <2>3, <2>4
<1>10. unloaded' = {}
  BY <1>1, ContinueKeeps, AtWork
<1>11. \A q \in Reqs : local'[q].op = "updateAdapter" /\ local'[q].name # Nil =>
          services'[local'[q].name] = Nil
  BY <1>1, NameStaysFree
<1>12. QED
  BY <1>7, <1>8, <1>9, <1>10, <1>11 DEF OrderInv

(* A request chooses its next adapter.                                     *)
LEMMA PickOrders ==
    ASSUME SystemInv, SerialInv, NamesInv, ~LocalMode, Rested, BackedInv, OrderInv,
           NEW p \in Reqs, Pick(p)
    PROVE  OrderInv'
<1> DEFINE l == local[p]
           m == local'[p]
<1>1. /\ Continue(p) /\ l.pc = "pick" /\ ~ At(p, "ready")
      /\ UNCHANGED clusterVars
  BY DEF Continue, Pick, At, LocalOnly
<1>2. /\ l.op \in LoopOps \ {"idle"} /\ UNCHANGED storeVars /\ OthersWait(p)
      /\ \/ Goes(p, "finish")
         \/ /\ l.idx \in Positions(l.sid) /\ Slot(p) \in AdapterRecord
            /\ IF Wanted(l.op, Slot(p)) THEN Takes(p, FirstStep(l.op)) ELSE Advances(p)
  BY PickEffect
<1>3. /\ \A q \in Reqs \ {p} : local[q] = Ready /\ local'[q] = Ready
      /\ l.op # "cleanup" /\ unloaded' = {} /\ l.idx \in Nat
  BY <1>1, <1>2, AtWork, ContinueKeeps DEF Rested, BackedInv, OthersWait, LoopOps
<1>4. /\ \A u \in ScenarioIds : \A k : \A q \in Reqs \ {p} : ~ WorksOn(q, u, k)
      /\ Nil \notin ScenarioIds /\ Nil # "launch"
  BY <1>3, NilAssumption, ControlPlaneAssumption DEF WorksOn, Ready, AllOps
<1>5. SameRequest(p) /\ m.op = l.op /\ m.sid = l.sid
  BY <1>2, MovesTo
<1>6. \A u, k : AdapterAt(u, k)' = AdapterAt(u, k) /\ Positions(u)' = Positions(u)
  BY <1>2 DEF AdapterAt, Positions, Holds, storeVars
<1>7. \A u, k : /\ Orderly(u, k) => Orderly(u, k)'
                /\ Omittable(u, k) => Omittable(u, k)'
  BY <1>1, <1>6, FollowsOrderly DEF Same, Agree
<1>8. ASSUME NEW u \in ScenarioIds, NEW k \in Positions(u)'
      PROVE  Orderly(u, k)' \/ \E q \in Reqs : WorksOn(q, u, k)'
  <2>1. k \in Positions(u)
    BY <1>6, <1>8
  <2>2. Orderly(u, k) \/ WorksOn(p, u, k)
    BY <1>4, <2>1 DEF OrderInv
  <2>3. WorksOn(p, u, k) => WorksOn(p, u, k)'
    BY <1>1, <1>5 DEF WorksOn
  <2>4. QED
    BY <1>7, <2>2, <2>3
<1>9. Stage(p)'
  <2>1. CASE m.pc \in {"finish", "pick", "deleteDeployment"}
    BY <2>1 DEF Stage, StageAt
  <2>2. CASE Takes(p, FirstStep(l.op)) /\ l.op # "deleteScenario"
    <3>1. m.pc = FirstStep(l.op) /\ m.idx = l.idx
      BY <2>2, MovesTo
    <3>2. m.pc \in {"createDeployment", "scale"}
      BY <1>2, <2>2, <3>1 DEF FirstStep, LoopOps
    <3>3. ASSUME NEW u \in ScenarioIds, NEW k \in Positions(u)', m.sid = u, m.idx = k
          PROVE  Orderly(u, k)'
      <4>1. k \in Positions(u)
        BY <1>6, <3>3
      <4>2. ~ WorksOn(p, u, k)
        BY <1>1, <2>2 DEF WorksOn
      <4>3. Orderly(u, k)
        BY <1>4, <4>1, <4>2 DEF OrderInv
      <4>4. QED
        BY <1>7, <4>3
    <3>4. QED
      BY <3>2, <3>3 DEF Stage, StageAt, Orderly
  <2>3. CASE Takes(p, FirstStep(l.op)) /\ l.op = "deleteScenario"
    <3>1. m.pc = "deleteDeployment"
      BY <2>3, MovesTo DEF FirstStep
    <3>2. QED
      BY <2>1, <3>1
  <2>4. QED
    BY <1>2, <2>1, <2>2, <2>3, MovesTo
<1>10. ASSUME NEW u \in ScenarioIds, NEW k \in Positions(u)', l.op = "launch", l.sid = u,
              k < m.idx
       PROVE  Omittable(u, k)'
  <2>1. k \in Positions(u) /\ k \in Nat
    BY <1>6, <1>10, PositionsAreNumbers DEF SystemInv, HeapInv
  <2>2. CASE k < l.idx
    BY <1>7, <1>10, <2>1, <2>2 DEF OrderInv
  <2>3. CASE ~ k < l.idx
    <3>1. m.idx # l.idx
      BY <1>10, <2>3
    <3>2. Advances(p) /\ ~ Wanted(l.op, Slot(p)) /\ Slot(p) \in AdapterRecord
      BY <1>2, <3>1, MovesTo
    <3>3. k = l.idx
      <4>1. m.idx = l.idx + 1
        BY <3>2, MovesTo
      <4>2. QED
        BY <1>3, <1>10, <2>1, <2>3, <4>1
    <3>4. AdapterAt(u, k).status = "running"
      <4>1. Slot(p) = AdapterAt(u, k)
        BY <1>10, <3>3 DEF Slot
      <4>2. QED
        BY <1>10, <3>2, <4>1 DEF Wanted, AdapterRecord, Statuses
    <3>5. QED
      BY <1>7, <3>4 DEF Omittable
  <2>4. QED
    BY <2>2, <2>3
<1>11. \A q \in Reqs : /\ Stage(q)'
                       /\ local'[q].op = "launch" =>
                             \A u \in ScenarioIds : \A k \in Positions(u)' :
                                local'[q].sid = u /\ k < local'[q].idx => Omittable(u, k)'
  BY <1>3, <1>4, <1>5, <1>9, <1>10 DEF Stage, StageAt, Ready
<1>12. \A q \in Reqs : local'[q].op = "updateAdapter" /\ local'[q].name # Nil =>
          services'[local'[q].name] = Nil
  BY <1>1, <1>3, NameStaysFree
<1>13. QED
  BY <1>3, <1>8, <1>11, <1>12 DEF OrderInv

(* A request that is done.                                                 *)
LEMMA LastOrders ==
    ASSUME SystemInv, SerialInv, NamesInv, ~LocalMode, Rested, BackedInv, OrderInv,
           NEW p \in Reqs, RemoveAdapter(p) \/ Finish(p)
    PROVE  OrderInv'
<1> DEFINE l == local[p]
           m == local'[p]
<1>1. Continue(p) /\ UNCHANGED clusterVars
  BY DEF Continue, RemoveAdapter, Finish, StoreOnly, clusterVars
<1>2. /\ ~ At(p, "ready") /\ OthersWait(p) /\ m = Ready /\ unloaded' = {}
  BY <1>1, ContinueCases, OtherEffects, ContinueKeeps, AtWork
<1>3. /\ \A q \in Reqs \ {p} : local[q] = Ready
      /\ \A q \in Reqs : local'[q] = Ready
  BY <1>2, AtWork DEF Rested, OthersWait
<1>4. /\ \A u \in ScenarioIds : \A k : \A q \in Reqs \ {p} : ~ WorksOn(q, u, k)
      /\ Nil # "launch" /\ Nil # "updateAdapter"
  BY <1>3, NilAssumption, ControlPlaneAssumption DEF WorksOn, Ready, AllOps
<1>5. \A q \in Reqs : Stage(q)' /\ local'[q].op # "launch" /\ local'[q].op # "updateAdapter"
  BY <1>3, <1>4 DEF Stage, StageAt, Ready
<1>6. ASSUME NEW u \in ScenarioIds, NEW k \in Positions(u)'
      PROVE  Orderly(u, k)'
  <2>1. PICK f \in Positions(u) : AdapterAt(u, k)' = AdapterAt(u, f) /\ ~ WorksOn(p, u, f)
    BY <1>6, RemovalFollows, FinishFollows
  <2>2. Orderly(u, f)
    BY <1>4, <2>1 DEF OrderInv
  <2>3. Same(AdapterAt(u, k)', AdapterAt(u, f))
    BY <2>1 DEF Same, Agree
  <2>4. QED
    BY <1>1, <2>2, <2>3, FollowsOrderly
<1>7. QED
  BY <1>2, <1>5, <1>6 DEF OrderInv

LEMMA ContinueOrders ==
    ASSUME SystemInv, SerialInv, NamesInv, OneClaim, OwnedInv, ~LocalMode, ~Faults, Rested,
           BackedInv, OrderInv, NEW p \in Reqs, Continue(p)
    PROVE  OrderInv'
<1> DEFINE l == local[p]
           m == local'[p]
<1>1. ~ At(p, "ready") /\ l.op # "cleanup" /\ l.op \in OpsAt(l.pc)
  BY ContinueCases, AtWork DEF BackedInv, Sound
<1>2. ~ SweepTheRest(p)
  BY <1>1, OtherEffects
<1>3. l.op = "updateAdapter" /\ l.name # Nil => services[l.name] = Nil
  BY DEF OrderInv
<1>4. ASSUME NEW pc, At(p, pc),
             pc \in {"createDeployment", "createService", "expose", "markRunning", "setUrl",
                     "pokeStatus", "pokeUrl", "check", "scale", "markStopped",
                     "deleteDeployment", "deleteService", "deleteRule", "reread",
                     "readKey", "write"},
             UNCHANGED storeVars \/ \E x : Written(l.sid, l.idx, x),
             \/ m = Ready
             \/ \E c : Goes(p, c) /\ c \notin {"ready", "pick", "finish"}
             \/ \E c : Takes(p, c) /\ c \notin {"ready", "pick", "finish"}
             \/ SameRequest(p) /\ m.pc \in {"markRunning", "write"} /\ m.idx = l.idx
             \/ Advances(p),
             \A t \in ScenarioIds : \A j \in Positions(t) :
                l.sid = t /\ l.idx = j /\ ProgressAt(p, t, j) /\ StageAt(p, t, j) =>
                   Settles(p, t, j)
      PROVE  OrderInv'
  <2>1. l.op \in AdapterOps \/ (l.op \in LoopOps /\ l.pc \notin {"pick", "finish"})
    BY <1>1, <1>4 DEF OpsAt, At, LoopOps, AdapterOps
  <2>2. PICK t \in ScenarioIds : l.sid = t
    BY <1>1, <2>1, AtWork
  <2>3. PICK j \in Positions(t) : l.idx = j
    BY <1>1, <2>1, <2>2, AtWork DEF OnSlot
  <2>4. ProgressAt(p, t, j) /\ StageAt(p, t, j)
    BY <2>2, <2>3 DEF BackedInv, Progress, OrderInv, Stage
  <2>5. /\ SameSlots
        /\ \A u \in ScenarioIds : \A k \in Positions(u) :
              ~ (u = t /\ k = j) => AdapterAt(u, k)' = AdapterAt(u, k)
    BY <1>4, <2>2, <2>3, UnchangedAdapters DEF Written, SameAdapters
  <2>6. ~ At(p, "finish")
    BY <1>4 DEF At
  <2>7. \/ m = Ready
        \/ SameRequest(p) /\ m.pc \notin {"ready", "pick", "finish"} /\ m.idx = l.idx
        \/ SameRequest(p) /\ m.pc = "pick" /\ m.idx \in {l.idx, l.idx + 1}
    BY <1>4, MovesTo
  <2>8. Settles(p, t, j)
    BY <1>4, <2>2, <2>3, <2>4
  <2>9. QED
    BY <2>2, <2>3, <2>5, <2>6, <2>7, <2>8, SlotStepOrders
<1>5. CASE Pick(p)
  BY <1>5, PickOrders
<1>6. CASE RemoveAdapter(p) \/ Finish(p)
  BY <1>6, LastOrders
<1>7. CASE CreateDeployment(p) \/ CreateService(p) \/ Expose(p)
  <2>1. At(p, "createDeployment") \/ At(p, "createService") \/ At(p, "expose")
    BY <1>7 DEF CreateDeployment, CreateService, Expose
  <2>2. UNCHANGED storeVars
    BY <1>7, LaunchEffects
  <2>3. \/ Goes(p, "createService") \/ Goes(p, "expose") \/ Advances(p)
        \/ SameRequest(p) /\ m.pc = "markRunning" /\ m.idx = l.idx
    BY <1>7, LaunchEffects
  <2>4. \A t \in ScenarioIds : \A j \in Positions(t) :
           l.sid = t /\ l.idx = j /\ ProgressAt(p, t, j) /\ StageAt(p, t, j) =>
              Settles(p, t, j)
    BY <1>1, <1>7, CreationSettles
  <2>5. QED
    BY <1>4, <2>1, <2>2, <2>3, <2>4
<1>8. CASE MarkRunning(p) \/ SetUrl(p) \/ WriteStatus(p) \/ WriteUrl(p)
  <2>1. \/ At(p, "markRunning") \/ At(p, "setUrl") \/ At(p, "pokeStatus") \/ At(p, "pokeUrl")
    BY <1>8 DEF MarkRunning, SetUrl, WriteStatus, WriteUrl
  <2>2. \E x : Written(l.sid, l.idx, x)
    BY <1>8, WritesHome
  <2>3. Goes(p, "setUrl") \/ Goes(p, "pokeStatus") \/ Goes(p, "pokeUrl") \/ Advances(p)
    BY <1>8, LaunchEffects
  <2>4. \A t \in ScenarioIds : \A j \in Positions(t) :
           l.sid = t /\ l.idx = j /\ ProgressAt(p, t, j) /\ StageAt(p, t, j) =>
              Settles(p, t, j)
    BY <1>1, <1>8, MarkingSettles
  <2>5. QED
    BY <1>4, <2>1, <2>2, <2>3, <2>4
<1>9. CASE \/ Check(p) \/ Scale(p) \/ MarkStopped(p) \/ RemoveDeployment(p)
           \/ RemoveService(p) \/ RemoveRule(p) \/ Reread(p) \/ ReadKey(p) \/ Write(p)
  <2>1. \/ At(p, "check") \/ At(p, "scale") \/ At(p, "markStopped") \/ At(p, "deleteDeployment")
        \/ At(p, "deleteService") \/ At(p, "deleteRule") \/ At(p, "reread")
        \/ At(p, "readKey") \/ At(p, "write")
    BY <1>9 DEF Check, Scale, MarkStopped, RemoveDeployment, RemoveService, RemoveRule,
       Reread, ReadKey, Write
  <2>2. UNCHANGED storeVars \/ \E x : Written(l.sid, l.idx, x)
    BY <1>9, CheckEffect, TeardownEffects, OtherEffects, WritesHome
  <2>3. \/ m = Ready \/ Advances(p)
        \/ Goes(p, "readKey") \/ Goes(p, "markStopped") \/ Goes(p, "deleteService")
        \/ Goes(p, "reread") \/ Goes(p, "deleteRule") \/ Goes(p, "remove")
        \/ Takes(p, "deleteDeployment") \/ Takes(p, "scale") \/ Takes(p, "deleteRule")
        \/ SameRequest(p) /\ m.pc = "write" /\ m.idx = l.idx
    BY <1>9, CheckEffect, TeardownEffects, OtherEffects
  <2>4. \A t \in ScenarioIds : \A j \in Positions(t) :
           l.sid = t /\ l.idx = j /\ ProgressAt(p, t, j) /\ StageAt(p, t, j) =>
              Settles(p, t, j)
    BY <1>1, <1>3, <1>9, StoppingSettles
  <2>5. QED
    BY <1>4, <2>1, <2>2, <2>3, <2>4
<1>10. QED
  BY <1>2, <1>5, <1>6, <1>7, <1>8, <1>9 DEF Continue

(* Files only ever get fewer.                                              *)
LEMMA FilesGetFewer ==
    ASSUME SystemInv, SerialInv, OneByOne, "idle" \notin Ops, Surroundings
    PROVE  unloaded' \subseteq unloaded
<1>1. CASE OneStep
  <2>1. Loads \/ Creates \/ Adds \/ Reports \/ Passes
    BY <1>1, OneStepEffect
  <2>2. QED
    BY <2>1 DEF Loads, Creates, Adds, Reports, Passes
<1>2. CASE Wait
  BY <1>2, WorldEffects
<1>3. CASE UNCHANGED vars
  BY <1>3 DEF vars, controlVars
<1>4. QED
  BY <1>1, <1>2, <1>3, IdleEffect DEF Surroundings

(* New adapters and those of files find nothing in their way.              *)
LEMMA NewOnesOrderly ==
    ASSUME SystemInv, SystemInv', OrderInv, ~NameClash, "clone" \notin Ops,
           UNCHANGED clusterVars, Loads \/ Creates \/ Adds, NEW u \in ScenarioIds,
           NEW k \in Positions(u)', k \notin Positions(u)
    PROVE  Orderly(u, k)'
<1> DEFINE Clear(n) == deployments[n] = Nil /\ services[n] = Nil
<1>1. ASSUME Clear(AdapterAt(u, k)'.name), Clear(AdapterAt(u, k)'.dep)
      PROVE  Orderly(u, k)'
  BY <1>1 DEF Orderly, Served, Scaled, clusterVars
<1>2. CASE Loads
  <2>1. unloaded # {}
    BY <1>2 DEF Loads
  <2>2. AdapterAt(u, k)' \in AdapterRecord
    BY RecordsNext DEF Everywhere, SystemInv, HeapInv
  <2>3. AdapterAt(u, k)'.name \in Names /\ AdapterAt(u, k)'.dep \in Names
    BY <2>2 DEF AdapterRecord
  <2>4. QED
    BY <1>1, <2>1, <2>3 DEF OrderInv
<1>3. CASE Creates
  <2>1. Founded(clock, <<>>)
    BY <1>3 DEF Creates
  <2>2. Len(<<>>) = 0
    OBVIOUS
  <2>3. CASE u = clock
    <3>1. Positions(u)' = 1 .. 0
      BY <2>1, <2>2, <2>3 DEF Founded, Positions, Holds, Size
    <3>2. QED
      BY <3>1
  <2>4. CASE u # clock
    <3>1. catalog'[u] = catalog[u] /\ (Holds(u) => Size(u)' = Size(u))
      BY <2>1, <2>4 DEF Founded
    <3>2. Positions(u)' = Positions(u)
      BY <3>1 DEF Positions, Holds, Size
    <3>3. QED
      BY <3>2
  <2>5. QED
    BY <2>3, <2>4
<1>4. CASE Adds
  <2>1. PICK t \in Scenarios, name \in Names, type \in Types :
           \E key : /\ Usable(name)
                    /\ Extended(t, NewAdapter(<<t, type, clock>>, name, type, key))
    BY <1>4 DEF Adds
  <2>2. PICK key : Usable(name) /\ Extended(t, NewAdapter(<<t, type, clock>>, name, type, key))
    BY <2>1
  <2> DEFINE x == NewAdapter(<<t, type, clock>>, name, type, key)
  <2>3. x.name = name /\ x.dep = name /\ Extended(t, x) /\ Clear(name)
    BY <2>2 DEF NewAdapter, Usable, InUse
  <2> HIDE DEF x
  <2>4. AdapterAt(u, k)' = x
    <3>1. CASE u = t /\ k = Size(t) + 1
      BY <2>3, <3>1 DEF Extended
    <3>2. CASE ~ (u = t /\ k = Size(t) + 1)
      <4>1. /\ catalog'[u] = catalog[u] /\ Holds(u) /\ k \in 1 .. Size(u)'
            /\ Size(u)' = IF u = t THEN Size(u) + 1 ELSE Size(u)
        BY <2>3 DEF Extended, Positions, Holds, Size
      <4>2. Positions(u) = 1 .. Size(u) /\ Size(u) \in Nat
        BY <4>1, SlotFacts DEF SystemInv, HeapInv
      <4>3. QED
        BY <3>2, <4>1, <4>2
    <3>3. QED
      BY <3>1, <3>2
  <2>5. QED
    BY <1>1, <2>3, <2>4
<1>5. QED
  BY <1>2, <1>3, <1>4

(* The steps around requests keep order.                                   *)
LEMMA SurroundingsOrders ==
    ASSUME SystemInv, SystemInv', SerialInv, OneByOne, ~NameClash, "clone" \notin Ops,
           "idle" \notin Ops, Rested, OrderInv, Surroundings
    PROVE  OrderInv'
<1>1. /\ \A q \in Reqs : local'[q] = local[q]
      /\ UNCHANGED clusterVars
      /\ Untouched \/ ((Loads \/ Creates \/ Adds) /\ Grows /\ Quiet)
  BY CalmSurroundings
<1>2. unloaded' # {} => \A n \in Names : deployments'[n] = Nil /\ services'[n] = Nil
  BY <1>1, FilesGetFewer DEF OrderInv, clusterVars
<1>3. \A q \in Reqs : local'[q].op = "updateAdapter" /\ local'[q].name # Nil =>
         services'[local'[q].name] = Nil
  BY <1>1 DEF OrderInv, clusterVars
<1>4. \A q \in Reqs : \A t, j : WorksOn(q, t, j) => WorksOn(q, t, j)'
  BY <1>1 DEF WorksOn
<1>5. CASE Untouched
  <2>1. ASSUME NEW u \in ScenarioIds, NEW k \in Positions(u)'
        PROVE  /\ k \in Positions(u) /\ Same(AdapterAt(u, k)', AdapterAt(u, k))
               /\ Orderly(u, k) => Orderly(u, k)'
               /\ Omittable(u, k) => Omittable(u, k)'
    <3>1. k \in Positions(u) /\ Same(AdapterAt(u, k)', AdapterAt(u, k))
      BY <1>5, <2>1, SamePositions DEF Untouched
    <3>2. QED
      BY <1>1, <3>1, FollowsOrderly
  <2>2. ASSUME NEW u \in ScenarioIds, NEW k \in Positions(u)'
        PROVE  Orderly(u, k)' \/ \E q \in Reqs : WorksOn(q, u, k)'
    BY <1>4, <2>1, <2>2 DEF OrderInv
  <2>3. ASSUME NEW q \in Reqs, NEW u \in ScenarioIds, NEW k \in Positions(u)',
               local'[q].sid = u, local'[q].idx = k
        PROVE  StageAt(q, u, k)'
    <3>1. /\ StageAt(q, u, k) /\ local'[q] = local[q]
          /\ Same(AdapterAt(u, k)', AdapterAt(u, k))
          /\ Orderly(u, k) => Orderly(u, k)'
      BY <1>1, <2>1, <2>3 DEF OrderInv, Stage
    <3>2. /\ Served(u, k) => Served(u, k)'
          /\ Scaled(u, k) => Scaled(u, k)'
      BY <1>1, <3>1 DEF Served, Scaled, Same, Agree, clusterVars
    <3>3. QED
      BY <1>1, <3>1, <3>2 DEF StageAt, Same, Agree, clusterVars
  <2>4. ASSUME NEW q \in Reqs, local'[q].op = "launch", NEW u \in ScenarioIds,
               NEW k \in Positions(u)', local'[q].sid = u, k < local'[q].idx
        PROVE  Omittable(u, k)'
    BY <1>1, <2>1, <2>4 DEF OrderInv
  <2>5. QED
    BY <1>2, <1>3, <2>2, <2>3, <2>4 DEF OrderInv, Stage
<1>6. CASE (Loads \/ Creates \/ Adds) /\ Grows /\ Quiet
  <2>1. \A q \in Reqs : local[q] = Ready /\ local'[q] = Ready
    BY <1>1, <1>6 DEF Quiet, Rested
  <2>2. ASSUME NEW u \in ScenarioIds, NEW k \in Positions(u)'
        PROVE  Orderly(u, k)'
    <3>1. CASE k \in Positions(u)
      <4>1. Orderly(u, k)
        BY <2>1, <3>1, NilAssumption, ControlPlaneAssumption
           DEF OrderInv, WorksOn, Ready, AllOps
      <4>2. Same(AdapterAt(u, k)', AdapterAt(u, k))
        BY <1>6, <3>1 DEF Grows, Same, Agree
      <4>3. QED
        BY <1>1, <4>1, <4>2, FollowsOrderly
    <3>2. CASE k \notin Positions(u)
      BY <1>1, <1>6, <2>2, <3>2, NewOnesOrderly
    <3>3. QED
      BY <3>1, <3>2
  <2>3. \A q \in Reqs : Stage(q)' /\ local'[q].op # "launch"
    BY <2>1, NilAssumption, ControlPlaneAssumption DEF Stage, StageAt, Ready, AllOps
  <2>4. QED
    BY <1>2, <1>3, <2>2, <2>3 DEF OrderInv
<1>7. QED
  BY <1>1, <1>5, <1>6

LEMMA OrderStep ==
    ASSUME SystemInv, SystemInv', SerialInv, NamesInv, OneClaim, OwnedInv, OneByOne,
           ~LocalMode, ~Faults, ~NameClash, Rested, BackedInv, "clone" \notin Ops,
           "cleanup" \notin Ops, "idle" \notin Ops, "restart" \notin Ops, OrderInv, [Next]_vars
    PROVE  OrderInv'
<1>1. ASSUME NEW p \in Reqs, Begin(p)
      PROVE  OrderInv'
  <2>1. /\ Quiet /\ UNCHANGED <<storeVars, unloaded>> /\ unloaded = {}
        /\ \A q \in Processes \ {p} : local'[q] = local[q]
        /\ BeginsLoop(p) \/ BeginsAdapter(p)
    BY <1>1, BeginEffect DEF BeginsCleanup
  <2>2. \A q \in Reqs : local[q] = Ready /\ (q # p => local'[q] = Ready)
    BY <2>1 DEF Quiet, Rested, Processes
  <2>3. /\ UNCHANGED clusterVars
        /\ \/ /\ local'[p].op \in {"launch", "stop", "deleteScenario"}
              /\ local'[p].pc = "pick" /\ local'[p].idx = 1
           \/ /\ local'[p].op \in AdapterOps /\ local'[p].pc = "check"
              /\ local'[p].name # Nil => Usable(local'[p].name)
    <3>1. BeginsLoop(p) => /\ UNCHANGED clusterVars
                           /\ local'[p].op \in {"launch", "stop", "deleteScenario"}
                           /\ local'[p].pc = "pick" /\ local'[p].idx = 1
      BY DEF BeginsLoop, Ready
    <3>2. BeginsAdapter(p) => /\ UNCHANGED clusterVars
                              /\ local'[p].op \in AdapterOps /\ local'[p].pc = "check"
                              /\ local'[p].name # Nil => Usable(local'[p].name)
      BY DEF BeginsAdapter, Brings, Pointing, Ready
    <3>3. QED
      BY <2>1, <3>1, <3>2
  <2>4. ASSUME NEW u \in ScenarioIds, NEW k \in Positions(u)'
        PROVE  Orderly(u, k)'
    <3>1. k \in Positions(u) /\ AdapterAt(u, k)' = AdapterAt(u, k)
      BY <2>1, <2>4 DEF Positions, Holds, AdapterAt, storeVars
    <3>2. Orderly(u, k)
      BY <2>2, <3>1, NilAssumption DEF OrderInv, WorksOn, Ready
    <3>3. Same(AdapterAt(u, k)', AdapterAt(u, k))
      BY <3>1 DEF Same, Agree
    <3>4. QED
      BY <2>3, <3>2, <3>3, FollowsOrderly
  <2>5. \A q \in Reqs : Stage(q)'
    BY <2>2, <2>3, <2>4 DEF Stage, StageAt, Ready, Orderly
  <2>6. \A q \in Reqs : local'[q].op = "updateAdapter" /\ local'[q].name # Nil =>
           services'[local'[q].name] = Nil
    <3>1. \A n : Usable(n) => services[n] = Nil
      BY DEF Usable, InUse
    <3>2. Nil # "updateAdapter"
      BY NilAssumption, ControlPlaneAssumption DEF AllOps
    <3>3. QED
      BY <2>2, <2>3, <3>1, <3>2 DEF Ready, clusterVars
  <2>7. ASSUME NEW q \in Reqs, local'[q].op = "launch", NEW u \in ScenarioIds,
               NEW k \in Positions(u)', k < local'[q].idx
        PROVE  FALSE
    <3>1. q = p /\ local'[q].idx = 1
      BY <2>2, <2>3, <2>7, NilAssumption, ControlPlaneAssumption DEF Ready, AllOps, AdapterOps
    <3>2. k \in Nat \ {0}
      <4>1. k \in Positions(u)
        BY <2>1, <2>7 DEF Positions, Holds, storeVars
      <4>2. QED
        BY <4>1, PositionsAreNumbers DEF SystemInv, HeapInv
    <3>3. QED
      BY <2>7, <3>1, <3>2
  <2>8. QED
    BY <2>1, <2>4, <2>5, <2>6, <2>7 DEF OrderInv
<1>2. ~ Restart
  BY DEF Restart, Spend
<1>3. QED
  BY <1>1, <1>2, StepCases, ContinueOrders, SurroundingsOrders

LEMMA InitOrder ==
    ASSUME Init
    PROVE  OrderInv
<1>1. /\ \A sid \in ScenarioIds : Positions(sid) = {}
      /\ \A q \in Reqs : local[q] = Ready
      /\ \A n \in Names : deployments[n] = Nil /\ services[n] = Nil
  BY DEF Init, StoreInit, ClusterInit, Holds, Positions, Processes
<1>2. QED
  BY <1>1, NilAssumption, ControlPlaneAssumption DEF OrderInv, Stage, Ready, AllOps

(* If requests come one at a time, no call fails, the control plane is not *)
(* restarted and names are not given twice, then a launch that ends leaves *)
(* no adapter of its scenario behind: each is running, or has a deployment *)
(* of its own that is scaled to zero, which a launch cannot create anew    *)
(* and does not scale.                                                     *)
THEOREM LaunchesOmitNone ==
    ASSUME OneByOne, ~LocalMode, ~Faults, ~NameClash, "clone" \notin Ops, "cleanup" \notin Ops,
           "idle" \notin Ops, "restart" \notin Ops, ManifestNamesDiffer, FileNamesDiffer
    PROVE  Spec => LaunchOmitsNone
<1> DEFINE All == \A p \in Reqs, sid \in Scenarios :
              Completes(p, "launch", sid) =>
                \A i \in Positions(sid) :
                   LET x == AdapterAt(sid, i)
                   IN  \/ x.status = "running"
                       \/ deployments[x.dep] = [owner |-> x.id, replicas |-> 0]
<1>1. Init => OneClaim /\ OrderInv
  BY InitClaims, InitOrder
<1>2. SystemInv /\ OneClaim /\ [Next]_vars => OneClaim'
  BY OneClaimStep
<1>3. /\ SystemInv /\ SystemInv' /\ SerialInv /\ NamesInv /\ OneClaim /\ OwnedInv /\ Rested
      /\ BackedInv /\ OrderInv /\ [Next]_vars
      => OrderInv'
  BY OrderStep
<1>4. SystemInv /\ SerialInv /\ OrderInv => All
  <2>1. ASSUME SystemInv, SerialInv, OrderInv, NEW p \in Reqs, NEW sid \in Scenarios,
               Completes(p, "launch", sid), NEW i \in Positions(sid)
        PROVE  Omittable(sid, i)
    <3>1. /\ sid \in ScenarioIds /\ Holds(sid) /\ local[p].op = "launch"
          /\ local[p].sid = sid /\ local[p].pc = "finish"
      BY <2>1 DEF Scenarios, Completes, At
    <3>2. local[p].idx > Size(sid) /\ local[p].idx \in Nat
      <4>1. InStep(p) /\ local[p].idx \in Nat
        BY <2>1 DEF SerialInv, SystemInv, LocalsInv, Local, Processes
      <4>2. QED
        BY <3>1, <4>1 DEF InStep, LoopOps
    <3>3. Positions(sid) = 1 .. Size(sid) /\ Size(sid) \in Nat
      BY <2>1, <3>1, SlotFacts DEF SystemInv, HeapInv
    <3>4. i < local[p].idx
      BY <2>1, <3>2, <3>3
    <3>5. QED
      BY <2>1, <3>1, <3>4 DEF OrderInv
  <2>2. QED
    BY <2>1 DEF Omittable
<1>5. All => [All]_vars
  OBVIOUS
<1>6. QED
  BY <1>1, <1>2, <1>3, <1>4, <1>5, SystemInvariant, Serial, NamesInvariant,
     OwnedInvariant, BackedInvariant, PTL DEF Spec, LaunchOmitsNone

=============================================================================
