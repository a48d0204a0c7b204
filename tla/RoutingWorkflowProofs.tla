----------------------- MODULE RoutingWorkflowProofs -----------------------
(***************************************************************************)
(* Proofs about RoutingWorkflow, for any number of concurrent requests,    *)
(* any graphs and any number of versions: the configuration in force is    *)
(* the published version's, it is valid, and every change of it deploys    *)
(* under another number.                                                   *)
(***************************************************************************)
EXTENDS Routing, TLAPS

\* The inductive invariant.
IInv == WorkflowTypeOK /\ RequestInv /\ OnePublished /\ ConfigNamesPublished /\ ConfigIsValid

\* It holds before the workflow is created.
LEMMA InitHolds == WorkflowInit => IInv
<1> SUFFICES ASSUME WorkflowInit PROVE IInv
  OBVIOUS
<1> USE GraphAssumption, BoundAssumption DEF WorkflowInit, NoRow, NoVersion, NoConfig, NoPick
<1>1. WorkflowTypeOK
  BY DEF WorkflowTypeOK
<1>2. RequestInv
  BY DEF RequestInv, Id
<1>3. Published = {}
  BY DEF Published
<1>4. OnePublished /\ ConfigNamesPublished /\ ConfigIsValid
  BY <1>3 DEF OnePublished, ConfigNamesPublished, ConfigIsValid
<1> QED
  BY <1>1, <1>2, <1>4 DEF IInv

\* What a request assigns to its copy and saves is a row again.
LEMMA UpdatedRow ==
  ASSUME WorkflowTypeOK, NEW r \in Request, copy[r] # NoRow, workflow # NoRow,
         NEW s \in {"draft", "published"}, NEW v \in Nat \ {0}, NEW g \in Graph
  PROVE  /\ Updated(r, s, v, g) \in Row
         /\ Updated(r, s, v, g) # NoRow
         /\ v # copy[r].current => Updated(r, s, v, g).current = v
BY DEF Updated, Dirty, WorkflowTypeOK, Row, NoRow

\* A request that ends, with the rows unchanged but for the workflow's.
LEMMA RowSteps ==
  ASSUME IInv, NEW r \in Request, Save(r) \/ GiveUp(r)
  PROVE  IInv'
<1> USE DEF IInv
<1>1. workflow' \in Row \/ workflow' = workflow
  <2>1. CASE Save(r)
    <3>1. copy[r] # NoRow /\ workflow # NoRow
      BY <2>1 DEF Save, RequestInv
    <3>2. copy[r].current \in Nat \ {0}
      BY <3>1 DEF WorkflowTypeOK, Row
    <3> QED
      BY <2>1, <3>1, <3>2, UpdatedRow DEF Save
  <2>2. CASE GiveUp(r)
    BY <2>2 DEF GiveUp, store
  <2> QED
    BY <2>1, <2>2
<1>2. UNCHANGED <<versions, made, config>> /\ Return(r)
  BY DEF Save, GiveUp, store
<1>3. WorkflowTypeOK'
  BY <1>1, <1>2 DEF WorkflowTypeOK, Return
<1>4. Published' = Published
  BY <1>2 DEF Published
<1>5. RequestInv'
  <2>1. \A i \in Id : (versions[i] = NoVersion <=> i > made)'
    BY <1>2 DEF RequestInv
  <2>2. workflow # NoRow => workflow' # NoRow
    BY <1>1 DEF Row, NoRow
  <2> QED
    BY <1>2, <1>4, <2>1, <2>2 DEF RequestInv, Return, WorkflowTypeOK
<1> QED
  BY <1>2, <1>3, <1>4, <1>5 DEF OnePublished, ConfigNamesPublished, ConfigIsValid

\* Binding the models of a request, and creating the row.
LEMMA LoadSteps ==
  ASSUME IInv, NEW r \in Request, Load(r) \/ Create(r) \/ PickVersion(r)
  PROVE  IInv'
<1> USE DEF IInv
<1>1. UNCHANGED <<versions, made, config>>
  BY DEF Load, Create, PickVersion, store
<1>2. Published' = Published
  BY <1>1 DEF Published
<1>3. (OnePublished /\ ConfigNamesPublished /\ ConfigIsValid)'
  BY <1>1, <1>2 DEF OnePublished, ConfigNamesPublished, ConfigIsValid
<1>4. \A i \in Id : (versions[i] = NoVersion <=> i > made)'
  BY <1>1 DEF RequestInv
<1>5. CASE Load(r)
  <2>1. WorkflowTypeOK'
    BY <1>5 DEF Load, store, WorkflowTypeOK
  <2>2. RequestInv'
    BY <1>1, <1>2, <1>4, <1>5 DEF Load, store, RequestInv, WorkflowTypeOK
  <2> QED
    BY <1>3, <2>1, <2>2
<1>6. CASE Create(r)
  <2>1. PICK g \in Graph :
          /\ workflow' = [status |-> "draft", current |-> 1, nodes |-> g]
          /\ copy' = [copy EXCEPT ![r] = workflow']
    BY <1>6 DEF Create
  <2>2. workflow' \in Row /\ workflow' # NoRow
    BY <2>1 DEF Row, NoRow
  <2>3. WorkflowTypeOK'
    BY <1>6, <2>1, <2>2 DEF Create, WorkflowTypeOK
  <2>4. RequestInv'
    BY <1>1, <1>2, <1>4, <1>6, <2>1, <2>2 DEF Create, RequestInv, WorkflowTypeOK
  <2> QED
    BY <1>3, <2>3, <2>4
<1>7. CASE PickVersion(r)
  <2>1. PICK i \in Id :
          /\ versions[i].status \in Live
          /\ picked' = [picked EXCEPT ![r] = [id |-> i, status |-> versions[i].status]]
    BY <1>7 DEF PickVersion
  <2>2. picked' \in [Request -> [id : Id, status : Live] \union {NoPick}]
    BY <2>1 DEF WorkflowTypeOK
  <2>3. WorkflowTypeOK'
    BY <1>7, <2>2 DEF PickVersion, store, WorkflowTypeOK
  <2>4. i <= made
    <3>1. versions[i] # NoVersion
      BY <2>1 DEF Live, NoVersion
    <3> QED
      BY <3>1, BoundAssumption DEF RequestInv, WorkflowTypeOK, Id
  <2>5. picked'[r].id = i /\ picked'[r].status = versions[i].status /\ picked'[r] # NoPick
    BY <2>1, BoundAssumption DEF WorkflowTypeOK, NoPick, Id
  <2>6. versions[i].status # "published" => i \notin Published
    BY DEF Published
  <2>7. \A x \in Request \ {r} : picked'[x] = picked[x] /\ step'[x] = step[x]
    BY <1>7, <2>1 DEF PickVersion, WorkflowTypeOK
  <2>8. step'[r] = "picked" /\ step[r] = "loaded"
    BY <1>7 DEF PickVersion, WorkflowTypeOK
  <2>9. copy' = copy /\ workflow' = workflow
    BY <1>7 DEF PickVersion, store
  <2>10. RequestInv'
    BY <1>1, <1>2, <1>4, <2>4, <2>5, <2>6, <2>7, <2>8, <2>9 DEF RequestInv
  <2> QED
    BY <1>3, <2>3, <2>10
<1> QED
  BY <1>5, <1>6, <1>7

\* What an inserted version changes in the table.
LEMMA InsertedRow ==
  ASSUME WorkflowTypeOK, RequestInv, NEW row \in Row, NEW status \in {"draft", "published"},
         Snapshot(row, status)
  PROVE  /\ made' = made + 1 /\ made' \in Id
         /\ versions' \in [Id -> [version : Nat \ {0}, status : Live \union {"deleted"},
                                  nodes : Graph] \union {NoVersion}]
         /\ \A i \in Id : (versions[i] = NoVersion <=> i > made)'
         /\ versions'[made'] = [version |-> row.current, status |-> status, nodes |-> row.nodes]
         /\ \A i \in Id \ {made'} : versions'[i] =
              IF status = "published" /\ i \in Published
              THEN [versions[i] EXCEPT !.status = "archived"] ELSE versions[i]
         /\ Published' = IF status = "published" THEN {made'} ELSE Published
<1> DEFINE V == [version : Nat \ {0}, status : Live \union {"deleted"}, nodes : Graph]
           rows == IF status = "published" THEN Archived ELSE versions
           new == [version |-> row.current, status |-> status, nodes |-> row.nodes]
<1>1. made' = made + 1 /\ made' \in Id /\ made \in Nat
  BY BoundAssumption DEF Snapshot, Inserted, WorkflowTypeOK, Id
<1>2. rows \in [Id -> V \union {NoVersion}]
  <2>1. \A i \in Published : versions[i] \in V
    BY DEF Published, WorkflowTypeOK, NoVersion
  <2>2. \A i \in Published : [versions[i] EXCEPT !.status = "archived"] \in V
    BY <2>1 DEF Live
  <2> QED
    BY <2>2 DEF Archived, WorkflowTypeOK
<1>3. new \in V
  BY DEF Row, Live
<1>4. versions' = [rows EXCEPT ![made'] = new]
  BY <1>1 DEF Snapshot, Inserted
<1>5. versions'[made'] = new /\ \A i \in Id \ {made'} : versions'[i] = rows[i]
  BY <1>1, <1>2, <1>4
<1>6. \A i \in Id : rows[i] = IF status = "published" /\ i \in Published
                              THEN [versions[i] EXCEPT !.status = "archived"] ELSE versions[i]
  BY DEF Archived
<1>7. versions' \in [Id -> V \union {NoVersion}]
  BY <1>1, <1>2, <1>3, <1>4
<1>8. \A i \in Id : versions'[i] = NoVersion <=> i > made'
  <2>1. new # NoVersion
    BY <1>3 DEF NoVersion
  <2>2. ASSUME NEW i \in Id PROVE rows[i] = NoVersion <=> versions[i] = NoVersion
    <3>1. CASE i \in Published
      <4>1. versions[i] \in V /\ versions[i].status = "published"
        BY <3>1 DEF Published, WorkflowTypeOK, NoVersion
      <4>2. rows[i] = versions[i] \/ rows[i] = [versions[i] EXCEPT !.status = "archived"]
        BY <1>6, <3>1
      <4>3. rows[i].version = versions[i].version /\ versions[i].version # 0
        BY <4>1, <4>2
      <4> QED
        BY <4>1, <4>3 DEF NoVersion
    <3>2. CASE i \notin Published
      BY <1>6, <3>2
    <3> QED
      BY <3>1, <3>2
  <2>3. \A i \in Id : i \in Int
    BY BoundAssumption DEF Id
  <2>4. \A i \in Id \ {made'} : versions'[i] = NoVersion <=> i > made
    BY <1>5, <2>2 DEF RequestInv
  <2>5. \A i \in Id \ {made'} : i > made <=> i > made'
    BY <1>1, <2>3
  <2> QED
    BY <1>1, <1>5, <2>1, <2>4, <2>5
<1>9. Published' = IF status = "published" THEN {made'} ELSE Published
  <2>1. versions[made'] = NoVersion /\ made' \notin Published
    BY <1>1 DEF RequestInv, Published, NoVersion
  <2>2. CASE status = "published"
    <3>1. ASSUME NEW i \in Id \ {made'} PROVE versions'[i].status # "published"
      <4>1. CASE i \in Published
        <5>1. versions[i] \in V
          BY <4>1 DEF Published, WorkflowTypeOK, NoVersion
        <5> QED
          BY <1>5, <1>6, <2>2, <4>1, <5>1
      <4>2. CASE i \notin Published
        BY <1>5, <1>6, <4>2 DEF Published
      <4> QED
        BY <4>1, <4>2
    <3>2. versions'[made'].status = "published"
      BY <1>5, <2>2
    <3> HIDE DEF new, rows, V
    <3>3. Published' = {made'}
      BY <1>1, <3>1, <3>2 DEF Published
    <3> QED
      BY <2>2, <3>3
  <2>3. CASE status = "draft"
    BY <1>1, <1>5, <1>6, <2>1, <2>3 DEF Published
  <2> QED
    BY <2>2, <2>3
<1> QED
  BY <1>1, <1>5, <1>6, <1>7, <1>8, <1>9

\* Requests that hold a version still hold it after another one was inserted.
LEMMA InsertionKeepsRequests ==
  ASSUME IInv, NEW r \in Request, NEW row \in Row, NEW status \in {"draft", "published"},
         Snapshot(row, status), Return(r), workflow' \in Row
  PROVE  RequestInv'
<1> USE DEF IInv
<1>1. made' = made + 1 /\ made \in Nat /\ \A i \in Id : (versions[i] = NoVersion <=> i > made)'
  <2>1. made \in Nat
    BY BoundAssumption DEF WorkflowTypeOK
  <2> QED
    BY <2>1, InsertedRow
<1>2. Published' \subseteq Published \union {made'}
  BY InsertedRow
<1>3. workflow' # NoRow
  BY DEF Row, NoRow
<1>4. ASSUME NEW x \in Request, step'[x] = "picked"
      PROVE  /\ picked'[x] # NoPick
             /\ picked'[x].id <= made'
             /\ picked'[x].status # "published" => picked'[x].id \notin Published'
  <2>1. x # r
    BY <1>4 DEF Return, WorkflowTypeOK
  <2>2. picked'[x] = picked[x] /\ step[x] = "picked"
    BY <1>4, <2>1 DEF Return, WorkflowTypeOK
  <2>3. picked[x].id \in Int /\ picked[x].id <= made /\ picked[x] # NoPick
    BY <2>2, BoundAssumption DEF RequestInv, WorkflowTypeOK, Id
  <2> QED
    BY <1>1, <1>2, <2>2, <2>3 DEF RequestInv
<1>5. ASSUME NEW x \in Request, step'[x] \in {"created", "loaded", "picked"}
      PROVE  copy'[x] # NoRow
  BY <1>5 DEF Return, WorkflowTypeOK, RequestInv
<1> QED
  BY <1>1, <1>3, <1>4, <1>5 DEF RequestInv

\* The snapshot of a creation or of a rollback leaves the configuration alone.
LEMMA DraftSteps ==
  ASSUME IInv, NEW r \in Request, FirstSnapshot(r) \/ RollbackWorkflow(r)
  PROVE  IInv' /\ Published' = Published /\ config' = config
<1> USE DEF IInv
<1>1. \E row \in Row : Snapshot(row, "draft") /\ workflow' \in Row
  <2>1. CASE FirstSnapshot(r)
    <3>1. copy[r] # NoRow /\ workflow # NoRow
      BY <2>1 DEF FirstSnapshot, RequestInv
    <3> QED
      BY <2>1, <3>1 DEF FirstSnapshot, WorkflowTypeOK
  <2>2. CASE RollbackWorkflow(r)
    <3> DEFINE i == picked[r].id
               row == Updated(r, "draft", copy[r].current + 1, versions[i].nodes)
    <3>1. copy[r] # NoRow /\ workflow # NoRow /\ picked[r] # NoPick /\ i <= made
      BY <2>2 DEF RollbackWorkflow, RequestInv
    <3>2. i \in Id /\ versions[i] # NoVersion
      BY <3>1, BoundAssumption DEF WorkflowTypeOK, RequestInv, Id
    <3>3. versions[i].nodes \in Graph
      BY <3>2 DEF WorkflowTypeOK
    <3>4. copy[r].current + 1 \in Nat \ {0}
      BY <3>1 DEF WorkflowTypeOK, Row
    <3>5. row \in Row
      BY <3>1, <3>3, <3>4, UpdatedRow
    <3> QED
      BY <2>2, <3>5 DEF RollbackWorkflow
  <2> QED
    BY <2>1, <2>2
<1>2. PICK row \in Row : Snapshot(row, "draft") /\ workflow' \in Row
  BY <1>1
<1>3. Return(r) /\ config' = config
  BY DEF FirstSnapshot, RollbackWorkflow
<1>4. /\ made' = made + 1 /\ made' \in Id
      /\ versions' \in [Id -> [version : Nat \ {0}, status : Live \union {"deleted"},
                               nodes : Graph] \union {NoVersion}]
      /\ Published' = Published
      /\ \A i \in Id \ {made'} : versions'[i] = versions[i]
      /\ versions[made'] = NoVersion
  <2>1. made' = made + 1 /\ made' \in Id
    BY <1>2, InsertedRow
  <2>2. made \in Nat
    BY BoundAssumption DEF WorkflowTypeOK
  <2>3. versions[made'] = NoVersion
    BY <2>1, <2>2 DEF RequestInv
  <2> QED
    BY <1>2, <2>1, <2>3, InsertedRow
<1>5. WorkflowTypeOK'
  BY <1>2, <1>3, <1>4 DEF WorkflowTypeOK, Return, Id
<1>6. RequestInv'
  BY <1>2, <1>3, InsertionKeepsRequests
<1>7. \A i \in Published : versions'[i] = versions[i]
  BY <1>4 DEF Published, NoVersion
<1>8. (OnePublished /\ ConfigNamesPublished /\ ConfigIsValid)'
  BY <1>3, <1>4, <1>7 DEF OnePublished, ConfigNamesPublished, ConfigIsValid
<1> QED
  BY <1>3, <1>4, <1>5, <1>6, <1>8

\* publishWorkflow: the new version is the only published one and gives the
\* configuration its number; the number in force is taken, so this one is another.
LEMMA PublishSteps ==
  ASSUME IInv, NEW r \in Request, PublishWorkflow(r)
  PROVE  /\ IInv'
         /\ config' \in [version : Nat \ {config.version}, nodes : Valid]
         /\ Published' = {made'} /\ made' \notin Published /\ made' \in Id
         /\ \A i \in Published : versions'[i].status = "archived"
<1> USE DEF IInv
<1> DEFINE row == Updated(r, "published", copy[r].current + 1, copy[r].nodes)
<1>1. copy[r] # NoRow /\ workflow # NoRow
  BY DEF PublishWorkflow, RequestInv
<1>2. copy[r].current \in Nat \ {0} /\ copy[r].nodes \in Graph
  BY <1>1 DEF WorkflowTypeOK, Row
<1>3. row \in Row /\ row # NoRow
  <2>1. copy[r].current + 1 \in Nat \ {0}
    BY <1>2
  <2> QED
    BY <1>1, <1>2, <2>1, UpdatedRow
<1>4. Snapshot(row, "published") /\ workflow' = row /\ Return(r) /\ copy[r].nodes \in Valid
      /\ config' = [version |-> row.current, nodes |-> copy[r].nodes]
  BY DEF PublishWorkflow
<1>5. /\ made' = made + 1 /\ made' \in Id /\ Published' = {made'}
      /\ versions' \in [Id -> [version : Nat \ {0}, status : Live \union {"deleted"},
                               nodes : Graph] \union {NoVersion}]
      /\ versions'[made'] = [version |-> row.current, status |-> "published", nodes |-> row.nodes]
      /\ \A i \in Published \ {made'} : versions'[i] = [versions[i] EXCEPT !.status = "archived"]
  BY <1>3, <1>4, InsertedRow DEF Published
<1>6. row.current \in Nat \ {0}
  BY <1>3 DEF Row
<1>7. made' \notin Published
  BY <1>5, BoundAssumption DEF RequestInv, WorkflowTypeOK, Id, Published, NoVersion
<1>8. WorkflowTypeOK'
  BY <1>2, <1>3, <1>4, <1>5, <1>6 DEF WorkflowTypeOK, Return, Id
<1>9. RequestInv'
  BY <1>3, <1>4, InsertionKeepsRequests
<1>10. (OnePublished /\ ConfigNamesPublished /\ ConfigIsValid)'
  BY <1>4, <1>5, <1>6 DEF OnePublished, ConfigNamesPublished, ConfigIsValid, NoConfig
<1>11. row.current # config.version
  <2>1. CASE Published = {}
    BY <1>6, <2>1 DEF ConfigNamesPublished, NoConfig
  <2>2. CASE Published # {}
    <3>1. PICK i \in Published : versions[i].version = config.version
      BY <2>2 DEF ConfigNamesPublished
    <3>2. Taken(config.version)
      BY <3>1 DEF Taken, Live, Published
    <3> QED
      BY <1>4, <3>2 DEF Snapshot
  <2> QED
    BY <2>1, <2>2
<1>12. \A i \in Published : versions'[i].status = "archived"
  <2> SUFFICES ASSUME NEW i \in Published PROVE versions'[i].status = "archived"
    OBVIOUS
  <2>1. versions[i] \in [version : Nat \ {0}, status : Live \union {"deleted"}, nodes : Graph]
    BY DEF Published, WorkflowTypeOK, NoVersion
  <2> QED
    BY <1>5, <1>7, <2>1
<1> QED
  BY <1>4, <1>5, <1>6, <1>7, <1>8, <1>9, <1>10, <1>11, <1>12

\* deleteVersion: what it saw as a draft or archived is not published now.
LEMMA DeleteSteps ==
  ASSUME IInv, NEW r \in Request, Delete(r)
  PROVE  IInv' /\ Published' = Published /\ config' = config
<1> USE DEF IInv
<1> DEFINE i == picked[r].id
<1>1. picked[r] # NoPick /\ i <= made /\ i \notin Published
  BY DEF Delete, RequestInv
<1>2. i \in Id /\ versions[i] # NoVersion
  BY <1>1, BoundAssumption DEF WorkflowTypeOK, RequestInv, Id
<1>3. versions[i] \in [version : Nat \ {0}, status : Live \union {"deleted"}, nodes : Graph]
  BY <1>2 DEF WorkflowTypeOK
<1>4. versions' = [versions EXCEPT ![i].status = "deleted"] /\ Return(r)
      /\ UNCHANGED <<workflow, made, config>>
  BY DEF Delete
<1>5. /\ \A j \in Id \ {i} : versions'[j] = versions[j]
      /\ versions'[i] = [versions[i] EXCEPT !.status = "deleted"]
  BY <1>2, <1>4 DEF WorkflowTypeOK
<1>6. versions'[i] \in [version : Nat \ {0}, status : Live \union {"deleted"}, nodes : Graph]
      /\ versions'[i].status = "deleted"
  BY <1>3, <1>5
<1>7. Published' = Published
  BY <1>1, <1>5, <1>6 DEF Published
<1>8. WorkflowTypeOK'
  BY <1>2, <1>4, <1>6 DEF WorkflowTypeOK, Return
<1>9. \A j \in Id : (versions[j] = NoVersion <=> j > made)'
  BY <1>2, <1>4, <1>5, <1>6 DEF RequestInv, NoVersion
<1>10. RequestInv'
  BY <1>4, <1>7, <1>9 DEF RequestInv, Return, WorkflowTypeOK
<1>11. \A j \in Published : versions'[j] = versions[j]
  BY <1>1, <1>5 DEF Published
<1>12. (OnePublished /\ ConfigNamesPublished /\ ConfigIsValid)'
  BY <1>4, <1>7, <1>11 DEF OnePublished, ConfigNamesPublished, ConfigIsValid
<1> QED
  BY <1>4, <1>7, <1>8, <1>10, <1>12

\* Every step keeps the invariant.
LEMMA NextHolds == IInv /\ [WorkflowNext]_workflowVars => IInv'
<1> SUFFICES ASSUME IInv, [WorkflowNext]_workflowVars PROVE IInv'
  OBVIOUS
<1>1. CASE UNCHANGED workflowVars
  BY <1>1 DEF workflowVars, store, IInv, WorkflowTypeOK, RequestInv, OnePublished, ConfigNamesPublished,
              ConfigIsValid, Published
<1>2. CASE WorkflowNext
  <2>1. PICK r \in Request :
          \/ Load(r) \/ Create(r) \/ FirstSnapshot(r)
          \/ Save(r) \/ PublishWorkflow(r)
          \/ PickVersion(r) \/ RollbackWorkflow(r) \/ Delete(r)
          \/ GiveUp(r)
    BY <1>2 DEF WorkflowNext
  <2> QED
    BY <2>1, LoadSteps, DraftSteps, RowSteps, PublishSteps, DeleteSteps
<1> QED
  BY <1>1, <1>2

\* The workflow administration keeps its invariant for ever.
LEMMA WorkflowInvariant == WorkflowSpec => []IInv
<1> QED
  BY InitHolds, NextHolds, PTL DEF WorkflowSpec

----------------------------------------------------------------------------
\* A behaviour of the routing side is one of this part.
LEMMA WorkflowPart == Spec => WorkflowSpec
<1>1. Init => WorkflowInit
  BY DEF Init
<1>2. [Next]_vars => [WorkflowNext]_workflowVars
  BY DEF Next, vars
<1> QED
  BY <1>1, <1>2, PTL DEF Spec, WorkflowSpec

\* At most one version is published, whatever the requests' copies were.
THEOREM PublishedOnce == Spec => []OnePublished
<1>1. IInv => OnePublished
  BY DEF IInv
<1> QED
  BY <1>1, WorkflowInvariant, WorkflowPart, PTL

\* The configuration in force is the published version's.
THEOREM ConfigNamed == Spec => []ConfigNamesPublished
<1>1. IInv => ConfigNamesPublished
  BY DEF IInv
<1> QED
  BY <1>1, WorkflowInvariant, WorkflowPart, PTL

\* The configuration in force was validated.
THEOREM ConfigValidated == Spec => []ConfigIsValid
<1>1. IInv => ConfigIsValid
  BY DEF IInv
<1> QED
  BY <1>1, WorkflowInvariant, WorkflowPart, PTL

\* Only PublishWorkflow touches the configuration or the published versions.
LEMMA OnlyPublishDeploys ==
  ASSUME IInv, [WorkflowNext]_workflowVars
  PROVE  \/ config' = config /\ Published' = Published
         \/ \E r \in Request : PublishWorkflow(r)
<1>1. CASE UNCHANGED workflowVars
  BY <1>1 DEF workflowVars, store, Published
<1>2. CASE WorkflowNext
  <2>1. PICK r \in Request :
          \/ Load(r) \/ Create(r) \/ FirstSnapshot(r)
          \/ Save(r) \/ PublishWorkflow(r)
          \/ PickVersion(r) \/ RollbackWorkflow(r) \/ Delete(r)
          \/ GiveUp(r)
    BY <1>2 DEF WorkflowNext
  <2>2. CASE Load(r) \/ Create(r) \/ PickVersion(r) \/ Save(r) \/ GiveUp(r)
    BY <2>2 DEF Load, Create, PickVersion, Save, GiveUp, store, Published
  <2>3. CASE FirstSnapshot(r) \/ RollbackWorkflow(r)
    BY <2>3, DraftSteps
  <2>4. CASE Delete(r)
    BY <2>4, DeleteSteps
  <2> QED
    BY <2>1, <2>2, <2>3, <2>4
<1> QED
  BY <1>1, <1>2

\* A published version leaves that status only for another one.
THEOREM PublishedKept == Spec => PublishedIsKept
<1>1. IInv /\ [WorkflowNext]_workflowVars => [KeepsPublished]_workflowVars
  <2> SUFFICES ASSUME IInv, [WorkflowNext]_workflowVars, NEW i \in Published, versions'[i].status # "published"
               PROVE  versions'[i].status = "archived" /\ Published' # {}
    BY DEF KeepsPublished
  <2>1. Published' # Published
    BY DEF Published
  <2> QED
    BY <2>1, OnlyPublishDeploys, PublishSteps
<1> QED
  BY <1>1, WorkflowInvariant, WorkflowPart, PTL DEF WorkflowSpec, PublishedIsKept

\* The administration implements the contract with the payment service.
THEOREM DeploysByContract == Spec => ImplementsContract
<1>1. WorkflowInit => Contract!Init
  BY DEF WorkflowInit, NoConfig, Contract!Init
<1>2. IInv /\ [WorkflowNext]_workflowVars => [Contract!Deploy]_config
  <2> SUFFICES ASSUME IInv, [WorkflowNext]_workflowVars PROVE Contract!Deploy \/ config' = config
    OBVIOUS
  <2> QED
    BY OnlyPublishDeploys, PublishSteps DEF Contract!Deploy
<1> QED
  BY <1>1, <1>2, WorkflowInvariant, WorkflowPart, PTL DEF WorkflowSpec, ImplementsContract, Contract!Spec
=============================================================================
