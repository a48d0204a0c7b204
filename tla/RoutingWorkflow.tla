-------------------------- MODULE RoutingWorkflow --------------------------
(***************************************************************************)
(* The routing workflow of one merchant and environment                    *)
(* (admin-laravel/app/app/Services/RoutingWorkflowService.php): its row,   *)
(* its numbered versions and the provider_routing_configurations row that  *)
(* the payment service reads.                                              *)
(*                                                                         *)
(* Every request works on a copy of the row that route-model binding       *)
(* loaded for it, and Eloquent writes back only the attributes that differ *)
(* from that copy.  A transaction's first statement locks the row until    *)
(* its commit, so publish and rollback are one step each; save, create and *)
(* delete are single statements.  A graph (nodes and edges) is a value     *)
(* that is valid or not; layout, names and validation_errors are left out. *)
(***************************************************************************)
EXTENDS Integers

CONSTANTS
    Request,       \* requests handled at the same time, each again and again
    Graph,         \* graphs an administrator may draw
    Valid,         \* those validateWorkflow finds no error in
    Null,
    MaxVersions    \* bound: version rows ever inserted

ASSUME GraphAssumption == Valid \subseteq Graph /\ Null \notin Graph
ASSUME BoundAssumption == MaxVersions \in Nat

VARIABLES
    workflow,   \* the row of routing_workflows
    versions,   \* the rows of routing_workflow_versions, by primary key
    made,       \* how many of those were ever inserted
    config,     \* the row of provider_routing_configurations
    step,       \* where a request stands
    copy,       \* the workflow as the request loaded it
    picked      \* the version it loaded: its key, and its status then

store == <<workflow, versions, made, config>>
workflowVars == <<store, step, copy, picked>>

Id == 1..MaxVersions
NoRow == [status |-> "absent", current |-> 0, nodes |-> Null]
NoVersion == [version |-> 0, status |-> "none", nodes |-> Null]
NoConfig == [version |-> 0, nodes |-> Null]
NoPick == [id |-> 0, status |-> "none"]

Live == {"draft", "published", "archived"}

Row == [status : {"draft", "published"}, current : Nat \ {0}, nodes : Graph]

WorkflowTypeOK ==
    /\ workflow \in Row \union {NoRow}
    /\ versions \in [Id -> [version : Nat \ {0}, status : Live \union {"deleted"}, nodes : Graph]
                            \union {NoVersion}]
    /\ made \in 0..MaxVersions
    /\ config \in [version : Nat \ {0}, nodes : Graph] \union {NoConfig}
    /\ step \in [Request -> {"idle", "creating", "created", "loaded", "picked"}]
    /\ copy \in [Request -> Row \union {NoRow}]
    /\ picked \in [Request -> [id : Id, status : Live] \union {NoPick}]

WorkflowInit ==
    /\ workflow = NoRow
    /\ versions = [i \in Id |-> NoVersion]
    /\ made = 0
    /\ config = NoConfig
    /\ step = [r \in Request |-> "idle"]
    /\ copy = [r \in Request |-> NoRow]
    /\ picked = [r \in Request |-> NoPick]

Published == {i \in Id : versions[i].status = "published"}

Return(r) ==
    /\ step' = [step EXCEPT ![r] = "idle"]
    /\ copy' = [copy EXCEPT ![r] = NoRow]
    /\ picked' = [picked EXCEPT ![r] = NoPick]

-----------------------------------------------------------------------------
(***************************************************************************)
(* Eloquent and the version table                                          *)
(***************************************************************************)

Dirty(loaded, assigned, stored) == IF assigned = loaded THEN stored ELSE assigned

\* The row once r has assigned a status, a version number and a graph to its
\* copy and saved it.
Updated(r, status, current, nodes) ==
    [status  |-> Dirty(copy[r].status, status, workflow.status),
     current |-> Dirty(copy[r].current, current, workflow.current),
     nodes   |-> Dirty(copy[r].nodes, nodes, workflow.nodes)]

\* UNIQUE (workflow_id, version)
Taken(v) == \E i \in Id : versions[i].status \in Live /\ versions[i].version = v

Archived == [i \in Id |-> IF i \in Published THEN [versions[i] EXCEPT !.status = "archived"]
                                             ELSE versions[i]]

Inserted(rows, row, status) ==
    /\ made < MaxVersions
    /\ made' = made + 1
    /\ versions' = [rows EXCEPT ![made + 1] =
                      [version |-> row.current, status |-> status, nodes |-> row.nodes]]

\* Fault: the insertion replaces whatever has the number.
Overwrite(row, status) ==
    Inserted(IF status = "published" THEN Archived ELSE versions, row, status)

\* Fault: the versions that were published before are not retired.
SnapshotOnly(row, status) ==
    /\ ~Taken(row.current)
    /\ Inserted(versions, row, status)

\* snapshot(): a number that is taken makes the insertion fail, and with it the
\* transaction around it.
Snapshot(row, status) ==
    /\ ~Taken(row.current)
    /\ Inserted(IF status = "published" THEN Archived ELSE versions, row, status)

-----------------------------------------------------------------------------
(***************************************************************************)
(* Requests                                                                *)
(***************************************************************************)

\* Route-model binding, or createWorkflow looking for the existing row.
Load(r) ==
    /\ step[r] = "idle"
    /\ step' = [step EXCEPT ![r] = IF workflow = NoRow THEN "creating" ELSE "loaded"]
    /\ copy' = [copy EXCEPT ![r] = workflow]
    /\ UNCHANGED <<store, picked>>

\* The second of two creations violates the unique index on the pair.
Create(r) ==
    /\ step[r] = "creating"
    /\ workflow = NoRow
    /\ \E g \in Graph :
         /\ workflow' = [status |-> "draft", current |-> 1, nodes |-> g]
         /\ copy' = [copy EXCEPT ![r] = workflow']
    /\ step' = [step EXCEPT ![r] = "created"]
    /\ UNCHANGED <<versions, made, config, picked>>

FirstSnapshot(r) ==
    /\ step[r] = "created"
    /\ Snapshot(copy[r], "draft")
    /\ Return(r)
    /\ UNCHANGED <<workflow, config>>

\* updateWorkflow; a published workflow becomes a draft, an invalid graph is
\* stored with its errors.
Save(r) ==
    /\ step[r] = "loaded"
    /\ \E g \in Graph : workflow' = Updated(r, "draft", copy[r].current, g)
    /\ Return(r)
    /\ UNCHANGED <<versions, made, config>>

\* Fault: the configuration is built from the refreshed row.
PublishRefreshed(r) ==
    LET row == Updated(r, "published", copy[r].current + 1, copy[r].nodes) IN
    /\ step[r] = "loaded"
    /\ copy[r].nodes \in Valid
    /\ workflow' = row
    /\ Snapshot(row, "published")
    /\ config' = [version |-> row.current, nodes |-> row.nodes]
    /\ Return(r)

\* Fault: the number in the configuration is the one before the refresh.
PublishLoadedNumber(r) ==
    LET row == Updated(r, "published", copy[r].current + 1, copy[r].nodes) IN
    /\ step[r] = "loaded"
    /\ copy[r].nodes \in Valid
    /\ workflow' = row
    /\ Snapshot(row, "published")
    /\ config' = [version |-> copy[r].current, nodes |-> copy[r].nodes]
    /\ Return(r)

\* publishWorkflow validates and deploys the graph it loaded; the snapshot is of
\* the row as refreshed.
PublishWorkflow(r) ==
    LET row == Updated(r, "published", copy[r].current + 1, copy[r].nodes) IN
    /\ step[r] = "loaded"
    /\ copy[r].nodes \in Valid
    /\ workflow' = row
    /\ Snapshot(row, "published")
    /\ config' = [version |-> row.current, nodes |-> copy[r].nodes]
    /\ Return(r)

\* The version of a rollback, a renaming or a deletion is bound after its workflow.
PickVersion(r) ==
    /\ step[r] = "loaded"
    /\ \E i \in Id :
         /\ versions[i].status \in Live
         /\ picked' = [picked EXCEPT ![r] = [id |-> i, status |-> versions[i].status]]
    /\ step' = [step EXCEPT ![r] = "picked"]
    /\ UNCHANGED <<store, copy>>

\* rollbackWorkflow
RollbackWorkflow(r) ==
    LET row == Updated(r, "draft", copy[r].current + 1, versions[picked[r].id].nodes) IN
    /\ step[r] = "picked"
    /\ workflow' = row
    /\ Snapshot(row, "draft")
    /\ Return(r)
    /\ UNCHANGED config

\* Fault: only the current version is protected.
DeleteUnlessCurrent(r) ==
    LET i == picked[r].id IN
    /\ step[r] = "picked"
    /\ versions[i].version # copy[r].current
    /\ versions' = [versions EXCEPT ![i].status = "deleted"]
    /\ Return(r)
    /\ UNCHANGED <<workflow, made, config>>

\* deleteVersion
Delete(r) ==
    LET i == picked[r].id IN
    /\ step[r] = "picked"
    /\ picked[r].status # "published"
    /\ versions[i].version # copy[r].current
    /\ versions' = [versions EXCEPT ![i].status = "deleted"]
    /\ Return(r)
    /\ UNCHANGED <<workflow, made, config>>

\* The request ends without effect: refused as invalid or forbidden, rolled back
\* on a conflict or an error, a renaming or a new layout, or the process dies.
GiveUp(r) ==
    /\ step[r] # "idle"
    /\ Return(r)
    /\ UNCHANGED store

WorkflowNext == \E r \in Request :
    \/ Load(r) \/ Create(r) \/ FirstSnapshot(r)
    \/ Save(r) \/ PublishWorkflow(r)
    \/ PickVersion(r) \/ RollbackWorkflow(r) \/ Delete(r)
    \/ GiveUp(r)

WorkflowSpec == WorkflowInit /\ [][WorkflowNext]_workflowVars

-----------------------------------------------------------------------------
(***************************************************************************)
(* Properties                                                              *)
(***************************************************************************)

\* What a request holds: a copy of a row that still exists, and a version that was
\* inserted.  One it did not see published is not published now, since only an
\* insertion publishes.
RequestInv ==
    /\ \A i \in Id : versions[i] = NoVersion <=> i > made
    /\ \A r \in Request :
         /\ step[r] \in {"created", "loaded", "picked"} => copy[r] # NoRow /\ workflow # NoRow
         /\ step[r] = "picked" =>
              /\ picked[r] # NoPick
              /\ picked[r].id <= made
              /\ picked[r].status # "published" => picked[r].id \notin Published

\* However publications, rollbacks and deletions on stale copies interleave, the
\* history shows one published version at most (snapshot retires the others).
OnePublished == \A i, j \in Published : i = j

\* The configuration the payment service reads names the published version, and
\* is absent while there is none.
ConfigNamesPublished ==
    /\ \A i \in Published : versions[i].version = config.version
    /\ Published = {} <=> config = NoConfig

\* Nothing reaches the payment service that validateWorkflow has not accepted, also
\* when somebody saves an invalid graph between the validation and the update.
ConfigIsValid == config.nodes \in Valid \union {Null}

KeepsPublished ==
    \A i \in Published : versions'[i].status # "published" =>
        versions'[i].status = "archived" /\ Published' # {}

\* A published version is never deleted, though deleteVersion decides on copies that
\* may be stale: it leaves that status only because another one is published.
PublishedIsKept == [][KeepsPublished]_workflowVars

Contract == INSTANCE RoutingContract WITH live <- config, None <- Null

\* The configuration changes only to a validated graph with another number.
ImplementsContract == Contract!Spec
=============================================================================
