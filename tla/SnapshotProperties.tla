-------------------------- MODULE SnapshotProperties --------------------------
(* What the end of a hosted run promises: no work is deleted before it is    *)
(* exported, and in the end everything is taken down.                        *)
EXTENDS SnapshotController

JobStates == {"none", "active", "failed", "succeeded"}
ExportPlaces == {"reading", "copying", "archive", "manifest", "record", "session", "out"}
PollPlaces == {"idle", "claims", "visit", "create", "release", "pods", "volume",
               "delete", "mark"}

HostType == [claim : {"none", "bound", "released"}, pod : {"none", "running", "ended"},
             volume : BOOLEAN, lost : Nat]
RunType == [work : Nat, failed : BOOLEAN, over : BOOLEAN,
            session : {"none", "executing", "terminal"}]
JobType == [state : JobStates, pod : BOOLEAN, at : ExportPlaces, copy : Nat]
StoreType == [archive : Nat, manifest : Nat,
              record : {"none", "snapshot_completed", "cleanup_completed"}]

\* Every variable has its type; a call of a poll is for the run it visits.
SnapshotTypeOK ==
    /\ host \in [Runs -> HostType]
    /\ run \in [Runs -> RunType]
    /\ job \in [Runs -> JobType]
    /\ store \in [Runs -> StoreType]
    /\ pc \in PollPlaces
    /\ jobs \in [Runs -> JobStates]
    /\ claims \subseteq Runs
    /\ todo \subseteq Runs
    /\ visited \in Runs \cup {NoRun}
    /\ pc \notin {"idle", "claims", "visit"} => visited \in Runs
    /\ ended \in BOOLEAN
    /\ faults \in Nat

\* "delete PVC only after successful snapshot export"
\* (docs/k8s-whole-run-pvc-snapshot-plan-2026-03-13.md:311): when a host is being
\* taken down, S3 holds an archive, the manifest of that archive and a session
\* record, whatever failed exports and expired jobs came before.
Exported(r) == store[r].archive # 0 /\ store[r].manifest = store[r].archive
               /\ store[r].record # "none"
DeleteAfterExport ==
    \A r \in Runs : host[r].claim = "released" => Exported(r)

\* A session recorded as cleaned up has no volume left (419-420).
CleanupTruthful ==
    \A r \in Runs : store[r].record = "cleanup_completed" => ~host[r].volume

\* A host is taken down in an order that loses nothing and that the record tells truly.
TakenDownInOrder == DeleteAfterExport /\ CleanupTruthful

\* The host of a run that never lost its pod is not taken from under it, although
\* pods are listed in one call and the claim deleted in a later one (367-406).
LiveRunKeepsHost ==
    \A r \in Runs : Alive(r) /\ host[r].lost = 0 => host[r].claim = "bound"

\* A run that is over ends up with nothing in the cluster and a session record
\* that says so, whatever failed on the way.
EverythingTakenDown ==
    \A r \in Runs : run[r].over ~> /\ host[r].pod = "none"
                                   /\ ~host[r].volume
                                   /\ store[r].record = "cleanup_completed"

=============================================================================
