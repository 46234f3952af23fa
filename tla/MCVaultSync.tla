----------------------------- MODULE MCVaultSync -----------------------------
(***************************************************************************)
(* VaultSync with one device, d1, signed in as u1; u2 is another user.     *)
(* What the other devices do is in the store's own steps.                  *)
(***************************************************************************)
EXTENDS VaultSync

CONSTANTS d1, u1

MCUserOf == [d \in {d1} |-> u1]

\* A pending grant touches no sync; its fulfilment is AddMember like any other.
NoGrantPending ==
    \A c \in Collections, u \in Users : pendingGrants[c][u] = NoGrant

\* Calls overlap before the last of the writes and before there are folders only:
\* enough for answers in the wrong order, in a graph small enough for Converges.
BoundedOverlap ==
    (\E d \in Devices : Cardinality(calls[d]) > 1)
    => revision < MaxRevision /\ \A f \in Folders : folders[f].st = "unborn"

\* The device only syncs: what two overlapping syncs can do.
SyncsOnlySpec ==
    SyncInit /\ [][OtherClients \/ \E d \in Devices : SyncStep(d)]_vars

\* Every item is written by a device; the others only share and unshare.
DeviceWritesSpec ==
    /\ SyncInit
    /\ [][\/ CollectionStep /\ UNCHANGED clientVars
          \/ \E d \in Devices : SyncStep(d) \/ SaveStep(d)]_vars

\* At most one sync in flight: what a sync and a save can do to each other.
OneSyncAtATime ==
    \A d \in Devices :
        Cardinality({call \in calls[d] : call.op \in {"asked", "answered"}}) <= 1
=============================================================================
