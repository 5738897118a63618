----------------------------- MODULE SyncContract -----------------------------
(***************************************************************************)
(* What weight synchronisation promises the callers of the rollout service: *)
(* at any moment all replicas that answer requests show one version, the    *)
(* last committed one.  A new version is committed only while nobody serves *)
(* the old one; replicas leave service at any time and enter it with the    *)
(* committed version.                                                       *)
(***************************************************************************)
EXTENDS Integers

CONSTANT Replica

VARIABLES
  committed,  \* the version of the last committed transaction
  shown       \* the serving replicas, each with the version it shows

contract == <<committed, shown>>

ContractInit ==
  /\ committed = 0
  /\ \E R \in SUBSET Replica : shown = [r \in R |-> 0]

\* Replicas stop serving: aborted, put to sleep, isolated or given up.
Withdraw ==
  /\ \E R \in SUBSET DOMAIN shown : shown' = [r \in R |-> shown[r]]
  /\ UNCHANGED committed

\* A transaction commits; nobody serves the version it replaces.
CommitVersion ==
  /\ DOMAIN shown = {}
  /\ committed' > committed
  /\ UNCHANGED shown

\* A resumed or newly admitted replica serves the committed version.
Serve ==
  /\ \E r \in Replica \ DOMAIN shown :
       shown' = [q \in DOMAIN shown \cup {r} |->
                   IF q = r THEN committed ELSE shown[q]]
  /\ UNCHANGED committed

ContractSpec ==
  ContractInit /\ [][Withdraw \/ CommitVersion \/ Serve]_contract
=============================================================================
