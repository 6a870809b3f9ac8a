---------------------------- MODULE Replication ----------------------------
(***************************************************************************)
(* The two ways in which others follow the edits of a map, side by side:   *)
(* ExtractUpdate by its records, ReplicateDiff by time.  Neither touches   *)
(* what the other keeps.                                                   *)
(***************************************************************************)
EXTENDS ExtractUpdate, ReplicateDiff

replicationVars == <<vars, diffVars>>

ReplicationInit == Init /\ InitDiffs

ReplicationNext ==
    \/ Next /\ UNCHANGED diffVars
    \/ NextDiffs /\ UNCHANGED vars

ReplicationSpec == ReplicationInit /\ [][ReplicationNext]_replicationVars

\* Both keep their types, whatever is committed, read, failed or crashed
\* (src/replicate/).
TypesOK == TypeOK /\ DiffTypeOK
=============================================================================
