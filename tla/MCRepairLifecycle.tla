-------------------------- MODULE MCRepairLifecycle --------------------------
(***************************************************************************)
(* RepairLifecycle on small instances; its cfg files name the set of them. *)
(***************************************************************************)
EXTENDS RepairLifecycle

Size(c, f, m, g) == [commits |-> c, followUps |-> f, mediaPolls |-> m, gate |-> g]

\* Follow-ups, recordings, and either of them without the merge gate.
MCSizes == {Size(2, 2, 0, TRUE), Size(1, 0, 3, TRUE), Size(1, 1, 2, FALSE)}

\* The same, small enough for liveness.
MCLiveSizes == {Size(1, 2, 0, TRUE), Size(1, 0, 2, TRUE)}

\* The smallest that show a sentence of the sources to be wrong.
MCOneCommit    == {Size(1, 0, 1, TRUE)}
MCThreeCommits == {Size(3, 2, 0, TRUE)}
MCRecordings   == {Size(1, 0, 2, TRUE)}

=============================================================================
