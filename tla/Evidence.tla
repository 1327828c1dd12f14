------------------------------ MODULE Evidence ------------------------------
(***************************************************************************)
(* What a task's result says of each file: published_files, deleted_paths  *)
(* and the entry of file_diffs.  The workspace runtime writes it, the      *)
(* judge's objective criteria and the delivery read it.                    *)
(***************************************************************************)

CONSTANTS Path, Text, Gone \* files, their contents, and no file

ASSUME EvidenceAssumption == Gone \notin Text /\ Text # {}

File == Text \cup {Gone}
Kind == {"none", "created", "modified", "unchanged", "deleted"}
Entry == [applied : BOOLEAN, kind : Kind, before : File, published : File, deleted : BOOLEAN]
Blank == [applied |-> FALSE, kind |-> "none", before |-> Gone, published |-> Gone, deleted |-> FALSE]
NoEvidence == [p \in Path |-> Blank]

\* change_type.
Change(before, after) ==
    IF after = Gone THEN "deleted"
    ELSE IF before = Gone THEN "created"
    ELSE IF before = after THEN "unchanged" ELSE "modified"

EntryOf(before, after) ==
    [applied |-> TRUE, kind |-> Change(before, after), before |-> before,
     published |-> after, deleted |-> after = Gone]
=============================================================================
