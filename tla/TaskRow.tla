------------------------------- MODULE TaskRow -------------------------------
(***************************************************************************)
(* The columns of a row of the `task` table that the ingestion protocol    *)
(* depends on, and the two statements that write its progress.             *)
(*                                                                         *)
(* Progress is a float in the code: -1 (failed or cancelled), [0, 1) while *)
(* unfinished and 1.0 when done.  Only the order and the two terminal      *)
(* values matter, so the model keeps -1, 0 (queued or just received), 1    *)
(* (somewhere on the way) and Full for 1.0.                                *)
(***************************************************************************)
EXTENDS Integers

Bad == -1
Full == 2
Progress == {Bad, 0, 1, Full}

\* `progress >= 0 and progress < 1` in the queries of document_service.py.
Unfinished(p) == 0 <= p /\ p < Full

\* The WHERE clause of TaskService.update_progress: a report of 1.0 is always
\* stored; any other one only while the row is not failed, and then only when
\* it is a failure or an advance.
UpdateProgress(cur, prog) ==
    IF prog >= Full \/ (cur # Bad /\ (prog = Bad \/ prog > cur))
    THEN prog ELSE cur
=============================================================================
