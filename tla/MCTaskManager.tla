---------------------------- MODULE MCTaskManager ----------------------------
(* TaskManager with a few tasks and callers that give any level. *)
EXTENDS TaskManager

AllLevels == Level \cup {-1}
=============================================================================
