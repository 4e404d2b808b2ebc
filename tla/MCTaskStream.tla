---------------------------- MODULE MCTaskStream ----------------------------
(***************************************************************************)
(* The page is opened on a task that awaits review: more events than two  *)
(* batches hold are waiting for it, and a revision is still to come.       *)
(***************************************************************************)
EXTENDS TaskStream

MCPassed == <<"provisioning", "planning", "executing", "validating",
              "publishing", "awaiting_review">>
=============================================================================
