------------------------- MODULE MCWebhookProcessor -------------------------
(***************************************************************************)
(* TLC instance of WebhookProcessor and InstallationSync, the two halves   *)
(* of the delivery handlers: what each delivery carries, and which         *)
(* deliveries occur together.  The halves share no table that either       *)
(* writes, so a history has commands or installation events, not both.     *)
(***************************************************************************)
EXTENDS WebhookProcessor, InstallationSync, TLC

CONSTANTS d1, d2, d3, d4, d5, c1, c2, i1, t1

Run(comment) == [verb |-> "run", issue |-> i1, comment |-> comment, allowed |-> TRUE]

ReviseTask(comment) ==
  [verb |-> "revise", task |-> t1, comment |-> comment, allowed |-> TRUE]

MCCommandOf ==
  d1 :> Run(c1) @@ d2 :> Run(c2) @@
  d3 :> [verb |-> "closed", task |-> t1, merged |-> TRUE] @@
  d4 :> ReviseTask(c2) @@ d5 :> ReviseTask(c2)

\* Two run commands on one issue, whose first pull request is merged; a task with
\* one revise comment that two deliveries carry; and no command at all, where
\* installation events are sent instead.
MCHistories == {{d1, d2, d3}, {d1, d4, d5}, {}}

MCInit == Init /\ SyncInit

MCNext ==
  \/ sent # {} /\ Next /\ UNCHANGED syncVars
  \/ sent = {} /\ SyncNext /\ UNCHANGED vars

MCSpec == MCInit /\ [][MCNext]_<<vars, syncVars>>
-----------------------------------------------------------------------------
\* The two deliveries of the revise comment differ in nothing but their names.
Symmetry == Permutations({d4, d5})
=============================================================================
