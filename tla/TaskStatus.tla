----------------------------- MODULE TaskStatus -----------------------------
(***************************************************************************)
(* The task status machine of apps/api/internal/task/status.go: the        *)
(* statuses a task row can hold, the phase each one belongs to, and the    *)
(* edges CanTransition admits.  No state: every other module builds on it. *)
(***************************************************************************)

PhasePending  == {"created", "queued"}
PhaseRunning  == {"provisioning", "planning", "executing", "validating",
                  "publishing"}
PhaseReview   == {"awaiting_review", "revision_requested"}
PhaseTerminal == {"completed", "failed", "cancelled", "timed_out"}

AllStatuses == PhasePending \cup PhaseRunning \cup PhaseReview
                 \cup PhaseTerminal

Terminal(s) == s \in PhaseTerminal

\* The edges of the happyPath map.
happyPath ==
  { <<"created", "queued">>,
    <<"queued", "provisioning">>,
    <<"provisioning", "planning">>,
    <<"planning", "executing">>,
    <<"executing", "validating">>,
    <<"validating", "publishing">>,
    <<"publishing", "awaiting_review">>,
    <<"awaiting_review", "completed">>,
    <<"awaiting_review", "revision_requested">>,
    <<"revision_requested", "queued">>,
    <<"revision_requested", "completed">> }

CanTransition(from, to) ==
  /\ from \in AllStatuses \ PhaseTerminal
  /\ to \in AllStatuses
  /\ \/ to = "cancelled"
     \/ to = "failed"    /\ from \in PhaseRunning
     \/ to = "timed_out" /\ from \in PhaseRunning \cup {"awaiting_review"}
     \/ <<from, to>> \in happyPath
=============================================================================
