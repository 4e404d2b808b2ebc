-------------------------- MODULE InstallationSync --------------------------
(***************************************************************************)
(* The copy of GitHub's installation and repository list in the tables     *)
(* github_installations and repositories: handleInstallation,              *)
(* handleInstallationRepositories and repositoryForCommand of              *)
(* github/process.go over UpsertInstallation, SetInstallationSuspended,    *)
(* DeleteInstallation and SyncRepositories of github/store.go.             *)
(*                                                                         *)
(* One account, which may uninstall the app and install it again under a   *)
(* new number.  Deliveries are handled by a goroutine each, in any order,  *)
(* while GitHub moves on.                                                  *)
(***************************************************************************)
EXTENDS Naturals, Sequences, FiniteSets

CONSTANTS
  Repos,
  NoRepo,
  MaxInstalls,  \* installations of the account, one after the other
  MaxEvents,    \* bound on deliveries
  MaxMishaps    \* bound on handlers that fail, panic, time out or die

ASSUME SyncAssumption == {MaxInstalls, MaxEvents, MaxMishaps} \subseteq Nat

VARIABLES
  gh,       \* GitHub: the installation (0: none), its suspension, its repositories
  events,   \* deliveries, in the order of what they report
  handlers, \* the handler of each delivery
  inst,     \* github_installations: "none", "active" or "suspended"
  repos,    \* repositories: "none", "enabled" or "disabled"
  solo,     \* history: the newest handler, if it has met no other; else 0
  mishaps

syncVars == <<gh, events, handlers, inst, repos, solo, mishaps>>

Ids == 1..MaxInstalls
Syncing == {"created", "unsuspend", "repositories"}
Stopped == {"done", "failed"}

SyncInit ==
  /\ gh = [id |-> 0, next |-> 1, suspended |-> FALSE, repos |-> {}]
  /\ events = << >> /\ handlers = << >>
  /\ inst = [x \in Ids |-> "none"]
  /\ repos = [r \in Repos |-> "none"]
  /\ solo = 0 /\ mishaps = 0

Running == {i \in DOMAIN handlers : handlers[i].pc \notin Stopped \cup {"sent"}}

HandlerAt(i, pc) == i \in DOMAIN handlers /\ handlers[i].pc = pc
Step(i, pc) == handlers' = [handlers EXCEPT ![i].pc = pc]
Stop(i, pc) == handlers' = [handlers EXCEPT ![i] = [pc |-> pc, list |-> {}]]

-----------------------------------------------------------------------------
(* GitHub.                                                                 *)

Deliver(action, x, r) ==
  /\ Len(events) < MaxEvents
  /\ events' = Append(events, [action |-> action, id |-> x, repo |-> r])
  /\ handlers' = Append(handlers, [pc |-> "sent", list |-> {}])

Install ==
  /\ gh.id = 0 /\ gh.next <= MaxInstalls
  /\ \E S \in SUBSET Repos \ {{}} :
       gh' = [id |-> gh.next, next |-> gh.next + 1, suspended |-> FALSE, repos |-> S]
  /\ Deliver("created", gh.next, NoRepo)
  /\ UNCHANGED <<inst, repos, solo, mishaps>>

Uninstall ==
  /\ gh.id # 0
  /\ gh' = [gh EXCEPT !.id = 0, !.suspended = FALSE, !.repos = {}]
  /\ Deliver("deleted", gh.id, NoRepo)
  /\ UNCHANGED <<inst, repos, solo, mishaps>>

Suspend ==
  /\ gh.id # 0 /\ ~gh.suspended
  /\ gh' = [gh EXCEPT !.suspended = TRUE]
  /\ Deliver("suspend", gh.id, NoRepo)
  /\ UNCHANGED <<inst, repos, solo, mishaps>>

Unsuspend ==
  /\ gh.id # 0 /\ gh.suspended
  /\ gh' = [gh EXCEPT !.suspended = FALSE]
  /\ Deliver("unsuspend", gh.id, NoRepo)
  /\ UNCHANGED <<inst, repos, solo, mishaps>>

SelectRepositories ==
  /\ gh.id # 0 /\ ~gh.suspended
  /\ \E S \in SUBSET Repos \ {gh.repos} : gh' = [gh EXCEPT !.repos = S]
  /\ Deliver("repositories", gh.id, NoRepo)
  /\ UNCHANGED <<inst, repos, solo, mishaps>>

Comment ==
  /\ gh.id # 0 /\ ~gh.suspended
  /\ \E r \in gh.repos : Deliver("comment", gh.id, r)
  /\ UNCHANGED <<gh, inst, repos, solo, mishaps>>

-----------------------------------------------------------------------------
(* The handlers.                                                           *)

\* Dispatch: where handle sends a delivery.
Dispatch(i) ==
  /\ HandlerAt(i, "sent")
  /\ Step(i, IF events[i].action \in Syncing THEN "upsert" ELSE events[i].action)
  /\ solo' = IF Running = {} THEN i ELSE 0
  /\ UNCHANGED <<gh, events, inst, repos, mishaps>>

\* repositoryForCommand: a row that is missing is looked for on GitHub, once.
repositoryForCommand(i) ==
  /\ HandlerAt(i, "comment")
  /\ Step(i, IF repos[events[i].repo] = "none" THEN "upsert" ELSE "done")
  /\ UNCHANGED <<gh, events, inst, repos, solo, mishaps>>

\* The row is inserted, or updated with suspended_at = NULL.
UpsertInstallation(i) ==
  /\ HandlerAt(i, "upsert")
  /\ inst' = [inst EXCEPT ![events[i].id] = "active"]
  /\ Step(i, "list")
  /\ UNCHANGED <<gh, events, repos, solo, mishaps>>

\* GitHub answers only for an installation that exists and is not suspended.
ListInstallationRepositories(i) ==
  /\ HandlerAt(i, "list")
  /\ handlers' = [handlers EXCEPT ![i] =
                IF events[i].id = gh.id /\ ~gh.suspended
                THEN [pc |-> "select", list |-> gh.repos]
                ELSE [@ EXCEPT !.pc = "failed"]]
  /\ UNCHANGED <<gh, events, inst, repos, solo, mishaps>>

\* The first statement of SyncRepositories, which locks nothing.
SelectInstallation(i) ==
  /\ HandlerAt(i, "select")
  /\ Step(i, IF inst[events[i].id] = "none" THEN "failed" ELSE "write")
  /\ UNCHANGED <<gh, events, inst, repos, solo, mishaps>>

\* Mutant of Synced: repositories missing from the list stay as they are.
SyncedAddingOnly(list) ==
  [r \in Repos |-> IF r \in list THEN "enabled" ELSE repos[r]]

\* Listed repositories are enabled, the others of the account disabled.
Synced(list) ==
  [r \in Repos |-> IF r \in list THEN "enabled"
                   ELSE IF repos[r] = "enabled" THEN "disabled" ELSE repos[r]]

\* The writes of SyncRepositories and their commit.
SyncRepositories(i) ==
  /\ HandlerAt(i, "write")
  /\ repos' = Synced(handlers[i].list)
  /\ Stop(i, "done")
  /\ UNCHANGED <<gh, events, inst, solo, mishaps>>

SetInstallationSuspended(i) ==
  LET x == events[i].id
  IN /\ HandlerAt(i, "suspend")
     /\ inst' = IF inst[x] = "none" THEN inst ELSE [inst EXCEPT ![x] = "suspended"]
     /\ Step(i, "done")
     /\ UNCHANGED <<gh, events, repos, solo, mishaps>>

\* The row goes, and with it every repository of the account is disabled.
DeleteInstallation(i) ==
  LET x == events[i].id
  IN /\ HandlerAt(i, "deleted")
     /\ inst' = [inst EXCEPT ![x] = "none"]
     /\ repos' = IF inst[x] = "none" THEN repos ELSE Synced({})
     /\ Step(i, "done")
     /\ UNCHANGED <<gh, events, solo, mishaps>>

\* A call fails, the 30 seconds pass, the handler panics or the process dies.
HandlerStops(i) ==
  /\ i \in DOMAIN handlers /\ handlers[i].pc \notin Stopped
  /\ mishaps < MaxMishaps
  /\ mishaps' = mishaps + 1
  /\ Stop(i, "failed")
  /\ UNCHANGED <<gh, events, inst, repos, solo>>

-----------------------------------------------------------------------------
SyncNext ==
  \/ Install \/ Uninstall \/ Suspend \/ Unsuspend \/ SelectRepositories \/ Comment
  \/ \E i \in 1..MaxEvents :
       \/ Dispatch(i) \/ repositoryForCommand(i) \/ UpsertInstallation(i)
       \/ ListInstallationRepositories(i) \/ SelectInstallation(i)
       \/ SyncRepositories(i) \/ SetInstallationSuspended(i)
       \/ DeleteInstallation(i) \/ HandlerStops(i)

SyncSpec == SyncInit /\ [][SyncNext]_syncVars

-----------------------------------------------------------------------------
(* Properties.                                                             *)

Quiet == \A i \in DOMAIN handlers : handlers[i].pc \in Stopped

\* The newest delivery about the installation, which reports GitHub as it is.
IsNewest(i) ==
  /\ i \in DOMAIN events /\ events[i].action # "comment"
  /\ \A j \in DOMAIN events : j > i => events[j].action = "comment"

Enabled == {r \in Repos : repos[r] = "enabled"}

\* What the tables should say of an installation that GitHub reports last as x.
TablesTrue(x) ==
  CASE gh.id = 0 -> inst[x] = "none"
    [] gh.suspended -> inst[x] # "active"
    [] OTHER -> inst[x] = "active" /\ Enabled = gh.repos

\* RepositoryContextByID hands out installation x.
Usable(x) == inst[x] = "active"

\* github/process.go, syncInstallation: whatever earlier handlers failed to do, did
\* out of order or did at the same time, the handler of the newest event puts the
\* tables right when it runs after them and alone.
LastEventRestores ==
  (Quiet /\ IsNewest(solo) /\ handlers[solo].pc = "done") => TablesTrue(events[solo].id)

\* github/store.go, RepositoryContextByID: "suspended/missing installation ->
\* ErrNoInstallation: publishing must not mint tokens for it", once every delivery
\* was handled and none failed by itself.
SuspendedNotUsable ==
  (Quiet /\ mishaps = 0) => \A x \in Ids : Usable(x) => (gh.id = x /\ ~gh.suspended)
=============================================================================
