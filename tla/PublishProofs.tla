----------------------------- MODULE PublishProofs -----------------------------
(***************************************************************************)
(* Proofs about Publish, for any runners and any number of crashes, failed *)
(* calls, interruptions and foreign pushes on top of one another.          *)
(*                                                                         *)
(* The invariant has two halves.  What an owner has behind it leaves marks *)
(* nobody takes back (Progress); what it has read stays true only while no *)
(* other owner is at work, which the lease gives as long as it does not    *)
(* lapse under an owner (Alone).                                           *)
(***************************************************************************)
EXTENDS Publish, TLAPS

-----------------------------------------------------------------------------
(* The invariant.                                                          *)

RowOK(w) ==
  /\ DOMAIN w = {"status", "final", "pr", "code", "trigger", "completed", "comments"}
  /\ w.status \in {"publishing", "awaiting_review"} \cup PhaseTerminal
  /\ w.final \in Commits \cup {"none"}
  /\ w.comments \subseteq Kinds
  /\ w.code = "workspace_lost" => w.status = "failed"

SiteOK(s) ==
  /\ DOMAIN s = {"branch", "pushed", "body", "checks", "trigger", "posted"}
  /\ s.body \in Commits \cup {"none"}
  /\ s.checks \in [Commits -> Nat] /\ s.posted \in [Kinds -> Nat]
  /\ s.branch \in Commits \cup {"none"}
  /\ s.pushed => s.branch \in {"work", "other"}

TreeOK(t) ==
  DOMAIN t = {"host", "holds"} /\ t.holds \in {"changes", "no_changes", "commit", "nothing"}

KindOf(e, j) ==
  IF e.concl = "neutral" THEN "no_change"
  ELSE IF j.number > 1 THEN "revision_summary" ELSE "published"

\* The calls that follow those of publishing, and those of settling its end.
Ended(e) ==
  \/ e.pc \in EndCalls \cup {"idle"}
  \/ e.pc \in {"trigger", "mark"} /\ e.concl \notin PublishConclusions

\* Where an owner is, and what it must have with it there.
ExecOK(e) ==
  /\ DOMAIN e = {"pc", "ws", "sha", "pending", "found", "concl", "code", "ctx", "lost", "err"}
  /\ e.pc \in {"idle", "trigger", "mark", "cleanup"} \cup GitHubCalls \cup StoreCalls \cup EndCalls
  /\ e.pc \in {"final", "push", "body", "list", "check"} => e.sha \in Commits
  /\ e.pc = "find" /\ e.concl = "evidence" => e.sha \in Commits
  /\ e.pc = "number" /\ e.concl = "evidence" => e.sha \in Commits
  /\ e.pc \in {"final", "push", "body", "posted", "cleanup", "review"} => e.concl = "evidence"
  /\ e.pc \in {"find", "number", "list", "check", "comment", "event"} =>
       e.concl \in PublishConclusions
  /\ e.pc = "push" => e.ws
  /\ e.pc = "mark" => ~e.pending

\* The calls an owner that publishes work makes from each point on.
FromReview  == {"cleanup", "review"}
FromTrigger == {"trigger", "mark", "posted", "comment", "event"} \cup FromReview
FromList    == {"list", "check"} \cup FromTrigger
FromNumber  == {"number"} \cup FromList
FromFind    == {"find", "body"} \cup FromNumber
FromPush    == {"push"} \cup FromFind

\* Whoever asked for the attempt has been told where to find it.
Told(j, s) ==
  /\ j.number > 1 => s.posted["revision_summary"] > 0
  /\ j.number = 1 /\ j.issue => s.posted["published"] > 0

\* The marks of what an owner did so far; they outlast it.
Progress(e, j, w, s) ==
  /\ e.concl = "evidence" =>
       /\ e.pc \in FromPush => w.final # "none"
       /\ e.pc \in FromFind /\ e.ws => s.pushed
       /\ e.pc \in FromNumber => s.body # "none"
       /\ e.pc \in FromList => w.pr
       /\ e.pc \in FromReview => Told(j, s)
  /\ e.pc = "event" => s.posted[KindOf(e, j)] > 0
  /\ e.err = "failed" => Terminal(w.status)

\* What an owner has read, and relies on.
Alone(e, j, w, s, a) ==
  /\ ~e.lost
  /\ e.concl = "evidence" =>
       /\ e.pc \in {"number", "list", "check"} => s.body = e.sha
       /\ e.pc \in FromTrigger => s.body # "none" /\ s.checks[s.body] > 0
  /\ e.pc = "check" => (e.found <=> s.checks[e.sha] # 0)
  /\ e.pc = "fail" /\ e.code = "workspace_lost" => ~s.pushed
  /\ e.pc = "comment" /\ KindOf(e, j) = "revision_summary" => "revision_summary" \notin w.comments
  /\ a = "idle" /\ (e.pending \/ e.pc = "settle_fence") => ~w.completed
  /\ w.status = "awaiting_review" \/ w.code = "workspace_lost" => Ended(e)

\* What the row and GitHub show, whoever is at work.
SharedOK(j, w, s) ==
  /\ \A k \in w.comments : s.posted[k] > 0
  /\ w.status = "awaiting_review" =>
       w.pr /\ w.final # "none" /\ s.body # "none" /\ Told(j, s)

\* And what they show as long as owners follow one another.
SerialOK(w, s) ==
  /\ \A c \in Commits : s.checks[c] <= 1
  /\ w.status = "awaiting_review" => s.checks[s.body] > 0
  /\ w.code = "workspace_lost" => ~s.pushed

OwnerOK(r, e, l, j, w, s, a, over) ==
  /\ ExecOK(e) /\ Progress(e, j, w, s)
  /\ ~over /\ e.pc # "idle" => Alone(e, j, w, s, a) /\ l = [owner |-> r, live |-> TRUE]

PublishInv ==
  /\ job.number \in {1, 2}
  /\ RowOK(row) /\ SiteOK(site) /\ TreeOK(tree)
  /\ SharedOK(job, row, site)
  /\ ~lapsed => SerialOK(row, site)
  /\ exec = [r \in Runners |-> exec[r]]
  /\ \A r \in Runners : OwnerOK(r, exec[r], lease, job, row, site, api, lapsed)

-----------------------------------------------------------------------------
(* What a step owes the invariant.                                         *)

\* No step takes back a mark that an owner left.
Grows(w, s, w2, s2) ==
  /\ w.final # "none" => w2.final # "none"
  /\ w.pr => w2.pr
  /\ Terminal(w.status) => Terminal(w2.status)
  /\ s.pushed => s2.pushed
  /\ s.body # "none" => s2.body # "none"
  /\ \A k \in Kinds : s.posted[k] <= s2.posted[k]

\* A row or a site a step may leave behind.
Written(j, w, s, w2, s2, over) ==
  /\ RowOK(w2) /\ SiteOK(s2)
  /\ Grows(w, s, w2, s2)
  /\ SharedOK(j, w2, s2)
  /\ ~over => SerialOK(w2, s2)

\* Every comment is of one of the kinds the timeline knows.
LEMMA KindsOf ==
  \A e, j : KindOf(e, j) \in Kinds
BY DEF KindOf, Kinds

\* Marks that only grow stay the marks of what an owner did.
LEMMA ProgressStays ==
  ASSUME NEW e, NEW j, NEW w, NEW s, NEW w2, NEW s2,
         SiteOK(s), SiteOK(s2), Grows(w, s, w2, s2), Progress(e, j, w, s)
  PROVE  Progress(e, j, w2, s2)
<1>1. \A k \in Kinds : s.posted[k] > 0 => s2.posted[k] > 0
  <2>1. \A k \in Kinds : s.posted[k] \in Nat /\ s2.posted[k] \in Nat
    BY DEF SiteOK
  <2> QED BY <2>1 DEF Grows
<1>2. Told(j, s) => Told(j, s2)
  BY <1>1 DEF Told, Kinds
<1> QED BY <1>1, <1>2, KindsOf DEF Progress, Grows

\* A step that writes nothing owes nothing.
LEMMA NothingWritten ==
  ASSUME PublishInv
  PROVE  Written(job, row, site, row, site, lapsed)
<1>1. \A k \in Kinds : site.posted[k] <= site.posted[k]
  BY DEF PublishInv, SiteOK
<1> QED BY <1>1 DEF PublishInv, Written, Grows

\* The lease tells an owner that it is the only one.
LEMMA OnlyOwner ==
  ASSUME PublishInv, ~lapsed, NEW r \in Runners, exec[r].pc # "idle" \/ ~lease.live
  PROVE  \A q \in Runners \ {r} : exec[q].pc = "idle"
<1>1. \A q \in Runners : exec[q].pc # "idle" => lease = [owner |-> q, live |-> TRUE]
  BY DEF PublishInv, OwnerOK
<1>2. \A q \in Runners : [owner |-> q, live |-> TRUE].owner = q /\ [owner |-> q, live |-> TRUE].live
  OBVIOUS
<1> QED BY <1>1, <1>2

\* A step of one owner: the others keep what they have.
LEMMA OwnerMoves ==
  ASSUME PublishInv, NEW r \in Runners, NEW f, Goto(r, f),
         UNCHANGED <<job, api, lapsed>>, TreeOK(tree'),
         Written(job, row, site, row', site', lapsed),
         exec[r].pc # "idle" \/ ~lease.live,
         OwnerOK(r, f, lease', job, row', site', api, lapsed)
  PROVE  PublishInv'
<1>1. exec' = [exec EXCEPT ![r] = f] /\ exec = [q \in Runners |-> exec[q]]
  BY DEF Goto, PublishInv
<1>2. exec' = [q \in Runners |-> exec'[q]] /\ exec'[r] = f
      /\ \A q \in Runners \ {r} : exec'[q] = exec[q]
  BY <1>1
<1>3. ASSUME NEW q \in Runners \ {r}
      PROVE  OwnerOK(q, exec[q], lease', job, row', site', api, lapsed)
  <2>1. ExecOK(exec[q]) /\ Progress(exec[q], job, row, site)
    BY DEF PublishInv, OwnerOK
  <2>2. Progress(exec[q], job, row', site')
    BY <2>1, ProgressStays DEF PublishInv, Written
  <2>3. ~lapsed => exec[q].pc = "idle"
    BY OnlyOwner
  <2> QED BY <2>1, <2>2, <2>3 DEF OwnerOK
<1>4. \A q \in Runners : OwnerOK(q, exec'[q], lease', job, row', site', api, lapsed)
  BY <1>2, <1>3
<1>5. job' = job /\ api' = api /\ lapsed' = lapsed
  OBVIOUS
<1> QED BY <1>2, <1>4, <1>5 DEF PublishInv, Written

\* A step that only moves the owner, or its worktree.
LEMMA QuietMove ==
  ASSUME PublishInv, NEW r \in Runners, NEW f, Goto(r, f),
         UNCHANGED <<job, row, lease, site, api, lapsed>>, TreeOK(tree'),
         exec[r].pc # "idle", ExecOK(f), Progress(f, job, row, site),
         ~lapsed => Alone(f, job, row, site, api)
  PROVE  PublishInv'
<1>1. ~lapsed => lease = [owner |-> r, live |-> TRUE]
  BY DEF PublishInv, OwnerOK
<1>2. OwnerOK(r, f, lease', job, row', site', api, lapsed)
  BY <1>1 DEF OwnerOK
<1>3. row' = row /\ site' = site
  OBVIOUS
<1> QED BY <1>2, <1>3, OwnerMoves, NothingWritten

\* Where an owner stands.
LEMMA Standing ==
  ASSUME PublishInv, NEW r \in Runners
  PROVE  /\ ExecOK(exec[r]) /\ Progress(exec[r], job, row, site)
         /\ ~lapsed /\ exec[r].pc # "idle" => Alone(exec[r], job, row, site, api)
         /\ ~lapsed /\ exec[r].pc # "idle" => lease = [owner |-> r, live |-> TRUE]
         /\ job.number \in {1, 2}
         /\ RowOK(row) /\ SiteOK(site) /\ TreeOK(tree)
BY DEF PublishInv, OwnerOK

\* The record of an owner that goes back to polling.
LEMMA Fields ==
  ASSUME NEW e, NEW code, NEW pc
  PROVE  /\ DOMAIN Outlives(e) = DOMAIN Idle
         /\ Outlives(e).pc = "idle" /\ Outlives(e).sha = "none" /\ ~Outlives(e).pending
         /\ ~Outlives(e).found /\ Outlives(e).concl = "none" /\ Outlives(e).code = "none"
         /\ Outlives(e).ws = e.ws /\ Outlives(e).ctx = e.ctx
         /\ Outlives(e).lost = e.lost /\ Outlives(e).err = e.err
         /\ DOMAIN Idle = {"pc", "ws", "sha", "pending", "found", "concl", "code",
                           "ctx", "lost", "err"}
BY DEF Outlives, Idle

-----------------------------------------------------------------------------
(* What the calls of an owner write.                                       *)

\* No row the transition may come from is past its end, and a move is to an end
\* or to review.
LEMMA Transitions ==
  ASSUME RowOK(row), NEW to \in {"awaiting_review", "failed", "timed_out"}
  PROVE  /\ CanTransition(row.status, to) => ~Terminal(row.status)
         /\ Terminal("failed") /\ Terminal("timed_out") /\ ~Terminal("awaiting_review")
         /\ ~Terminal("publishing")
BY DEF RowOK, CanTransition, Terminal, PhaseTerminal, AllStatuses, PhasePending,
       PhaseRunning, PhaseReview

\* The columns a transition writes, and those it does not.
LEMMA RowFields ==
  ASSUME RowOK(row), NEW to, NEW code
  PROVE  /\ DOMAIN [row EXCEPT !.status = to, !.code = code] = DOMAIN row
         /\ [row EXCEPT !.status = to, !.code = code].status = to
         /\ [row EXCEPT !.status = to, !.code = code].code = code
         /\ [row EXCEPT !.status = to, !.code = code].final = row.final
         /\ [row EXCEPT !.status = to, !.code = code].pr = row.pr
         /\ [row EXCEPT !.status = to, !.code = code].completed = row.completed
         /\ [row EXCEPT !.status = to, !.code = code].comments = row.comments
BY DEF RowOK

\* A move to review is complete, and one to an end says nothing about review.
LEMMA MovedRowWritten ==
  ASSUME PublishInv, NEW to \in {"awaiting_review", "failed", "timed_out"}, NEW code,
         to = "awaiting_review" =>
           /\ row.pr /\ row.final # "none" /\ site.body # "none" /\ Told(job, site)
           /\ ~lapsed => site.checks[site.body] > 0,
         code = "workspace_lost" => to = "failed" /\ (~lapsed => ~site.pushed)
  PROVE  Written(job, row, site, MovedRow(to, code), site, lapsed)
<1> DEFINE w == [row EXCEPT !.status = to, !.code = code]
<1>1. CASE ~CanTransition(row.status, to)
  BY <1>1, NothingWritten DEF MovedRow
<1>2. CASE CanTransition(row.status, to)
  <2>1. MovedRow(to, code) = w
    BY <1>2 DEF MovedRow
  <2>2. RowOK(row) /\ SiteOK(site)
    BY DEF PublishInv
  <2>3. /\ DOMAIN w = DOMAIN row /\ w.status = to /\ w.code = code /\ w.final = row.final
        /\ w.pr = row.pr /\ w.comments = row.comments
    BY <2>2, RowFields
  <2> HIDE DEF w
  <2>4. RowOK(w)
    BY <2>2, <2>3 DEF RowOK, PhaseTerminal
  <2>5. Grows(row, site, w, site)
    BY <1>2, <2>2, <2>3, Transitions DEF Grows, SiteOK
  <2>6. SharedOK(job, w, site)
    BY <2>3 DEF PublishInv, SharedOK
  <2>7. ~lapsed => SerialOK(w, site)
    BY <2>3 DEF PublishInv, SerialOK
  <2> QED BY <2>1, <2>2, <2>4, <2>5, <2>6, <2>7 DEF Written
<1> QED BY <1>1, <1>2

\* What each call of an owner writes to the row, and to GitHub.
LEMMA RowWritten ==
  ASSUME PublishInv, NEW r \in Runners
  PROVE  Written(job, row, site, RowAfter(r), site, lapsed)
<1> DEFINE e == exec[r]
<1>1. /\ ExecOK(e) /\ Progress(e, job, row, site) /\ RowOK(row) /\ SiteOK(site)
      /\ ~lapsed /\ e.pc # "idle" => Alone(e, job, row, site, api)
  BY Standing
<1>2. Kind(e) = KindOf(e, job) /\ Kind(e) \in Kinds
  BY KindsOf DEF Kind, KindOf
<1> HIDE DEF e
<1>3. CASE e.pc \in {"final", "number", "mark", "event"}
  <2> DEFINE w == RowAfter(r)
  <2>1. /\ DOMAIN w = DOMAIN row /\ w.status = row.status /\ w.code = row.code
        /\ w.final \in Commits \cup {"none"} /\ (row.final # "none" => w.final # "none")
        /\ row.pr => w.pr
        /\ w.comments \subseteq Kinds
        /\ \A k \in w.comments : k \in row.comments \/ (e.pc = "event" /\ k = Kind(e))
    <3>1. CASE e.pc = "final"
      BY <1>1, <3>1 DEF RowAfter, RowOK, Coalesce, ExecOK, e
    <3>2. CASE e.pc = "number"
      BY <1>1, <3>2 DEF RowAfter, RowOK, e
    <3>3. CASE e.pc = "mark"
      BY <1>1, <3>3 DEF RowAfter, RowOK, e
    <3>4. CASE e.pc = "event"
      BY <1>1, <1>2, <3>4 DEF RowAfter, RowOK, e
    <3> QED BY <1>3, <3>1, <3>2, <3>3, <3>4
  <2> HIDE DEF w
  <2>2. RowOK(w)
    BY <1>1, <2>1 DEF RowOK
  <2>3. Grows(row, site, w, site)
    BY <1>1, <2>1 DEF Grows, SiteOK
  <2>4. SharedOK(job, w, site)
    BY <1>1, <1>2, <2>1 DEF PublishInv, SharedOK, Progress
  <2>5. ~lapsed => SerialOK(w, site)
    BY <2>1 DEF PublishInv, SerialOK
  <2> QED BY <1>1, <2>2, <2>3, <2>4, <2>5 DEF Written, w
<1>4. CASE e.pc = "review" /\ Owns(r)
  <2>1. /\ row.pr /\ row.final # "none" /\ site.body # "none" /\ Told(job, site)
        /\ ~lapsed => site.checks[site.body] > 0
    BY <1>1, <1>4 DEF ExecOK, Progress, Alone, FromReview, FromTrigger, FromList, FromNumber,
       FromFind, FromPush
  <2>2. RowAfter(r) = MovedRow("awaiting_review", "none")
    BY <1>4 DEF RowAfter, e
  <2> QED BY <2>1, <2>2, MovedRowWritten
<1>5. CASE e.pc = "fail" /\ Owns(r)
  <2>1. e.code = "workspace_lost" /\ ~lapsed => ~site.pushed
    BY <1>1, <1>5 DEF Alone
  <2>2. RowAfter(r) = MovedRow("failed", e.code)
    BY <1>5 DEF RowAfter, e
  <2> QED BY <2>1, <2>2, MovedRowWritten
<1>6. CASE /\ e.pc \notin {"final", "number", "mark", "event"}
           /\ ~(e.pc \in {"review", "fail"} /\ Owns(r))
  BY <1>6, NothingWritten DEF RowAfter, e
<1> QED BY <1>3, <1>4, <1>5, <1>6

LEMMA SiteWritten ==
  ASSUME PublishInv, NEW r \in Runners,
         exec[r].pc = "push" => Pushable,
         exec[r].pc = "body" => Openable(exec[r])
  PROVE  Written(job, row, site, row, SiteAfter(exec[r]), lapsed)
<1> DEFINE e == exec[r]
           s == SiteAfter(e)
<1> SUFFICES Written(job, row, site, row, s, lapsed)
  OBVIOUS
<1>1. /\ ExecOK(e) /\ Progress(e, job, row, site) /\ RowOK(row) /\ SiteOK(site)
      /\ ~lapsed /\ e.pc # "idle" => Alone(e, job, row, site, api)
  BY Standing
<1>2. Kind(e) = KindOf(e, job) /\ Kind(e) \in Kinds
  BY KindsOf DEF Kind, KindOf
<1> HIDE DEF e
<1>3. SharedOK(job, row, site) /\ (~lapsed => SerialOK(row, site))
  BY DEF PublishInv
<1>4. ~lapsed /\ e.pc \in {"push", "body", "check", "comment"} =>
        row.status # "awaiting_review" /\ row.code # "workspace_lost"
  BY <1>1 DEF Alone, Ended, EndCalls
<1>5. CASE e.pc = "push"
  <2>1. s = [site EXCEPT !.branch = "work", !.pushed = TRUE]
    BY <1>5 DEF SiteAfter, PushedSite, e
  <2>2. /\ DOMAIN s = DOMAIN site /\ s.branch = "work" /\ s.pushed /\ s.body = site.body
        /\ s.checks = site.checks /\ s.posted = site.posted
    BY <1>1, <2>1 DEF SiteOK
  <2> HIDE DEF s
  <2> QED BY <1>1, <1>3, <1>4, <1>5, <2>2
          DEF Written, SiteOK, Grows, SharedOK, Told, SerialOK, Commits
<1>6. CASE e.pc = "body"
  <2>1. s = [site EXCEPT !.body = e.sha] /\ e.sha \in Commits
    BY <1>1, <1>6 DEF SiteAfter, BodySite, ExecOK, e
  <2>2. /\ DOMAIN s = DOMAIN site /\ s.branch = site.branch /\ s.pushed = site.pushed
        /\ s.body = e.sha /\ s.checks = site.checks /\ s.posted = site.posted
    BY <1>1, <2>1 DEF SiteOK
  <2> HIDE DEF s
  <2> QED BY <1>1, <1>3, <1>4, <1>6, <2>1, <2>2
          DEF Written, SiteOK, Grows, SharedOK, Told, SerialOK, Commits
<1>7. CASE e.pc = "check" /\ ~e.found
  <2>1. s = [site EXCEPT !.checks[e.sha] = @ + 1] /\ e.sha \in Commits
    BY <1>1, <1>7 DEF SiteAfter, CheckSite, ExecOK, e
  <2>2. /\ DOMAIN s = DOMAIN site /\ s.branch = site.branch /\ s.pushed = site.pushed
        /\ s.body = site.body /\ s.posted = site.posted
        /\ s.checks = [site.checks EXCEPT ![e.sha] = @ + 1]
    BY <1>1, <2>1 DEF SiteOK
  <2>3. /\ s.checks \in [Commits -> Nat] /\ s.checks[e.sha] = site.checks[e.sha] + 1
        /\ \A c \in Commits \ {e.sha} : s.checks[c] = site.checks[c]
    BY <1>1, <2>1, <2>2 DEF SiteOK
  <2>4. ~lapsed => site.checks[e.sha] = 0
    BY <1>1, <1>7 DEF Alone
  <2> HIDE DEF s
  <2> QED BY <1>1, <1>3, <1>4, <1>7, <2>1, <2>2, <2>3, <2>4
          DEF Written, SiteOK, Grows, SharedOK, Told, SerialOK
<1>8. CASE e.pc = "trigger" /\ e.pending
  <2>1. s = [site EXCEPT !.trigger = e.concl]
    BY <1>8 DEF SiteAfter, TriggerSite, e
  <2>2. /\ DOMAIN s = DOMAIN site /\ s.branch = site.branch /\ s.pushed = site.pushed
        /\ s.body = site.body /\ s.checks = site.checks /\ s.posted = site.posted
    BY <1>1, <2>1 DEF SiteOK
  <2> HIDE DEF s
  <2> QED BY <1>1, <1>3, <2>2 DEF Written, SiteOK, Grows, SharedOK, Told, SerialOK
<1>9. CASE e.pc = "comment"
  <2>1. s = [site EXCEPT !.posted[Kind(e)] = @ + 1]
    BY <1>9 DEF SiteAfter, CommentSite, e
  <2>2. /\ DOMAIN s = DOMAIN site /\ s.branch = site.branch /\ s.pushed = site.pushed
        /\ s.body = site.body /\ s.checks = site.checks
        /\ s.posted = [site.posted EXCEPT ![Kind(e)] = @ + 1]
    BY <1>1, <2>1 DEF SiteOK
  <2>3. s.posted \in [Kinds -> Nat] /\ \A k \in Kinds : site.posted[k] <= s.posted[k]
    BY <1>1, <1>2, <2>2 DEF SiteOK
  <2> HIDE DEF s
  <2> QED BY <1>1, <1>3, <2>2, <2>3
          DEF Written, SiteOK, RowOK, Grows, SharedOK, Told, SerialOK, Kinds
<1>10. CASE /\ e.pc \notin {"push", "body", "comment"}
            /\ ~(e.pc = "check" /\ ~e.found) /\ ~(e.pc = "trigger" /\ e.pending)
  BY <1>10, NothingWritten DEF SiteAfter, CheckSite
<1> QED BY <1>5, <1>6, <1>7, <1>8, <1>9, <1>10

-----------------------------------------------------------------------------
(* Steps that write neither the row nor GitHub.                            *)

\* Who failed, erred or lost its lease is on its way to the end.
LEMMA Leaving ==
  ASSUME NEW f, NEW w, NEW s, NEW a, NEW over,
         DOMAIN f = DOMAIN Idle, f.pc \in {"fail", "idle"} \cup EndCalls,
         f.err = "failed" => Terminal(w.status),
         ~over =>
           /\ ~f.lost
           /\ a = "idle" /\ (f.pending \/ f.pc = "settle_fence") => ~w.completed
           /\ f.pc = "fail" =>
                /\ w.status # "awaiting_review" /\ w.code # "workspace_lost"
                /\ f.code = "workspace_lost" => ~s.pushed
  PROVE  /\ ExecOK(f) /\ Progress(f, job, w, s)
         /\ ~over => Alone(f, job, w, s, a)
<1>1. DOMAIN f = {"pc", "ws", "sha", "pending", "found", "concl", "code", "ctx", "lost", "err"}
  BY Fields
<1>2. ExecOK(f)
  BY <1>1 DEF ExecOK, EndCalls, GitHubCalls, StoreCalls
<1>3. Progress(f, job, w, s)
  BY DEF Progress, EndCalls, FromPush, FromFind, FromNumber, FromList, FromTrigger, FromReview
<1>4. ~over => Alone(f, job, w, s, a)
  BY DEF Alone, Ended, EndCalls, FromTrigger, FromReview
<1> QED BY <1>2, <1>3, <1>4

\* While an owner publishes, nothing has been decided about the attempt.
LEMMA Undecided ==
  ASSUME PublishInv, NEW r \in Runners, exec[r].pc # "idle", ~Ended(exec[r]), ~lapsed
  PROVE  row.status # "awaiting_review" /\ row.code # "workspace_lost"
BY Standing DEF Alone

\* The first half of publishing.
LEMMA ReadStep ==
  ASSUME PublishInv, NEW r \in Runners,
         publishRecovered(r) \/ ReadAttempt(r) \/ ListCheckRuns(r) \/ CommentPosted(r)
  PROVE  PublishInv'
<1> DEFINE e == exec[r]
<1>1. /\ ExecOK(e) /\ Progress(e, job, row, site) /\ SiteOK(site)
      /\ ~lapsed => Alone(e, job, row, site, api)
      /\ e.pc # "idle" /\ TreeOK(tree) /\ RowOK(row)
  BY Standing DEF publishRecovered, ReadAttempt, ListCheckRuns, CommentPosted, At
<1>2. Kind(e) = KindOf(e, job)
  BY DEF Kind, KindOf
<1>3. CASE publishRecovered(r)
  <2> DEFINE f == IF Lookup(r) THEN [e EXCEPT !.pc = "read", !.ws = TRUE]
                               ELSE [e EXCEPT !.pc = "resolve", !.pending = Pending]
  <2>1. Goto(r, f) /\ UNCHANGED <<job, row, lease, site, api, lapsed, tree>> /\ e.pc = "recover"
    BY <1>3 DEF publishRecovered, At
  <2>2. ExecOK(f) /\ Progress(f, job, row, site)
    BY <1>1, <2>1 DEF ExecOK, Progress, GitHubCalls, StoreCalls, EndCalls,
       FromPush, FromFind, FromNumber, FromList, FromTrigger, FromReview
  <2>3. ~lapsed => Alone(f, job, row, site, api)
    BY <1>1, <2>1 DEF ExecOK, Alone, Pending, Ended, EndCalls, FromTrigger, FromReview
  <2> QED BY <1>1, <2>1, <2>2, <2>3, QuietMove
<1>4. CASE ReadAttempt(r)
  <2> DEFINE f == [e EXCEPT !.pc = "commit", !.pending = Pending]
  <2>1. Goto(r, f) /\ UNCHANGED <<job, row, lease, site, api, lapsed, tree>> /\ e.pc = "read"
    BY <1>4 DEF ReadAttempt, At
  <2>2. ExecOK(f) /\ Progress(f, job, row, site)
    BY <1>1, <2>1 DEF ExecOK, Progress, GitHubCalls, StoreCalls, EndCalls,
       FromPush, FromFind, FromNumber, FromList, FromTrigger, FromReview
  <2>3. ~lapsed => Alone(f, job, row, site, api)
    BY <1>1, <2>1 DEF ExecOK, Alone, Pending, Ended, EndCalls, FromTrigger, FromReview
  <2> QED BY <1>1, <2>1, <2>2, <2>3, QuietMove
<1>5. CASE ListCheckRuns(r)
  <2> DEFINE f == [e EXCEPT !.pc = "check", !.found = site.checks[e.sha] > 0]
  <2>1. Goto(r, f) /\ UNCHANGED <<job, row, lease, site, api, lapsed, tree>> /\ e.pc = "list"
    BY <1>5 DEF ListCheckRuns, At
  <2>2. ExecOK(f) /\ Progress(f, job, row, site)
    BY <1>1, <2>1 DEF ExecOK, Progress, GitHubCalls, StoreCalls, EndCalls,
       FromPush, FromFind, FromNumber, FromList, FromTrigger, FromReview
  <2>3. site.checks[e.sha] \in Nat
    BY <1>1, <2>1 DEF ExecOK, SiteOK
  <2>4. /\ f.pc = "check" /\ f.sha = e.sha /\ f.lost = e.lost /\ f.concl = e.concl
        /\ f.pending = e.pending /\ f.found = (site.checks[e.sha] > 0)
    BY <1>1 DEF ExecOK
  <2> HIDE DEF f
  <2>5. f.found <=> site.checks[e.sha] # 0
    <3>1. CASE site.checks[e.sha] # 0
      <4>1. (site.checks[e.sha] > 0) = TRUE
        BY <2>3, <3>1
      <4> QED BY <2>4, <3>1, <4>1, Zenon
    <3>2. CASE site.checks[e.sha] = 0
      <4>1. (site.checks[e.sha] > 0) = FALSE
        BY <3>2
      <4> QED BY <2>4, <3>2, <4>1, Zenon
    <3> QED BY <3>1, <3>2
  <2>6. ~lapsed => Alone(f, job, row, site, api)
    BY <1>1, <2>1, <2>4, <2>5 DEF Alone, Ended, EndCalls, FromTrigger, FromReview
  <2> QED BY <1>1, <2>1, <2>2, <2>6, QuietMove
<1>6. CASE CommentPosted(r)
  <2> DEFINE f == [e EXCEPT !.pc = IF Kind(e) \in row.comments THEN "cleanup" ELSE "comment"]
  <2>1. Goto(r, f) /\ UNCHANGED <<job, row, lease, site, api, lapsed, tree>> /\ e.pc = "posted"
    BY <1>6 DEF CommentPosted, At
  <2>2. ExecOK(f)
    BY <1>1, <2>1 DEF ExecOK, GitHubCalls, StoreCalls, EndCalls, PublishConclusions
  <2>3. Kind(e) \in row.comments => Told(job, site)
    BY <1>1, <1>2, <2>1 DEF PublishInv, SharedOK, KindOf, Told, ExecOK
  <2>4. Progress(f, job, row, site)
    BY <1>1, <2>1, <2>3 DEF ExecOK, Progress,
       FromPush, FromFind, FromNumber, FromList, FromTrigger, FromReview
  <2>5. KindOf(f, job) = KindOf(e, job)
    BY <1>1 DEF KindOf, ExecOK
  <2>6. ~lapsed => Alone(f, job, row, site, api)
    BY <1>1, <1>2, <2>1, <2>5 DEF ExecOK, Alone, Ended, EndCalls, FromTrigger, FromReview
  <2> QED BY <1>1, <2>1, <2>2, <2>4, <2>6, QuietMove
<1> QED BY <1>3, <1>4, <1>5, <1>6\* What follows the trigger check run, in whatever state the step leaves.

\* After the trigger check run an owner goes on where its conclusion sends it.
LEMMA AfterTriggerOK ==
  ASSUME job.number \in {1, 2}, NEW d, NEW w, NEW s, NEW a, NEW over,
         d.pc \in {"trigger", "mark"}, ExecOK(d), Progress(d, job, w, s),
         ~over => Alone(d, job, w, s, a)
  PROVE  /\ ExecOK(AfterTrigger(d)) /\ Progress(AfterTrigger(d), job, w, s)
         /\ ~over => Alone(AfterTrigger(d), job, w, s, a)
<1> DEFINE f == AfterTrigger(d)
<1> SUFFICES ExecOK(f) /\ Progress(f, job, w, s) /\ (~over => Alone(f, job, w, s, a))
  OBVIOUS
<1>1. DOMAIN d = DOMAIN Idle
  BY Fields DEF ExecOK
<1>2. CASE d.concl \notin PublishConclusions
  <2>1. /\ DOMAIN f = DOMAIN Idle /\ f.pc = "clean" /\ f.concl = "none" /\ ~f.pending
        /\ f.lost = d.lost /\ f.err = d.err
    BY <1>2, Fields DEF AfterTrigger
  <2> HIDE DEF f
  <2> QED BY <1>1, <1>2, <2>1
          DEF ExecOK, Progress, Alone, Ended, EndCalls, GitHubCalls, StoreCalls, FromPush,
              FromFind, FromNumber, FromList, FromTrigger, FromReview
<1>3. CASE d.concl \in PublishConclusions /\ f.pc # "fail"
  <2> DEFINE pc == IF job.number > 1 THEN IF d.concl = "evidence" THEN "posted" ELSE "find"
                   ELSE IF job.issue THEN "comment" ELSE "cleanup"
  <2>1. \/ f = Failing(d, "no_change")
        \/ f = [d EXCEPT !.pc = pc]
           /\ (job.number = 1 /\ ~job.issue => d.concl = "evidence")
    BY <1>3 DEF AfterTrigger, PublishConclusions
  <2>2. Failing(d, "no_change").pc = "fail"
    BY Fields DEF Failing
  <2>3. /\ DOMAIN f = DOMAIN Idle /\ f.pc = pc
        /\ f.concl = d.concl /\ f.pending = d.pending /\ f.lost = d.lost /\ f.err = d.err
        /\ f.ws = d.ws
        /\ (job.number = 1 /\ ~job.issue => d.concl = "evidence")
    BY <1>1, <1>3, <2>1, <2>2, Fields
  <2> HIDE DEF f
  <2>4. ExecOK(f)
    BY <1>1, <1>3, <2>3 DEF ExecOK, EndCalls, GitHubCalls, StoreCalls, PublishConclusions
  <2>5. Progress(f, job, w, s)
    BY <1>3, <2>3 DEF Progress, Told, FromPush, FromFind, FromNumber, FromList, FromTrigger,
       FromReview, PublishConclusions
  <2>6. ~over => Alone(f, job, w, s, a)
    BY <1>3, <2>3 DEF Alone, KindOf, Ended, EndCalls, FromTrigger, FromReview, PublishConclusions
  <2> QED BY <2>4, <2>5, <2>6
<1>4. CASE d.concl \in PublishConclusions /\ f.pc = "fail"
  <2>1. f = Failing(d, "no_change")
    BY <1>3, <1>4, <1>1 DEF AfterTrigger, PublishConclusions, ExecOK
  <2>2. /\ DOMAIN f = DOMAIN Idle /\ f.pc = "fail" /\ f.concl = "none" /\ f.code = "no_change"
        /\ ~f.pending /\ f.lost = d.lost /\ f.err = d.err
    BY <2>1, Fields DEF Failing
  <2> HIDE DEF f
  <2> QED BY <1>1, <1>4, <2>2
          DEF ExecOK, Progress, Alone, Ended, EndCalls, GitHubCalls, StoreCalls, FromPush,
              FromFind, FromNumber, FromList, FromTrigger, FromReview
<1> QED BY <1>2, <1>3, <1>4

\* A new owner starts over, from the row.
LEMMA ClaimStep ==
  ASSUME PublishInv, NEW r \in Runners, Claim(r)
  PROVE  PublishInv'
<1> DEFINE f == [Idle EXCEPT !.pc = "recover"]
<1>1. /\ Goto(r, f) /\ UNCHANGED <<job, row, site, api, lapsed, tree>> /\ ~lease.live
      /\ lease' = [owner |-> r, live |-> TRUE] /\ row.status \in PhaseRunning
  BY DEF Claim
<1>2. /\ DOMAIN f = DOMAIN Idle /\ f.pc = "recover" /\ f.concl = "none" /\ ~f.lost /\ ~f.pending
      /\ f.err = "none" /\ ~f.found
  BY DEF Idle
<1> HIDE DEF f
<1>3. ExecOK(f) /\ Progress(f, job, row, site)
  BY <1>2, Fields DEF ExecOK, Progress, StoreCalls, FromPush, FromFind, FromNumber, FromList,
     FromTrigger, FromReview, GitHubCalls, EndCalls
<1>4. row.code # "workspace_lost" /\ row.status # "awaiting_review"
  BY <1>1 DEF PublishInv, RowOK, PhaseRunning
<1>5. Alone(f, job, row, site, api)
  BY <1>2, <1>4 DEF Alone, FromTrigger, FromReview
<1>6. row' = row /\ site' = site /\ tree' = tree
  BY <1>1
<1>7. OwnerOK(r, f, lease', job, row', site', api, lapsed)
  BY <1>1, <1>3, <1>5, <1>6 DEF OwnerOK
<1> QED BY <1>1, <1>6, <1>7, OwnerMoves, NothingWritten DEF PublishInv

\* An owner takes the way of failTask, from whatever its call left behind.
LEMMA FailingOK ==
  ASSUME PublishInv, NEW r \in Runners, NEW code, exec[r].pc # "idle", ~Ended(exec[r]),
         NEW w, NEW s, w.status = row.status, w.code = row.code,
         code = "workspace_lost" => ~s.pushed
  PROVE  /\ ExecOK(Failing(exec[r], code)) /\ Progress(Failing(exec[r], code), job, w, s)
         /\ ~lapsed => Alone(Failing(exec[r], code), job, w, s, api)
<1> DEFINE f == Failing(exec[r], code)
<1>1. /\ DOMAIN f = DOMAIN Idle /\ f.pc = "fail" /\ f.concl = "none" /\ f.code = code
      /\ ~f.pending /\ f.lost = exec[r].lost /\ f.err = exec[r].err
  BY Fields DEF Failing
<1>2. Progress(exec[r], job, row, site) /\ (~lapsed => ~exec[r].lost)
  BY Standing DEF Alone
<1> HIDE DEF f
<1>3. f.err = "failed" => Terminal(w.status)
  BY <1>1, <1>2 DEF Progress
<1>4. ExecOK(f) /\ Progress(f, job, w, s) /\ (~lapsed => Alone(f, job, w, s, api))
  BY <1>1, <1>2, <1>3, Undecided, Leaving
<1> QED BY <1>4 DEF f

\* Or gives up with an error, which says nothing about the task.
LEMMA ErroredOK ==
  ASSUME PublishInv, NEW r \in Runners, exec[r].pc # "idle", NEW w, NEW s
  PROVE  /\ ExecOK(Errored(exec[r])) /\ Progress(Errored(exec[r]), job, w, s)
         /\ ~lapsed => Alone(Errored(exec[r]), job, w, s, api)
<1> DEFINE f == Errored(exec[r])
<1>1. /\ DOMAIN f = DOMAIN Idle /\ f.pc = "defer" /\ f.err = "error"
      /\ ~f.pending /\ f.lost = exec[r].lost
  BY Fields DEF Errored
<1>2. ~lapsed => ~exec[r].lost
  BY Standing DEF Alone
<1> HIDE DEF f
<1>3. ExecOK(f) /\ Progress(f, job, w, s) /\ (~lapsed => Alone(f, job, w, s, api))
  BY <1>1, <1>2, Leaving DEF EndCalls
<1> QED BY <1>3 DEF f

\* The calls that look at the branch, the worktree and the pull request.
LEMMA LookStep ==
  ASSUME PublishInv, NEW r \in Runners, ResolveBranch(r) \/ Commit(r) \/ FindPullRequest(r)
  PROVE  PublishInv'
<1> DEFINE e == exec[r]
<1>1. /\ ExecOK(e) /\ Progress(e, job, row, site) /\ SiteOK(site)
      /\ ~lapsed => Alone(e, job, row, site, api)
      /\ e.pc \in {"resolve", "commit", "find"} /\ TreeOK(tree)
      /\ UNCHANGED <<job, row, lease, site, api, lapsed>>
  BY Standing DEF ResolveBranch, Commit, FindPullRequest, At
<1>2. ~Ended(e)
  BY <1>1 DEF Ended, EndCalls
<1>3. TreeOK(tree')
  <2>1. tree' = tree \/ tree' = [tree EXCEPT !.holds = "commit"]
    BY DEF ResolveBranch, Commit, FindPullRequest
  <2> QED BY <1>1, <2>1 DEF TreeOK
<1>4. ASSUME NEW code, Goto(r, Failing(e, code)), code = "workspace_lost" => ~site.pushed
      PROVE  PublishInv'
  BY <1>1, <1>2, <1>3, <1>4, FailingOK, QuietMove
<1>5. ASSUME NEW sha \in Commits,
             Goto(r, [e EXCEPT !.pc = "final", !.sha = sha, !.concl = "evidence"])
      PROVE  PublishInv'
  <2> DEFINE f == [e EXCEPT !.pc = "final", !.sha = sha, !.concl = "evidence"]
  <2>1. ExecOK(f) /\ Progress(f, job, row, site)
    BY <1>1 DEF ExecOK, Progress, GitHubCalls, StoreCalls, EndCalls,
       FromPush, FromFind, FromNumber, FromList, FromTrigger, FromReview
  <2>2. ~lapsed => Alone(f, job, row, site, api)
    BY <1>1, <1>2 DEF ExecOK, Alone, FromTrigger, FromReview
  <2> QED BY <1>1, <1>3, <1>5, <2>1, <2>2, QuietMove
<1>6. ASSUME Goto(r, [e EXCEPT !.pc = "list", !.sha = "base", !.concl = "neutral"])
      PROVE  PublishInv'
  <2> DEFINE f == [e EXCEPT !.pc = "list", !.sha = "base", !.concl = "neutral"]
  <2>1. ExecOK(f) /\ Progress(f, job, row, site)
    BY <1>1 DEF ExecOK, Progress, GitHubCalls, StoreCalls, EndCalls, PublishConclusions, Commits
  <2>2. ~lapsed => Alone(f, job, row, site, api)
    BY <1>1, <1>2 DEF ExecOK, Alone, FromTrigger, FromReview
  <2> QED BY <1>1, <1>3, <1>6, <2>1, <2>2, QuietMove
<1>7. ASSUME NEW found, e.pc = "find", e.concl = "evidence",
             Goto(r, [e EXCEPT !.pc = "body", !.found = found])
      PROVE  PublishInv'
  <2> DEFINE f == [e EXCEPT !.pc = "body", !.found = found]
  <2>1. ExecOK(f) /\ Progress(f, job, row, site)
    BY <1>1, <1>7 DEF ExecOK, Progress, GitHubCalls, StoreCalls, EndCalls,
       FromPush, FromFind, FromNumber, FromList, FromTrigger, FromReview
  <2>2. ~lapsed => Alone(f, job, row, site, api)
    BY <1>1, <1>2, <1>7 DEF ExecOK, Alone, FromTrigger, FromReview
  <2> QED BY <1>1, <1>3, <1>7, <2>1, <2>2, QuietMove
<1>8. ASSUME e.pc = "find", e.concl # "evidence", Goto(r, [e EXCEPT !.pc = "number"])
      PROVE  PublishInv'
  <2> DEFINE f == [e EXCEPT !.pc = "number"]
  <2>1. ExecOK(f) /\ Progress(f, job, row, site)
    BY <1>1, <1>8 DEF ExecOK, Progress, GitHubCalls, StoreCalls, EndCalls, PublishConclusions
  <2>2. ~lapsed => Alone(f, job, row, site, api)
    BY <1>1, <1>2, <1>8 DEF ExecOK, Alone, FromTrigger, FromReview
  <2> QED BY <1>1, <1>3, <1>8, <2>1, <2>2, QuietMove
<1>9. CASE ResolveBranch(r)
  <2>1. CASE site.branch \in {"none", "base"}
    <3>1. Goto(r, Failing(e, "workspace_lost")) /\ ~site.pushed
      BY <1>1, <1>9, <2>1 DEF ResolveBranch, SiteOK
    <3> QED BY <1>4, <3>1
  <2>2. CASE site.branch \notin {"none", "base"}
    <3>1. site.branch \in Commits
          /\ Goto(r, [e EXCEPT !.pc = "final", !.sha = site.branch, !.concl = "evidence"])
      BY <1>1, <1>9, <2>2 DEF ResolveBranch, SiteOK
    <3> QED BY <1>5, <3>1
  <2> QED BY <2>1, <2>2
<1>10. CASE Commit(r)
  BY <1>4, <1>5, <1>6, <1>10 DEF Commit, Commits
<1>11. CASE FindPullRequest(r)
  BY <1>4, <1>7, <1>8, <1>11 DEF FindPullRequest, At
<1> QED BY <1>9, <1>10, <1>11

-----------------------------------------------------------------------------
(* Steps that write the row or GitHub.                                     *)

\* A step that writes and moves its owner.
LEMMA WrittenMove ==
  ASSUME PublishInv, NEW r \in Runners, NEW f, Goto(r, f),
         UNCHANGED <<job, lease, tree, api, lapsed>>, exec[r].pc # "idle",
         Written(job, row, site, row', site', lapsed),
         ExecOK(f), Progress(f, job, row', site'),
         ~lapsed => Alone(f, job, row', site', api)
  PROVE  PublishInv'
<1>1. ~lapsed => lease = [owner |-> r, live |-> TRUE]
  BY Standing
<1>2. OwnerOK(r, f, lease', job, row', site', api, lapsed)
  BY <1>1 DEF OwnerOK
<1>3. TreeOK(tree')
  BY Standing
<1> QED BY <1>2, <1>3, OwnerMoves

\* RecordFinalCommit and RecordPullRequest.
LEMMA RecordStep ==
  ASSUME PublishInv, NEW r \in Runners, RecordFinalCommit(r) \/ RecordPullRequest(r)
  PROVE  PublishInv'
<1> DEFINE e == exec[r]
<1>1. /\ ExecOK(e) /\ Progress(e, job, row, site) /\ RowOK(row)
      /\ ~lapsed => Alone(e, job, row, site, api)
      /\ e.pc \in {"final", "number"}
      /\ UNCHANGED <<job, lease, tree, site, api, lapsed>>
  BY Standing DEF RecordFinalCommit, RecordPullRequest, At
<1>2. ~Ended(e)
  BY <1>1 DEF Ended, EndCalls
<1>3. row' = RowAfter(r)
  BY DEF RecordFinalCommit, RecordPullRequest, RowAfter, At
<1>4. Written(job, row, site, row', site', lapsed)
  BY <1>1, <1>3, RowWritten
<1>5. CASE RecordFinalCommit(r)
  <2> DEFINE f == [e EXCEPT !.pc = IF e.ws THEN "push" ELSE "find"]
  <2>1. Goto(r, f) /\ e.pc = "final" /\ row' = [row EXCEPT !.final = Coalesce(@, "none", e.sha)]
    BY <1>5 DEF RecordFinalCommit, At
  <2>2. /\ row'.final # "none" /\ row'.status = row.status /\ row'.code = row.code
        /\ row'.completed = row.completed
    BY <1>1, <2>1 DEF RowOK, Coalesce, ExecOK, Commits
  <2>3. ExecOK(f) /\ Progress(f, job, row', site')
    BY <1>1, <2>1, <2>2 DEF ExecOK, Progress, GitHubCalls, StoreCalls, EndCalls,
       PublishConclusions, FromPush, FromFind, FromNumber, FromList, FromTrigger, FromReview
  <2>4. ~lapsed => Alone(f, job, row', site', api)
    BY <1>1, <1>2, <2>1, <2>2 DEF ExecOK, Alone, FromTrigger, FromReview
  <2> QED BY <1>1, <1>4, <2>1, <2>3, <2>4, WrittenMove
<1>6. CASE RecordPullRequest(r)
  <2> DEFINE f == [e EXCEPT !.pc = IF e.concl = "evidence" THEN "list" ELSE "comment"]
  <2>1. Goto(r, f) /\ e.pc = "number" /\ row' = [row EXCEPT !.pr = TRUE]
    BY <1>6 DEF RecordPullRequest, At
  <2>2. /\ row'.final = row.final /\ row'.status = row.status /\ row'.code = row.code
        /\ row'.completed = row.completed /\ row'.pr = TRUE /\ row'.comments = row.comments
    BY <1>1, <2>1 DEF RowOK
  <2>3. ExecOK(f) /\ Progress(f, job, row', site')
    BY <1>1, <2>1, <2>2 DEF ExecOK, Progress, GitHubCalls, StoreCalls, EndCalls,
       PublishConclusions, FromPush, FromFind, FromNumber, FromList, FromTrigger, FromReview
  <2>4. ~lapsed => Alone(f, job, row', site', api)
    BY <1>1, <1>2, <2>1, <2>2 DEF ExecOK, Alone, KindOf, PublishConclusions, FromTrigger, FromReview
  <2> QED BY <1>1, <1>4, <2>1, <2>3, <2>4, WrittenMove
<1> QED BY <1>5, <1>6

\* The event of a comment.
LEMMA RecordCommentStep ==
  ASSUME PublishInv, NEW r \in Runners, RecordComment(r)
  PROVE  PublishInv'
<1> DEFINE e == exec[r]
           f == [e EXCEPT !.pc = "cleanup"]
<1>1. /\ ExecOK(e) /\ Progress(e, job, row, site) /\ RowOK(row) /\ job.number \in {1, 2}
      /\ ~lapsed => Alone(e, job, row, site, api)
      /\ e.pc = "event"
      /\ UNCHANGED <<job, lease, tree, site, api, lapsed>>
      /\ row' = [row EXCEPT !.comments = @ \cup {Kind(e)}]
  BY Standing DEF RecordComment, At
<1>2. ~Ended(e)
  BY <1>1 DEF Ended, EndCalls
<1>3. row' = RowAfter(r)
  BY DEF RecordComment, RowAfter, At
<1>4. Written(job, row, site, row', site', lapsed)
  BY <1>1, <1>3, RowWritten
<1>5. /\ row'.final = row.final /\ row'.status = row.status /\ row'.code = row.code
      /\ row'.completed = row.completed /\ row'.pr = row.pr
  BY <1>1 DEF RowOK
<1>6. CASE e.concl = "evidence"
  <2>1. Goto(r, f)
    BY <1>6 DEF RecordComment
  <2>2. Told(job, site)
    BY <1>1, <1>6 DEF Progress, KindOf, Told
  <2>3. ExecOK(f) /\ Progress(f, job, row', site')
    BY <1>1, <1>5, <1>6, <2>2 DEF ExecOK, Progress, GitHubCalls, StoreCalls, EndCalls,
       PublishConclusions, FromPush, FromFind, FromNumber, FromList, FromTrigger, FromReview
  <2>4. ~lapsed => Alone(f, job, row', site', api)
    BY <1>1, <1>2, <1>5, <1>6 DEF ExecOK, Alone, FromTrigger, FromReview
  <2> QED BY <1>1, <1>4, <2>1, <2>3, <2>4, WrittenMove
<1>7. CASE e.concl # "evidence"
  <2>1. Goto(r, Failing(e, "no_change"))
    BY <1>7 DEF RecordComment
  <2>2. /\ ExecOK(Failing(e, "no_change")) /\ Progress(Failing(e, "no_change"), job, row', site')
        /\ ~lapsed => Alone(Failing(e, "no_change"), job, row', site', api)
    BY <1>1, <1>2, <1>5, FailingOK
  <2> QED BY <1>1, <1>4, <2>1, <2>2, WrittenMove
<1> QED BY <1>6, <1>7

\* Pushing, and putting the pull request.
LEMMA PutStep ==
  ASSUME PublishInv, NEW r \in Runners, Push(r) \/ PutPullRequest(r)
  PROVE  PublishInv'
<1> DEFINE e == exec[r]
<1>1. /\ ExecOK(e) /\ Progress(e, job, row, site) /\ SiteOK(site)
      /\ ~lapsed => Alone(e, job, row, site, api)
      /\ e.pc \in {"push", "body"}
      /\ UNCHANGED <<job, row, lease, tree, api, lapsed>>
  BY Standing DEF Push, PutPullRequest, At
<1>2. ~Ended(e)
  BY <1>1 DEF Ended, EndCalls
<1>3. CASE site' = site /\ Goto(r, Failing(e, "publish_failed"))
  <2>1. /\ ExecOK(Failing(e, "publish_failed"))
        /\ Progress(Failing(e, "publish_failed"), job, row, site)
        /\ ~lapsed => Alone(Failing(e, "publish_failed"), job, row, site, api)
    BY <1>1, <1>2, FailingOK
  <2> QED BY <1>1, <1>3, <2>1, NothingWritten, WrittenMove
<1>4. CASE e.pc = "push" /\ Pushable /\ site' = PushedSite /\ Goto(r, [e EXCEPT !.pc = "find"])
  <2> DEFINE f == [e EXCEPT !.pc = "find"]
  <2>1. Written(job, row, site, row', site', lapsed)
    <3>1. site' = SiteAfter(e)
      BY <1>4 DEF SiteAfter
    <3> QED BY <1>1, <1>4, <3>1, SiteWritten
  <2>2. site'.pushed /\ site'.checks = site.checks /\ site'.posted = site.posted
        /\ site'.body = site.body
    BY <1>1, <1>4 DEF PushedSite, SiteOK
  <2>3. ExecOK(f) /\ Progress(f, job, row', site')
    BY <1>1, <1>4, <2>2 DEF ExecOK, Progress, GitHubCalls, StoreCalls, EndCalls,
       PublishConclusions, FromPush, FromFind, FromNumber, FromList, FromTrigger, FromReview
  <2>4. ~lapsed => Alone(f, job, row', site', api)
    BY <1>1, <1>2, <1>4, <2>2 DEF ExecOK, Alone, FromTrigger, FromReview
  <2> QED BY <1>1, <1>4, <2>1, <2>3, <2>4, WrittenMove
<1>5. CASE /\ e.pc = "body" /\ Openable(e) /\ site' = BodySite(e)
           /\ Goto(r, [e EXCEPT !.pc = "number", !.found = FALSE])
  <2> DEFINE f == [e EXCEPT !.pc = "number", !.found = FALSE]
  <2>1. Written(job, row, site, row', site', lapsed)
    <3>1. site' = SiteAfter(e)
      BY <1>5 DEF SiteAfter
    <3> QED BY <1>1, <1>5, <3>1, SiteWritten
  <2>2. site'.pushed = site.pushed /\ site'.checks = site.checks /\ site'.posted = site.posted
        /\ site'.body = e.sha /\ e.sha # "none"
    BY <1>1, <1>5 DEF BodySite, SiteOK, ExecOK, Commits
  <2>3. ExecOK(f) /\ Progress(f, job, row', site')
    BY <1>1, <1>5, <2>2 DEF ExecOK, Progress, GitHubCalls, StoreCalls, EndCalls,
       PublishConclusions, FromPush, FromFind, FromNumber, FromList, FromTrigger, FromReview
  <2>4. ~lapsed => Alone(f, job, row', site', api)
    BY <1>1, <1>2, <1>5, <2>2 DEF ExecOK, Alone, FromTrigger, FromReview
  <2> QED BY <1>1, <1>5, <2>1, <2>3, <2>4, WrittenMove
<1> QED BY <1>3, <1>4, <1>5 DEF Push, PutPullRequest, At

\* The check run of the evidence, and a comment.
LEMMA AnnounceStep ==
  ASSUME PublishInv, NEW r \in Runners, PutCheckRun(r) \/ PostComment(r)
  PROVE  PublishInv'
<1> DEFINE e == exec[r]
<1>1. /\ ExecOK(e) /\ Progress(e, job, row, site) /\ SiteOK(site)
      /\ ~lapsed => Alone(e, job, row, site, api)
      /\ e.pc \in {"check", "comment"}
      /\ UNCHANGED <<job, row, lease, tree, api, lapsed>>
  BY Standing DEF PutCheckRun, PostComment, At
<1>2. ~Ended(e)
  BY <1>1 DEF Ended, EndCalls
<1>3. site' = SiteAfter(e)
  BY DEF PutCheckRun, PostComment, SiteAfter, At
<1>4. Written(job, row, site, row', site', lapsed)
  BY <1>1, <1>3, SiteWritten
<1>5. CASE PutCheckRun(r)
  <2> DEFINE f == [e EXCEPT !.pc = "trigger", !.sha = "none", !.found = FALSE]
  <2>1. Goto(r, f) /\ e.pc = "check" /\ site' = CheckSite(e)
    BY <1>5 DEF PutCheckRun, At
  <2>2. /\ site'.pushed = site.pushed /\ site'.posted = site.posted /\ site'.body = site.body
        /\ ~e.found => site'.checks[e.sha] = site.checks[e.sha] + 1
        /\ e.found => site' = site
    BY <1>1, <2>1 DEF CheckSite, SiteOK, ExecOK
  <2>3. e.sha \in Commits /\ site.checks[e.sha] \in Nat
    BY <1>1, <2>1 DEF ExecOK, SiteOK
  <2>4. ExecOK(f) /\ Progress(f, job, row', site')
    BY <1>1, <2>1, <2>2 DEF ExecOK, Progress, Told, GitHubCalls, StoreCalls, EndCalls,
       PublishConclusions, FromPush, FromFind, FromNumber, FromList, FromTrigger, FromReview
  <2>5. ~lapsed => site'.checks[e.sha] > 0
    BY <1>1, <2>1, <2>2, <2>3 DEF Alone
  <2>6. ~lapsed => Alone(f, job, row', site', api)
    BY <1>1, <1>2, <2>1, <2>2, <2>3, <2>5 DEF ExecOK, Alone, FromTrigger, FromReview, Commits
  <2> QED BY <1>1, <1>4, <2>1, <2>4, <2>6, WrittenMove
<1>6. CASE PostComment(r)
  <2> DEFINE f == [e EXCEPT !.pc = "event"]
  <2>1. Goto(r, f) /\ e.pc = "comment" /\ site' = CommentSite(e)
    BY <1>6 DEF PostComment, At
  <2>2. Kind(e) = KindOf(e, job) /\ Kind(e) \in Kinds
    BY KindsOf DEF Kind, KindOf
  <2>3. /\ site'.pushed = site.pushed /\ site'.checks = site.checks /\ site'.body = site.body
        /\ site'.posted[Kind(e)] = site.posted[Kind(e)] + 1 /\ site.posted[Kind(e)] \in Nat
    BY <1>1, <2>1, <2>2 DEF CommentSite, SiteOK
  <2>4. KindOf(f, job) = KindOf(e, job)
    BY <1>1 DEF KindOf, ExecOK
  <2>5. ExecOK(f) /\ Progress(f, job, row', site')
    BY <1>1, <2>1, <2>2, <2>3, <2>4 DEF ExecOK, Progress, GitHubCalls, StoreCalls, EndCalls,
       PublishConclusions, FromPush, FromFind, FromNumber, FromList, FromTrigger, FromReview
  <2>6. ~lapsed => Alone(f, job, row', site', api)
    BY <1>1, <1>2, <2>1, <2>3 DEF ExecOK, Alone, FromTrigger, FromReview
  <2> QED BY <1>1, <1>4, <2>1, <2>5, <2>6, WrittenMove
<1> QED BY <1>5, <1>6\* completeTriggerCheckRun, and its failure that only logs.

\* Completing the trigger check run, and recording that.
LEMMA TriggerStep ==
  ASSUME PublishInv, NEW r \in Runners,
         \/ CompleteTriggerCheckRun(r) \/ MarkTriggerCheckRunCompleted(r)
         \/ TriggerUnreachable(r)
  PROVE  PublishInv'
<1> DEFINE e == exec[r]
<1>1. /\ ExecOK(e) /\ Progress(e, job, row, site) /\ RowOK(row) /\ SiteOK(site)
      /\ ~lapsed => Alone(e, job, row, site, api)
      /\ e.pc \in {"trigger", "mark"} /\ job.number \in {1, 2}
      /\ UNCHANGED <<job, lease, tree, api, lapsed>>
  BY Standing DEF CompleteTriggerCheckRun, MarkTriggerCheckRunCompleted, TriggerUnreachable
<1>2. /\ Written(job, row, site, row, site, lapsed)
      /\ Written(job, row, site, row, SiteAfter(e), lapsed)
      /\ Written(job, row, site, RowAfter(r), site, lapsed)
  BY <1>1, NothingWritten, SiteWritten, RowWritten
<1>3. e.pc = "trigger" /\ e.pending => SiteAfter(e) = TriggerSite(e)
  BY DEF SiteAfter
<1>4. e.pc = "trigger" /\ e.pending =>
        /\ SiteAfter(e).pushed = site.pushed /\ SiteAfter(e).checks = site.checks
        /\ SiteAfter(e).posted = site.posted /\ SiteAfter(e).body = site.body
  BY <1>1, <1>3 DEF TriggerSite, SiteOK
<1>5. CASE /\ e.pc = "trigger" /\ e.pending /\ site' = TriggerSite(e) /\ row' = row
           /\ Goto(r, [e EXCEPT !.pc = "mark", !.pending = FALSE])
  <2> DEFINE f == [e EXCEPT !.pc = "mark", !.pending = FALSE]
  <2>1. ExecOK(f)
    BY <1>1, <1>5 DEF ExecOK, GitHubCalls, StoreCalls, EndCalls
  <2>2. Progress(f, job, row', site')
    BY <1>1, <1>3, <1>4, <1>5 DEF ExecOK, Progress,
       FromPush, FromFind, FromNumber, FromList, FromTrigger, FromReview
  <2>3. ~lapsed => Alone(f, job, row', site', api)
    BY <1>1, <1>3, <1>4, <1>5 DEF ExecOK, Alone, Ended, EndCalls, FromTrigger, FromReview
  <2> QED BY <1>1, <1>2, <1>3, <1>5, <2>1, <2>2, <2>3, WrittenMove
<1>6. CASE row' = row /\ site' = site /\ Goto(r, AfterTrigger(e))
  <2>1. /\ ExecOK(AfterTrigger(e)) /\ Progress(AfterTrigger(e), job, row, site)
        /\ ~lapsed => Alone(AfterTrigger(e), job, row, site, api)
    BY <1>1, AfterTriggerOK
  <2> QED BY <1>1, <1>2, <1>6, <2>1, WrittenMove
<1>7. CASE e.pc = "mark" /\ site' = site /\ row' = [row EXCEPT !.completed = TRUE]
           /\ Goto(r, AfterTrigger(e))
  <2>1. row' = RowAfter(r)
    BY <1>7 DEF RowAfter
  <2>2. /\ row'.status = row.status /\ row'.code = row.code /\ row'.comments = row.comments
    BY <1>1, <1>7 DEF RowOK
  <2>3. Progress(e, job, row', site)
    BY <1>1, <1>2, <1>7, <2>1, ProgressStays DEF Written
  <2>4. ~lapsed => Alone(e, job, row', site, api)
    BY <1>1, <1>7, <2>2 DEF Alone, ExecOK
  <2>5. /\ ExecOK(AfterTrigger(e)) /\ Progress(AfterTrigger(e), job, row', site)
        /\ ~lapsed => Alone(AfterTrigger(e), job, row', site, api)
    BY <1>1, <2>3, <2>4, AfterTriggerOK
  <2> QED BY <1>1, <1>2, <1>7, <2>1, <2>5, WrittenMove
<1>8. CASE /\ e.pc = "trigger" /\ e.pending /\ row' = row /\ site' \in {site, SiteAfter(e)}
           /\ Goto(r, AfterTrigger([e EXCEPT !.pending = FALSE]))
  <2> DEFINE d == [e EXCEPT !.pending = FALSE]
             f == AfterTrigger(d)
  <2>1. ExecOK(d) /\ d.pc = "trigger" /\ d.concl = e.concl
    BY <1>1, <1>8 DEF ExecOK, GitHubCalls, StoreCalls, EndCalls
  <2>2. Progress(d, job, row, site')
    BY <1>1, <1>4, <1>8 DEF ExecOK, Progress,
       FromPush, FromFind, FromNumber, FromList, FromTrigger, FromReview
  <2>3. ~lapsed => Alone(d, job, row, site', api)
    BY <1>1, <1>4, <1>8 DEF ExecOK, Alone, Ended, EndCalls, FromTrigger, FromReview
  <2> HIDE DEF d
  <2>4. /\ ExecOK(f) /\ Progress(f, job, row, site')
        /\ ~lapsed => Alone(f, job, row, site', api)
    BY <1>1, <2>1, <2>2, <2>3, AfterTriggerOK
  <2>5. Goto(r, f)
    BY <1>8 DEF d
  <2> QED BY <1>1, <1>2, <1>8, <2>4, <2>5, WrittenMove
<1> QED
  BY <1>5, <1>6, <1>7, <1>8
  DEF CompleteTriggerCheckRun, MarkTriggerCheckRunCompleted, TriggerUnreachable

-----------------------------------------------------------------------------
(* The end of an attempt.                                                  *)

\* What each step of the end makes of an owner.
LEMMA EndFields ==
  ASSUME NEW e, DOMAIN e = DOMAIN Idle, NEW pc
  PROVE  /\ DOMAIN Lost(e, pc) = DOMAIN Idle /\ Lost(e, pc).pc = pc /\ Lost(e, pc).err = "lost"
         /\ ~Lost(e, pc).pending
         /\ DOMAIN [e EXCEPT !.pc = pc] = DOMAIN Idle /\ [e EXCEPT !.pc = pc].pc = pc
         /\ [e EXCEPT !.pc = pc].err = e.err /\ [e EXCEPT !.pc = pc].lost = e.lost
         /\ [e EXCEPT !.pc = pc].pending = e.pending
         /\ DOMAIN [e EXCEPT !.pc = pc, !.ws = FALSE] = DOMAIN Idle
         /\ [e EXCEPT !.pc = pc, !.ws = FALSE].pc = pc
         /\ [e EXCEPT !.pc = pc, !.ws = FALSE].err = e.err
         /\ [e EXCEPT !.pc = pc, !.ws = FALSE].lost = e.lost
         /\ [e EXCEPT !.pc = pc, !.ws = FALSE].pending = e.pending
         /\ DOMAIN [Outlives(e) EXCEPT !.pc = pc] = DOMAIN Idle
         /\ [Outlives(e) EXCEPT !.pc = pc].pc = pc
         /\ [Outlives(e) EXCEPT !.pc = pc].err = e.err
         /\ [Outlives(e) EXCEPT !.pc = pc].lost = e.lost
         /\ ~[Outlives(e) EXCEPT !.pc = pc].pending
         /\ DOMAIN [Outlives(e) EXCEPT !.pc = pc, !.err = "failed"] = DOMAIN Idle
         /\ [Outlives(e) EXCEPT !.pc = pc, !.err = "failed"].pc = pc
         /\ [Outlives(e) EXCEPT !.pc = pc, !.err = "failed"].lost = e.lost
         /\ ~[Outlives(e) EXCEPT !.pc = pc, !.err = "failed"].pending
<1>1. DOMAIN e = {"pc", "ws", "sha", "pending", "found", "concl", "code", "ctx", "lost", "err"}
  BY Fields
<1>2. /\ DOMAIN Outlives(e) = {"pc", "ws", "sha", "pending", "found", "concl", "code",
                               "ctx", "lost", "err"}
      /\ Outlives(e).err = e.err /\ Outlives(e).lost = e.lost /\ ~Outlives(e).pending
  BY Fields
<1> QED BY <1>1, <1>2, Fields DEF Lost

\* An owner that follows nobody still owns the attempt.
LEMMA StillOwns ==
  ASSUME PublishInv, NEW r \in Runners, exec[r].pc # "idle", ~lapsed
  PROVE  Owns(r) /\ Holds(r)
BY Standing DEF Owns, Holds, Alone\* A step of the end that leaves the row alone.

\* A step of the end that keeps the lease, and one that does not.
LEMMA EndMove ==
  ASSUME PublishInv, NEW r \in Runners, exec[r].pc # "idle", NEW f, Goto(r, f),
         UNCHANGED <<job, row, lease, site, api, lapsed>>, TreeOK(tree'),
         DOMAIN f = DOMAIN Idle, f.pc \in {"idle"} \cup EndCalls,
         f.err = "failed" => Terminal(row.status),
         ~lapsed => /\ ~f.lost
                    /\ f.pending => exec[r].pending
                    /\ f.pc = "settle_fence" => ~row.completed
  PROVE  PublishInv'
<1>1. ~lapsed => Alone(exec[r], job, row, site, api)
  BY Standing
<1>2. ~lapsed => (api = "idle" /\ (f.pending \/ f.pc = "settle_fence") => ~row.completed)
  BY <1>1 DEF Alone
<1>3. f.pc # "fail" /\ f.pc \in {"fail", "idle"} \cup EndCalls
  BY DEF EndCalls
<1>4. ExecOK(f) /\ Progress(f, job, row, site) /\ (~lapsed => Alone(f, job, row, site, api))
  BY <1>2, <1>3, Leaving
<1> QED BY <1>4, QuietMove

LEMMA IdleMove ==
  ASSUME PublishInv, NEW r \in Runners, exec[r].pc # "idle", Goto(r, Idle),
         UNCHANGED <<job, row, site, api, lapsed>>, TreeOK(tree')
  PROVE  PublishInv'
<1>1. Idle.pc = "idle" /\ Idle.err = "none" /\ Idle.concl = "none" /\ DOMAIN Idle = DOMAIN Idle
      /\ ~Idle.lost /\ ~Idle.pending
  BY DEF Idle
<1>2. ExecOK(Idle) /\ Progress(Idle, job, row, site)
  BY <1>1, Leaving
<1>3. OwnerOK(r, Idle, lease', job, row, site, api, lapsed)
  BY <1>1, <1>2 DEF OwnerOK
<1>4. row' = row /\ site' = site
  OBVIOUS
<1> QED BY <1>3, <1>4, OwnerMoves, NothingWritten

\* A worktree that was removed.
LEMMA NoTreeOK == TreeOK(NoTree)
BY DEF TreeOK, NoTree

\* The cleanup after a complete publication.
LEMMA CleanupPublishedStep ==
  ASSUME PublishInv, NEW r \in Runners, CleanupPublished(r)
  PROVE  PublishInv'
<1> DEFINE e == exec[r]
<1>1. /\ ExecOK(e) /\ Progress(e, job, row, site) /\ TreeOK(tree)
      /\ ~lapsed => Alone(e, job, row, site, api)
      /\ e.pc = "cleanup" /\ DOMAIN e = DOMAIN Idle
      /\ UNCHANGED <<job, row, lease, site, api, lapsed>>
  BY Standing, Fields DEF CleanupPublished, ExecOK
<1>2. TreeOK(tree')
  BY <1>1, NoTreeOK DEF CleanupPublished
<1>3. CASE ~Owns(r)
  <2>1. Goto(r, Lost(e, "defer")) \/ (~e.ws /\ Goto(r, [e EXCEPT !.pc = "review"]))
    BY <1>3 DEF CleanupPublished
  <2>2. lapsed
    BY <1>1, <1>3, StillOwns
  <2>3. CASE Goto(r, Lost(e, "defer"))
    BY <1>1, <1>2, <2>2, <2>3, EndFields, EndMove DEF EndCalls
  <2>4. CASE ~e.ws /\ Goto(r, [e EXCEPT !.pc = "review"])
    <3> DEFINE f == [e EXCEPT !.pc = "review"]
    <3>1. ExecOK(f) /\ Progress(f, job, row, site)
      BY <1>1 DEF ExecOK, Progress, GitHubCalls, StoreCalls, EndCalls,
         FromPush, FromFind, FromNumber, FromList, FromTrigger, FromReview
    <3> QED BY <1>1, <1>2, <2>2, <2>4, <3>1, QuietMove
  <2> QED BY <2>1, <2>3, <2>4
<1>4. CASE Owns(r)
  <2>1. PICK f \in {[e EXCEPT !.pc = "review"], [e EXCEPT !.pc = "review", !.ws = FALSE]} :
          Goto(r, f)
    BY <1>4 DEF CleanupPublished
  <2>2. /\ f.pc = "review" /\ f.concl = e.concl /\ f.err = e.err /\ f.lost = e.lost
        /\ f.pending = e.pending /\ DOMAIN f = DOMAIN Idle /\ (f.ws = e.ws \/ f.ws = FALSE)
    BY <1>1 DEF ExecOK
  <2>3. ExecOK(f) /\ Progress(f, job, row, site)
    BY <1>1, <2>2 DEF ExecOK, Progress, GitHubCalls, StoreCalls, EndCalls,
       FromPush, FromFind, FromNumber, FromList, FromTrigger, FromReview
  <2>4. ~lapsed => Alone(f, job, row, site, api)
    BY <1>1, <2>2 DEF Alone, Ended, EndCalls, FromTrigger, FromReview
  <2> QED BY <1>1, <1>2, <2>1, <2>3, <2>4, QuietMove
<1> QED BY <1>3, <1>4

\* The fenced transitions.
LEMMA MovedStatus ==
  ASSUME RowOK(row), NEW to \in {"awaiting_review", "failed", "timed_out"}, NEW code, Moves(to)
  PROVE  MovedRow(to, code).status = to
BY RowFields, Transitions DEF Moves, MovedRow

\* The transition to review, and the one of failTask.
LEMMA DecideStep ==
  ASSUME PublishInv, NEW r \in Runners, Review(r) \/ FailTask(r)
  PROVE  PublishInv'
<1> DEFINE e == exec[r]
<1>1. /\ RowOK(row) /\ e.pc \in {"review", "fail"} /\ DOMAIN e = DOMAIN Idle
      /\ Progress(e, job, row, site) /\ (~lapsed => ~e.lost)
      /\ UNCHANGED <<job, lease, tree, site, api, lapsed>>
  BY Standing, Fields DEF Review, FailTask, At, ExecOK, Alone
<1>2. row' = RowAfter(r)
  BY DEF Review, FailTask, RowAfter, At
<1>3. Written(job, row, site, row', site', lapsed)
  BY <1>1, <1>2, RowWritten
<1>4. ~lapsed => Owns(r)
  BY <1>1, StillOwns
<1>5. ASSUME NEW f, Goto(r, f), DOMAIN f = DOMAIN Idle, f.pc \in {"defer", "end"},
             f.err = "failed" => Terminal(row'.status), ~lapsed => ~f.lost, ~f.pending
      PROVE  PublishInv'
  <2>1. f.pc \in {"fail", "idle"} \cup EndCalls
    BY <1>5 DEF EndCalls
  <2>2. ExecOK(f) /\ Progress(f, job, row', site') /\ (~lapsed => Alone(f, job, row', site', api))
    BY <1>5, <2>1, Leaving
  <2> QED BY <1>1, <1>3, <1>5, <2>2, WrittenMove
<1>6. CASE Goto(r, Lost(e, "defer")) /\ ~Owns(r)
  BY <1>1, <1>4, <1>5, <1>6, EndFields
<1>7. CASE Goto(r, Errored(e))
  <2>1. /\ ExecOK(Errored(e)) /\ Progress(Errored(e), job, row', site')
        /\ ~lapsed => Alone(Errored(e), job, row', site', api)
    BY <1>1, ErroredOK
  <2> QED BY <1>1, <1>3, <1>7, <2>1, WrittenMove
<1>8. CASE Goto(r, [Outlives(e) EXCEPT !.pc = "end"])
  <2>1. e.err = "failed" => Terminal(row'.status)
    BY <1>1, <1>3 DEF Progress, Written, Grows
  <2> DEFINE f == [Outlives(e) EXCEPT !.pc = "end"]
  <2>2. DOMAIN f = DOMAIN Idle /\ f.pc = "end" /\ f.err = e.err /\ f.lost = e.lost /\ ~f.pending
    BY <1>1, EndFields
  <2>3. Goto(r, f)
    BY <1>8
  <2> HIDE DEF f
  <2> QED BY <1>1, <1>5, <2>1, <2>2, <2>3
<1>9. CASE /\ Goto(r, [Outlives(e) EXCEPT !.pc = "defer", !.err = "failed"])
           /\ row' = MovedRow("failed", e.code) /\ Moves("failed")
  <2>1. row'.status = "failed" /\ Terminal("failed")
    BY <1>1, <1>9, MovedStatus, Transitions
  <2> DEFINE f == [Outlives(e) EXCEPT !.pc = "defer", !.err = "failed"]
  <2>2. DOMAIN f = DOMAIN Idle /\ f.pc = "defer" /\ f.lost = e.lost /\ ~f.pending
    BY <1>1, EndFields
  <2>3. Goto(r, f)
    BY <1>9
  <2> HIDE DEF f
  <2> QED BY <1>1, <1>5, <2>1, <2>2, <2>3
<1>10. CASE Review(r)
  BY <1>6, <1>7, <1>8, <1>10 DEF Review
<1>11. CASE FailTask(r)
  BY <1>6, <1>7, <1>9, <1>11 DEF FailTask
<1> QED BY <1>10, <1>11

\* The transition of timeoutTask.
LEMMA TimeoutStep ==
  ASSUME PublishInv, NEW r \in Runners, TimeoutTask(r)
  PROVE  PublishInv'
<1> DEFINE e == exec[r]
<1>1. /\ RowOK(row) /\ e.pc = "timeout" /\ DOMAIN e = DOMAIN Idle
      /\ Progress(e, job, row, site) /\ (~lapsed => Alone(e, job, row, site, api))
      /\ UNCHANGED <<job, lease, tree, site, api, lapsed>>
  BY Standing, Fields DEF TimeoutTask, ExecOK
<1>2. ~lapsed => Owns(r)
  BY <1>1, StillOwns
<1>3. row' = MovedRow("timed_out", "task_runtime_exceeded") \/ row' = row
  BY DEF TimeoutTask
<1>4. Written(job, row, site, row', site', lapsed)
  BY <1>1, <1>3, NothingWritten, MovedRowWritten
<1>5. row'.completed = row.completed
  <2>1. CASE row' = row
    BY <2>1
  <2>2. CASE row' = [row EXCEPT !.status = "timed_out", !.code = "task_runtime_exceeded"]
    BY <1>1, <2>2, RowFields
  <2> QED BY <1>3, <2>1, <2>2 DEF MovedRow
<1>6. PICK f : /\ Goto(r, f)
               /\ f = [e EXCEPT !.pc = "settle"] \/ (f = Lost(e, "settle") /\ ~Owns(r))
  BY DEF TimeoutTask
<1>7. /\ DOMAIN f = DOMAIN Idle /\ f.pc = "settle" /\ (~lapsed => ~f.lost)
      /\ f.err = "failed" => Terminal(row'.status)
      /\ f.pending => e.pending
  <2>1. e.err = "failed" => Terminal(row'.status)
    BY <1>1, <1>4 DEF Progress, Written, Grows
  <2>2. CASE f = [e EXCEPT !.pc = "settle"]
    BY <1>1, <2>1, <2>2, EndFields DEF Alone
  <2>3. CASE f = Lost(e, "settle") /\ ~Owns(r)
    BY <1>1, <1>2, <2>3, EndFields
  <2> QED BY <1>6, <2>2, <2>3
<1>8. ExecOK(f) /\ Progress(f, job, row', site') /\ (~lapsed => Alone(f, job, row', site', api))
  <2>1. f.pc \in {"fail", "idle"} \cup EndCalls
    BY <1>7 DEF EndCalls
  <2>2. ~lapsed => (api = "idle" /\ f.pending => ~row'.completed)
    BY <1>1, <1>5, <1>7 DEF Alone
  <2> QED BY <1>7, <2>1, <2>2, Leaving
<1> QED BY <1>1, <1>4, <1>6, <1>8, WrittenMove\* The other steps after drive, and those that end an owner.

\* The rest of Execute: cleanup and settling.
LEMMA EndStep ==
  ASSUME PublishInv, NEW r \in Runners,
         \/ CleanupDeferred(r) \/ EndDrive(r) \/ SettleRead(r) \/ CleanupTerminal(r)
         \/ EndFails(r)
  PROVE  PublishInv'
<1> DEFINE e == exec[r]
<1>1. /\ TreeOK(tree) /\ e.pc \in EndCalls /\ DOMAIN e = DOMAIN Idle
      /\ Progress(e, job, row, site) /\ (~lapsed => ~e.lost)
      /\ UNCHANGED <<job, row, lease, site, api, lapsed>>
  <2>1. e.pc \in EndCalls /\ UNCHANGED <<job, row, lease, site, api, lapsed>>
    BY DEF CleanupDeferred, EndDrive, SettleRead, CleanupTerminal, EndFails, EndCalls
  <2>2. e.pc # "idle"
    BY <2>1 DEF EndCalls
  <2> QED BY <2>1, <2>2, Standing, Fields DEF ExecOK, Alone
<1>2. e.pc # "idle" /\ (~lapsed => Owns(r)) /\ (e.err = "failed" => Terminal(row.status))
  BY <1>1, StillOwns DEF EndCalls, Progress
<1>3. TreeOK(tree')
  BY <1>1, NoTreeOK DEF CleanupDeferred, EndDrive, SettleRead, CleanupTerminal, EndFails
<1>4. ASSUME NEW pc \in EndCalls, pc = "settle_fence" => ~row.completed,
             \/ Goto(r, [e EXCEPT !.pc = pc]) \/ Goto(r, [e EXCEPT !.pc = pc, !.ws = FALSE])
      PROVE  PublishInv'
  <2>1. PICK f \in {[e EXCEPT !.pc = pc], [e EXCEPT !.pc = pc, !.ws = FALSE]} : Goto(r, f)
    BY <1>4
  <2>2. /\ DOMAIN f = DOMAIN Idle /\ f.pc = pc /\ f.err = e.err /\ f.lost = e.lost
        /\ f.pending = e.pending
    <3>1. CASE f = [e EXCEPT !.pc = pc]
      BY <1>1, <3>1, EndFields
    <3>2. CASE f = [e EXCEPT !.pc = pc, !.ws = FALSE]
      BY <1>1, <3>2, EndFields
    <3> QED BY <2>1, <3>1, <3>2
  <2> QED BY <1>1, <1>2, <1>3, <1>4, <2>1, <2>2, EndMove
<1>5. CASE Goto(r, Idle)
  BY <1>1, <1>2, <1>3, <1>5, IdleMove
<1>6. CASE CleanupDeferred(r)
  <2> DEFINE d == [e EXCEPT !.pc = "end", !.ws = FALSE]
  <2>1. Goto(r, d) \/ (~Owns(r) /\ Goto(r, Lost(d, "end")))
    BY <1>6 DEF CleanupDeferred
  <2>2. CASE ~Owns(r) /\ Goto(r, Lost(d, "end"))
    <3> DEFINE f == Lost(d, "end")
    <3>1. DOMAIN d = DOMAIN Idle
      BY <1>1, EndFields
    <3> HIDE DEF d
    <3>2. DOMAIN f = DOMAIN Idle /\ f.pc = "end" /\ f.err = "lost"
      BY <3>1, EndFields
    <3>3. Goto(r, f) /\ lapsed
      BY <1>2, <2>2
    <3> HIDE DEF f
    <3> QED BY <1>1, <1>2, <1>3, <3>2, <3>3, EndMove DEF EndCalls
  <2> QED BY <1>4, <2>1, <2>2 DEF EndCalls
<1>7. CASE EndDrive(r)
  BY <1>4, <1>7 DEF EndDrive, EndCalls
<1>8. CASE SettleRead(r)
  BY <1>4, <1>5, <1>8 DEF SettleRead, EndCalls, Pending
<1>9. CASE CleanupTerminal(r)
  BY <1>4, <1>5, <1>9 DEF CleanupTerminal, EndCalls
<1>10. CASE EndFails(r)
  <2>1. \E pc \in EndCalls \ {"settle_fence"} : Goto(r, [e EXCEPT !.pc = pc, !.ws = FALSE])
    BY <1>10 DEF EndFails, EndCalls
  <2> QED BY <1>4, <2>1
<1> QED BY <1>6, <1>7, <1>8, <1>9, <1>10

\* settleTriggerCheckRun goes on to complete the check run.
LEMMA SettleFenceStep ==
  ASSUME PublishInv, NEW r \in Runners, SettleFence(r)
  PROVE  PublishInv'
<1> DEFINE e == exec[r]
           concl == terminalCheckConclusion(row.status)
           f == [e EXCEPT !.pc = "trigger", !.concl = concl, !.pending = TRUE]
<1>1. /\ ExecOK(e) /\ Progress(e, job, row, site) /\ TreeOK(tree) /\ DOMAIN e = DOMAIN Idle
      /\ ~lapsed => Alone(e, job, row, site, api)
      /\ e.pc = "settle_fence"
      /\ UNCHANGED <<job, row, lease, tree, site, api, lapsed>>
  BY Standing, Fields DEF SettleFence, ExecOK
<1>2. concl \in {"none", "failure", "cancelled", "timed_out"}
  BY DEF terminalCheckConclusion
<1> HIDE DEF concl
<1>3. CASE concl # "none" /\ Goto(r, f)
  <2>1. /\ f.pc = "trigger" /\ f.concl = concl /\ f.lost = e.lost /\ f.err = e.err
        /\ DOMAIN f = DOMAIN Idle
    BY <1>1 DEF ExecOK
  <2> HIDE DEF f
  <2>2. ExecOK(f)
    BY <1>2, <1>3, <2>1, Fields DEF ExecOK, GitHubCalls, StoreCalls, EndCalls
  <2>3. Progress(f, job, row, site)
    BY <1>1, <1>2, <1>3, <2>1 DEF Progress
  <2>4. ~lapsed => Alone(f, job, row, site, api)
    BY <1>1, <1>2, <1>3, <2>1 DEF Alone, Ended, PublishConclusions
  <2> QED BY <1>1, <1>3, <2>2, <2>3, <2>4, QuietMove
<1>4. CASE Goto(r, [e EXCEPT !.pc = "clean"])
  <2> DEFINE g == [e EXCEPT !.pc = "clean"]
  <2>1. /\ DOMAIN g = DOMAIN Idle /\ g.pc = "clean" /\ g.err = e.err /\ g.lost = e.lost
        /\ g.pending = e.pending
    BY <1>1, EndFields
  <2> HIDE DEF g
  <2>2. (e.err = "failed" => Terminal(row.status)) /\ (~lapsed => ~e.lost)
    BY <1>1 DEF Progress, Alone
  <2>3. Goto(r, g) /\ g.pc \in {"idle"} \cup EndCalls /\ e.pc # "idle"
    BY <1>1, <1>4, <2>1 DEF g, EndCalls
  <2> QED BY <1>1, <2>1, <2>2, <2>3, EndMove
<1>5. CASE Goto(r, Idle)
  BY <1>1, <1>5, IdleMove
<1> QED BY <1>3, <1>4, <1>5 DEF SettleFence, concl

\* An owner releases the attempt, dies, or gives up because its context is done.
LEMMA LeaveStep ==
  ASSUME PublishInv, NEW r \in Runners, Release(r) \/ Crash(r) \/ Abandon(r)
  PROVE  PublishInv'
<1>1. /\ UNCHANGED <<job, row, site, api, tree, lapsed>> /\ TreeOK(tree)
      /\ exec[r].pc # "idle"
  BY Standing DEF Release, Crash, Abandon, ContextCalls, GitHubCalls, StoreCalls
<1>2. CASE Release(r) \/ Crash(r)
  BY <1>1, <1>2, IdleMove DEF Release, Crash
<1>3. CASE Abandon(r)
  <2>1. Goto(r, Errored(exec[r])) /\ lease' = lease
    BY <1>3 DEF Abandon
  <2>2. /\ ExecOK(Errored(exec[r])) /\ Progress(Errored(exec[r]), job, row, site)
        /\ ~lapsed => Alone(Errored(exec[r]), job, row, site, api)
    BY <1>1, ErroredOK
  <2> QED BY <1>1, <2>1, <2>2, QuietMove
<1> QED BY <1>2, <1>3

-----------------------------------------------------------------------------
(* What disturbs an owner, and the others.                                 *)

\* The context ends, or the heartbeat finds the lease gone.
LEMMA ContextStep ==
  ASSUME PublishInv, NEW r \in Runners,
         WatchCancels(r) \/ HeartbeatLost(r) \/ DeadlineFires(r) \/ Interrupted(r)
  PROVE  PublishInv'
<1> DEFINE e == exec[r]
<1>1. /\ ExecOK(e) /\ Progress(e, job, row, site) /\ TreeOK(tree)
      /\ UNCHANGED <<job, row, lease, site, api, tree, lapsed>>
      /\ e.pc # "idle"
      /\ ~lapsed => Alone(e, job, row, site, api)
  <2>1. UNCHANGED <<job, row, lease, site, api, tree, lapsed>> /\ e.pc # "idle"
    BY DEF WatchCancels, HeartbeatLost, DeadlineFires, Interrupted, Driving, ContextCalls,
       GitHubCalls, StoreCalls
  <2> QED BY <2>1, Standing
<1>2. PICK ctx, lost : /\ Goto(r, [e EXCEPT !.lost = lost, !.ctx = ctx])
                       /\ lost = e.lost \/ ~Holds(r)
  <2>1. CASE HeartbeatLost(r)
    BY <2>1 DEF HeartbeatLost
  <2>2. CASE ~HeartbeatLost(r)
    <3>1. PICK ctx : Goto(r, [e EXCEPT !.ctx = ctx])
      BY <2>2 DEF WatchCancels, DeadlineFires, Interrupted
    <3>2. [e EXCEPT !.lost = e.lost, !.ctx = ctx] = [e EXCEPT !.ctx = ctx]
      BY <1>1 DEF ExecOK
    <3> QED BY <3>1, <3>2
  <2> QED BY <2>1, <2>2
<1> DEFINE f == [e EXCEPT !.lost = lost, !.ctx = ctx]
<1>3. /\ DOMAIN f = DOMAIN e /\ f.pc = e.pc /\ f.ws = e.ws /\ f.sha = e.sha
      /\ f.pending = e.pending /\ f.found = e.found /\ f.concl = e.concl /\ f.code = e.code
      /\ f.err = e.err /\ f.lost = lost
  BY <1>1 DEF ExecOK
<1>4. ~lapsed => lost = e.lost
  BY <1>1, <1>2, StillOwns
<1> HIDE DEF f
<1>5. ExecOK(f)
  BY <1>1, <1>3 DEF ExecOK
<1>6. KindOf(f, job) = KindOf(e, job)
  BY <1>3 DEF KindOf
<1>7. Progress(f, job, row, site)
  BY <1>1, <1>3, <1>6 DEF Progress
<1>8. ~lapsed => Alone(f, job, row, site, api)
  BY <1>1, <1>3, <1>4, <1>6 DEF Alone, Ended
<1>9. Goto(r, f)
  BY <1>2 DEF f
<1> QED BY <1>1, <1>5, <1>7, <1>8, <1>9, QuietMove

\* A call fails, and may have been carried out.
LEMMA CallFailsStep ==
  ASSUME PublishInv, NEW r \in Runners, PublishFailure(r) \/ StoreFails(r)
  PROVE  PublishInv'
<1> DEFINE e == exec[r]
<1>1. CASE PublishFailure(r)
  <2>1. /\ e.pc \in GitHubCalls /\ UNCHANGED <<job, row, lease, tree, api, lapsed>>
        /\ site' \in {site, SiteAfter(e)} /\ Goto(r, Failing(e, "publish_failed"))
    BY <1>1 DEF PublishFailure, At
  <2>2. e.pc # "idle" /\ ~Ended(e)
    BY <2>1 DEF Ended, EndCalls, GitHubCalls
  <2>3. Written(job, row, site, row', site', lapsed)
    <3>1. CASE site' = site
      BY <2>1, <3>1, NothingWritten
    <3>2. CASE site' # site
      <4>1. (e.pc = "push" => Pushable) /\ (e.pc = "body" => Openable(e))
        BY <2>1, <3>2 DEF SiteAfter
      <4> QED BY <2>1, <3>2, <4>1, SiteWritten
    <3> QED BY <3>1, <3>2
  <2>4. /\ ExecOK(Failing(e, "publish_failed"))
        /\ Progress(Failing(e, "publish_failed"), job, row, site')
        /\ ~lapsed => Alone(Failing(e, "publish_failed"), job, row, site', api)
    BY <2>2, FailingOK
  <2>5. row' = row
    BY <2>1
  <2> QED BY <2>1, <2>2, <2>3, <2>4, <2>5, WrittenMove
<1>2. CASE StoreFails(r)
  <2>1. /\ UNCHANGED <<job, lease, tree, site, api, lapsed>> /\ row' \in {row, RowAfter(r)}
        /\ e.pc # "idle"
        /\ \/ Goto(r, Errored(e))
           \/ Goto(r, [Outlives(e) EXCEPT !.pc = "clean"])
    BY <1>2 DEF StoreFails, At, StoreCalls, AfterAppend
  <2>2. Written(job, row, site, row', site', lapsed)
    BY <2>1, NothingWritten, RowWritten
  <2>3. CASE Goto(r, Errored(e))
    <3>1. /\ ExecOK(Errored(e)) /\ Progress(Errored(e), job, row', site')
          /\ ~lapsed => Alone(Errored(e), job, row', site', api)
      BY <2>1, ErroredOK
    <3> QED BY <2>1, <2>2, <2>3, <3>1, WrittenMove
  <2>4. CASE Goto(r, [Outlives(e) EXCEPT !.pc = "clean"])
    <3> DEFINE f == [Outlives(e) EXCEPT !.pc = "clean"]
    <3>1. DOMAIN e = DOMAIN Idle /\ Progress(e, job, row, site) /\ (~lapsed => ~e.lost)
      BY <2>1, Standing, Fields DEF ExecOK, Alone
    <3>2. DOMAIN f = DOMAIN Idle /\ f.pc = "clean" /\ f.err = e.err /\ f.lost = e.lost /\ ~f.pending
      BY <3>1, EndFields
    <3>3. e.err = "failed" => Terminal(row'.status)
      BY <2>2, <3>1 DEF Progress, Written, Grows
    <3>4. Goto(r, f)
      BY <2>4
    <3> HIDE DEF f
    <3>5. f.pc \in {"fail", "idle"} \cup EndCalls
      BY <3>2 DEF EndCalls
    <3>6. ExecOK(f) /\ Progress(f, job, row', site') /\ (~lapsed => Alone(f, job, row', site', api))
      BY <3>1, <3>2, <3>3, <3>5, Leaving
    <3> QED BY <2>1, <2>2, <3>4, <3>6, WrittenMove
  <2> QED BY <2>1, <2>3, <2>4
<1> QED BY <1>1, <1>2\* A step that no owner makes.

\* A step of somebody else: the owners stay where they are.
LEMMA OutsideMove ==
  ASSUME PublishInv, UNCHANGED <<job, tree, exec>>,
         Written(job, row, site, row', site', lapsed), lapsed' = lapsed,
         \A r \in Runners : ~lapsed /\ exec[r].pc # "idle" =>
           /\ lease' = lease
           /\ Alone(exec[r], job, row, site, api) => Alone(exec[r], job, row', site', api')
  PROVE  PublishInv'
<1>1. ASSUME NEW r \in Runners
      PROVE  OwnerOK(r, exec[r], lease', job, row', site', api', lapsed)
  <2>1. Progress(exec[r], job, row', site')
    BY Standing, ProgressStays DEF Written
  <2> QED BY <2>1, Standing DEF OwnerOK
<1>2. job' = job /\ tree' = tree /\ exec' = exec /\ lapsed' = lapsed
  OBVIOUS
<1> QED BY <1>1, <1>2 DEF PublishInv, Written

\* A lease that expires, and one that lapses under its owner: after the second,
\* owners need not follow one another.
LEMMA LeaseStep ==
  ASSUME PublishInv, ExpireLease \/ LeaseLapses
  PROVE  PublishInv'
<1>1. UNCHANGED <<job, row, tree, site, exec, api>>
  BY DEF ExpireLease, LeaseLapses
<1>2. CASE ExpireLease
  <2>1. lapsed' = lapsed /\ (~lapsed => \A r \in Runners : exec[r].pc = "idle")
    <3>1. ASSUME ~lapsed, NEW r \in Runners, exec[r].pc # "idle" PROVE FALSE
      <4>1. lease = [owner |-> r, live |-> TRUE]
        BY <3>1, Standing
      <4>2. lease.owner = r
        BY <4>1
      <4> QED BY <1>2, <3>1, <4>2 DEF ExpireLease, Attended
    <3> QED BY <1>2, <3>1 DEF ExpireLease
  <2> QED BY <1>1, <2>1, NothingWritten, OutsideMove
<1>3. CASE LeaseLapses
  <2>1. lapsed' = TRUE
    BY <1>3 DEF LeaseLapses
  <2>2. \A r \in Runners : OwnerOK(r, exec[r], lease', job, row, site, api, lapsed')
    BY <2>1, Standing DEF OwnerOK
  <2>3. job' = job /\ row' = row /\ tree' = tree /\ site' = site /\ exec' = exec /\ api' = api
    BY <1>1
  <2> QED BY <2>1, <2>2, <2>3 DEF PublishInv
<1> QED BY <1>2, <1>3

\* A foreign push, on top of what is there.
LEMMA OthersPushStep ==
  ASSUME PublishInv, OthersPush
  PROVE  PublishInv'
<1>1. /\ UNCHANGED <<job, row, tree, exec, lease, api, lapsed>> /\ SiteOK(site) /\ RowOK(row)
      /\ site' = [site EXCEPT !.branch = "other"]
  BY DEF OthersPush, PublishInv
<1>2. /\ DOMAIN site' = DOMAIN site /\ site'.branch = "other" /\ site'.pushed = site.pushed
      /\ site'.body = site.body /\ site'.checks = site.checks /\ site'.posted = site.posted
  BY <1>1 DEF SiteOK
<1>3. SharedOK(job, row, site) /\ (~lapsed => SerialOK(row, site))
  BY DEF PublishInv
<1>4. Written(job, row, site, row', site', lapsed)
  BY <1>1, <1>2, <1>3 DEF Written, SiteOK, Grows, SharedOK, Told, SerialOK, Commits
<1>5. \A r \in Runners : Alone(exec[r], job, row, site, api) => Alone(exec[r], job, row', site', api')
  BY <1>1, <1>2 DEF Alone
<1> QED BY <1>1, <1>4, <1>5, OutsideMove

\* The handlers that write the row, or complete the trigger check run.
LEMMA ApiStep ==
  ASSUME PublishInv, RecordTriggerCheckRun \/ ApiCancel \/ Observer
  PROVE  PublishInv'
<1>1. /\ UNCHANGED <<job, tree, exec, lease, lapsed>> /\ SiteOK(site) /\ RowOK(row)
      /\ SharedOK(job, row, site) /\ (~lapsed => SerialOK(row, site))
  BY DEF RecordTriggerCheckRun, ApiCancel, Observer, ApiRead, ApiUpdate, ApiMark, ApiFails, PublishInv
<1>2. ASSUME row' = row, site' \in {site, [site EXCEPT !.trigger = "cancelled"]},
             api' # "idle" \/ api' = api
      PROVE  PublishInv'
  <2>1. /\ DOMAIN site' = DOMAIN site /\ site'.branch = site.branch /\ site'.pushed = site.pushed
        /\ site'.body = site.body /\ site'.checks = site.checks /\ site'.posted = site.posted
    BY <1>1, <1>2 DEF SiteOK
  <2>2. Written(job, row, site, row', site', lapsed)
    BY <1>1, <1>2, <2>1 DEF Written, SiteOK, Grows, SharedOK, Told, SerialOK
  <2>3. \A r \in Runners : Alone(exec[r], job, row, site, api) => Alone(exec[r], job, row', site', api')
    BY <1>1, <1>2, <2>1 DEF Alone
  <2> QED BY <1>1, <2>2, <2>3, OutsideMove
<1>3. ASSUME site' = site,
             \/ row' = [row EXCEPT !.trigger = TRUE] /\ api' = api
             \/ row' = [row EXCEPT !.completed = TRUE] /\ api' # "idle"
             \/ row' = [row EXCEPT !.status = "cancelled"] /\ api' # "idle" /\ Active
      PROVE  PublishInv'
  <2>1. /\ DOMAIN row' = DOMAIN row /\ row'.final = row.final /\ row'.pr = row.pr
        /\ row'.code = row.code /\ row'.comments = row.comments
        /\ row'.completed = row.completed \/ api' # "idle"
        /\ row'.status = row.status \/ (row'.status = "cancelled" /\ ~Terminal(row.status))
    BY <1>1, <1>3 DEF RowOK, Active
  <2>2. Terminal("cancelled") /\ Terminal("failed")
    BY DEF Terminal, PhaseTerminal
  <2>3. RowOK(row')
    BY <1>1, <2>1, <2>2 DEF RowOK, PhaseTerminal
  <2>4. Written(job, row, site, row', site', lapsed)
    BY <1>1, <1>3, <2>1, <2>2, <2>3 DEF Written, SiteOK, Grows, SharedOK, SerialOK
  <2>5. api' = api \/ api' # "idle"
    BY <1>3
  <2>6. \A r \in Runners : Alone(exec[r], job, row, site, api) => Alone(exec[r], job, row', site', api')
    BY <1>1, <1>3, <2>1, <2>2, <2>5 DEF Alone
  <2> QED BY <1>1, <2>4, <2>6, OutsideMove
<1>4. CASE RecordTriggerCheckRun \/ ApiCancel \/ ApiMark
  BY <1>3, <1>4 DEF RecordTriggerCheckRun, ApiCancel, ApiMark
<1>5. CASE ApiRead \/ ApiUpdate \/ ApiFails
  BY <1>2, <1>5 DEF ApiRead, ApiUpdate, ApiFails
<1> QED BY <1>4, <1>5 DEF Observer

-----------------------------------------------------------------------------
(* The theorems.                                                           *)

\* The owner has just moved the task to publishing.
LEMMA InitPublish == Init => PublishInv
<1> SUFFICES ASSUME Init PROVE PublishInv
  OBVIOUS
<1>1. PICK number \in {1, 2}, issue \in BOOLEAN, shared \in BOOLEAN,
           holds \in {"changes", "no_changes"}, recorded \in BOOLEAN :
        /\ number > 1 => issue
        /\ job = [number |-> number, issue |-> issue, shared |-> shared]
        /\ row = [status |-> "publishing", final |-> "none", pr |-> FALSE, code |-> "none",
                  trigger |-> recorded, completed |-> FALSE, comments |-> {}]
        /\ lease = [owner |-> FirstOwner, live |-> TRUE]
        /\ tree = [host |-> FirstOwner, holds |-> holds]
        /\ site = [branch |-> IF number = 1 THEN "none" ELSE "base",
                   pushed |-> FALSE,
                   body |-> IF number = 1 THEN "none" ELSE "base",
                   checks |-> [c \in Commits |-> 0],
                   trigger |-> "queued",
                   posted |-> [k \in Kinds |-> 0]]
        /\ exec = [r \in Runners |-> IF r = FirstOwner
                                     THEN [Idle EXCEPT !.pc = "read", !.ws = TRUE] ELSE Idle]
        /\ api = "idle"
        /\ trouble = 0 /\ lapsed = FALSE
  BY Zenon DEF Init
<1>2. RowOK(row) /\ SiteOK(site) /\ TreeOK(tree) /\ job.number \in {1, 2}
  BY <1>1 DEF RowOK, SiteOK, TreeOK, Commits
<1>3. SharedOK(job, row, site) /\ SerialOK(row, site)
  BY <1>1 DEF SharedOK, SerialOK
<1> DEFINE f == [Idle EXCEPT !.pc = "read", !.ws = TRUE]
<1>4. /\ DOMAIN f = DOMAIN Idle /\ f.pc = "read" /\ f.concl = "none" /\ f.err = "none"
      /\ ~f.lost /\ ~f.pending /\ ~f.found
  BY DEF Idle
<1>5. /\ DOMAIN Idle = DOMAIN Idle /\ Idle.pc = "idle" /\ Idle.concl = "none" /\ Idle.err = "none"
  BY DEF Idle
<1>6. \A r \in Runners : exec[r] = IF r = FirstOwner THEN f ELSE Idle
  BY <1>1
<1> HIDE DEF f
<1>7. ExecOK(f) /\ Progress(f, job, row, site)
  BY <1>4, Fields DEF ExecOK, Progress, GitHubCalls, StoreCalls, EndCalls, FromPush, FromFind,
     FromNumber, FromList, FromTrigger, FromReview
<1>8. Alone(f, job, row, site, api)
  BY <1>1, <1>4 DEF Alone, FromTrigger, FromReview
<1>9. ExecOK(Idle) /\ Progress(Idle, job, row, site)
  BY <1>5, Fields DEF ExecOK, Progress, GitHubCalls, StoreCalls, EndCalls
<1>10. \A r \in Runners : OwnerOK(r, exec[r], lease, job, row, site, api, lapsed)
  BY <1>1, <1>5, <1>6, <1>7, <1>8, <1>9 DEF OwnerOK
<1>11. exec = [r \in Runners |-> exec[r]]
  BY <1>1
<1> QED BY <1>1, <1>2, <1>3, <1>10, <1>11 DEF PublishInv

\* Every step keeps the invariant.
LEMMA NextPublish == PublishInv /\ [Next]_vars => PublishInv'
<1> SUFFICES ASSUME PublishInv, [Next]_vars PROVE PublishInv'
  OBVIOUS
<1>1. ASSUME NEW r \in Runners, Run(r) PROVE PublishInv'
  BY <1>1, ClaimStep, ReadStep, LookStep, RecordStep, PutStep, AnnounceStep, TriggerStep,
     RecordCommentStep, CleanupPublishedStep, DecideStep, EndStep, TimeoutStep,
     SettleFenceStep, LeaveStep DEF Run
<1>2. ASSUME NEW r \in Runners, Disturb(r) PROVE PublishInv'
  BY <1>2, CallFailsStep, TriggerStep, EndStep, ContextStep, LeaveStep DEF Disturb
<1>3. CASE Observer \/ RecordTriggerCheckRun \/ ApiCancel
  BY <1>3, ApiStep
<1>4. CASE ExpireLease \/ LeaseLapses
  BY <1>4, LeaseStep
<1>5. CASE OthersPush
  BY <1>5, OthersPushStep
<1>6. CASE UNCHANGED vars
  BY <1>6 DEF vars, PublishInv
<1> QED BY <1>1, <1>2, <1>3, <1>4, <1>5, <1>6 DEF Next

\* runner/publish.go and executor.go: in every reachable state what an owner has
\* behind it is on the row and on GitHub, and what it has read still holds as long
\* as the owners follow one another.
THEOREM PublishInvariant == Spec => []PublishInv
BY InitPublish, NextPublish, PTL DEF Spec

\* runner/publish.go, publishToGitHub: however many owners it took, a task reaches
\* review only with its pull request, the check run on the commit that names, and
\* the one who asked told about it.
THEOREM ReviewIsComplete == Spec => []ReviewComplete
<1>1. PublishInv => ReviewComplete
  <2> SUFFICES ASSUME PublishInv, row.status = "awaiting_review" PROVE ReviewComplete
    BY DEF ReviewComplete
  <2>1. row.pr /\ row.final # "none" /\ site.body # "none" /\ Told(job, site)
    BY DEF PublishInv, SharedOK
  <2>2. ~lapsed => site.checks[site.body] > 0
    BY DEF PublishInv, SerialOK
  <2> QED BY <2>1, <2>2 DEF ReviewComplete, Told
<1> QED BY <1>1, PublishInvariant, PTL

\* runner/publish.go, upsertCheckRun: owners that follow one another leave one
\* check run on a commit.
THEOREM CheckRunIsSingle == Spec => []OneCheckRun
<1>1. PublishInv => OneCheckRun
  BY DEF PublishInv, SerialOK, OneCheckRun
<1> QED BY <1>1, PublishInvariant, PTL

\* runner/publish.go, publishRecovered: workspace_lost is never said of work that
\* was pushed.
THEOREM LostIsUnpushed == Spec => []LostMeansUnpushed
<1>1. PublishInv => LostMeansUnpushed
  BY DEF PublishInv, SerialOK, LostMeansUnpushed
<1> QED BY <1>1, PublishInvariant, PTL

\* Who touches the worktree.
LEMMA TreeSteps ==
  ASSUME [Next]_vars
  PROVE  \/ tree' = tree \/ tree' = [tree EXCEPT !.holds = "commit"]
         \/ \E r \in Runners : CleanupPublished(r) \/ CleanupDeferred(r) \/ CleanupTerminal(r)
<1>1. ASSUME NEW r \in Runners, Run(r),
             ~Commit(r), ~CleanupPublished(r), ~CleanupDeferred(r), ~CleanupTerminal(r)
      PROVE  tree' = tree
  BY <1>1 DEF Run, Claim, publishRecovered, ResolveBranch, ReadAttempt, RecordFinalCommit, Push,
     FindPullRequest, PutPullRequest, RecordPullRequest, ListCheckRuns, PutCheckRun,
     CompleteTriggerCheckRun, MarkTriggerCheckRunCompleted, CommentPosted, PostComment,
     RecordComment, Review, FailTask, EndDrive, TimeoutTask, SettleRead, SettleFence,
     Release, Abandon
<1>2. ASSUME NEW r \in Runners, Disturb(r) PROVE tree' = tree
  BY <1>2 DEF Disturb, PublishFailure, TriggerUnreachable, StoreFails, EndFails, WatchCancels,
     HeartbeatLost, DeadlineFires, Interrupted, Crash
<1>3. CASE Observer \/ ExpireLease \/ LeaseLapses \/ OthersPush \/ RecordTriggerCheckRun
           \/ ApiCancel \/ UNCHANGED vars
  BY <1>3 DEF Observer, ApiRead, ApiUpdate, ApiMark, ApiFails, ExpireLease, LeaseLapses,
     OthersPush, RecordTriggerCheckRun, ApiCancel, vars
<1>4. ASSUME NEW r \in Runners, Commit(r)
      PROVE  tree' = tree \/ tree' = [tree EXCEPT !.holds = "commit"]
  BY <1>4 DEF Commit
<1> QED BY <1>1, <1>2, <1>3, <1>4 DEF Next

\* What reaches GitHub: a call of an owner, a foreign push, the API's completion.
LEMMA SiteSteps ==
  ASSUME [Next]_vars
  PROVE  /\ api' = api \/ api' # "idle"
         /\ \/ site' = site
            \/ \E r \in Runners : site' = SiteAfter(exec[r])
            \/ site' = [site EXCEPT !.branch = "other"]
            \/ site' = [site EXCEPT !.trigger = "cancelled"] /\ api' # "idle"
<1>1. ASSUME NEW r \in Runners, Run(r)
      PROVE  (site' = site \/ site' = SiteAfter(exec[r])) /\ api' = api
  <2>1. CASE Push(r) \/ PutPullRequest(r) \/ PutCheckRun(r) \/ CompleteTriggerCheckRun(r)
             \/ PostComment(r)
    BY <2>1 DEF Push, PutPullRequest, PutCheckRun, CompleteTriggerCheckRun, PostComment,
       SiteAfter, At
  <2>2. CASE ~(Push(r) \/ PutPullRequest(r) \/ PutCheckRun(r) \/ CompleteTriggerCheckRun(r)
               \/ PostComment(r))
    BY <1>1, <2>2 DEF Run, Claim, publishRecovered, ResolveBranch, ReadAttempt, Commit,
       RecordFinalCommit, FindPullRequest, RecordPullRequest, ListCheckRuns,
       MarkTriggerCheckRunCompleted, CommentPosted, RecordComment, CleanupPublished, Review,
       FailTask, CleanupDeferred, EndDrive, TimeoutTask, SettleRead, SettleFence,
       CleanupTerminal, Release, Abandon
  <2> QED BY <2>1, <2>2
<1>2. ASSUME NEW r \in Runners, Disturb(r)
      PROVE  (site' = site \/ site' = SiteAfter(exec[r])) /\ api' = api
  BY <1>2 DEF Disturb, PublishFailure, TriggerUnreachable, StoreFails, EndFails, WatchCancels,
     HeartbeatLost, DeadlineFires, Interrupted, Crash
<1>3. CASE Observer \/ ExpireLease \/ LeaseLapses \/ OthersPush \/ RecordTriggerCheckRun
           \/ ApiCancel \/ UNCHANGED vars
  BY <1>3 DEF Observer, ApiRead, ApiUpdate, ApiMark, ApiFails, ExpireLease, LeaseLapses,
     OthersPush, RecordTriggerCheckRun, ApiCancel, vars
<1> QED BY <1>1, <1>2, <1>3 DEF Next

\* runner/executor.go, cleanupGitWorkspace ("committed work already pushed"): a
\* worktree with work in it is removed only once that work is on the branch, or the
\* task has ended.
THEOREM WorkIsKept == Spec => WorkKept
<1>1. ASSUME PublishInv, [Next]_vars,
             tree.holds \in {"changes", "commit"}, tree'.holds = "nothing"
      PROVE  site.pushed \/ Terminal(row.status)
  <2>1. DOMAIN tree = {"host", "holds"}
    BY <1>1 DEF PublishInv, TreeOK
  <2>2. tree' # tree /\ tree' # [tree EXCEPT !.holds = "commit"]
    BY <1>1, <2>1
  <2>3. PICK r \in Runners : CleanupPublished(r) \/ CleanupDeferred(r) \/ CleanupTerminal(r)
    BY <1>1, <2>2, TreeSteps
  <2>4. ExecOK(exec[r]) /\ Progress(exec[r], job, row, site)
    BY <1>1, Standing
  <2>5. CASE CleanupPublished(r)
    BY <2>2, <2>4, <2>5 DEF CleanupPublished, ExecOK, Progress, FromFind, FromNumber, FromList,
       FromTrigger, FromReview
  <2>6. CASE CleanupDeferred(r)
    BY <2>2, <2>4, <2>6 DEF CleanupDeferred, KeepsWorktree, Active, Progress
  <2>7. CASE CleanupTerminal(r)
    BY <2>2, <2>7 DEF CleanupTerminal
  <2> QED BY <2>3, <2>5, <2>6, <2>7
<1>2. ASSUME PublishInv, [Next]_vars
      PROVE  [tree.holds \in {"changes", "commit"} /\ tree'.holds = "nothing" =>
                site.pushed \/ Terminal(row.status)]_vars
  BY <1>1, <1>2
<1> QED BY <1>2, PublishInvariant, PTL DEF Spec, WorkKept

\* runner/publish.go, postRevisionSummary: while owners follow one another, none
\* posts a revision's summary that the timeline records.
THEOREM SummaryIsNotRepeated == Spec => SummaryNotRepeated
<1>1. ASSUME PublishInv, [Next]_vars, ~lapsed,
             site'.posted["revision_summary"] # site.posted["revision_summary"]
      PROVE  "revision_summary" \notin row.comments
  <2>1. SiteOK(site)
    BY <1>1 DEF PublishInv
  <2>2. PICK r \in Runners : site' = SiteAfter(exec[r])
    BY <1>1, <2>1, SiteSteps DEF SiteOK
  <2>3. exec[r].pc = "comment"
    BY <1>1, <2>1, <2>2 DEF SiteAfter, PushedSite, BodySite, CheckSite, TriggerSite, SiteOK
  <2>4. site' = [site EXCEPT !.posted[Kind(exec[r])] = @ + 1] /\ Kind(exec[r]) = KindOf(exec[r], job)
    BY <2>2, <2>3 DEF SiteAfter, CommentSite, Kind, KindOf
  <2>5. KindOf(exec[r], job) = "revision_summary"
    BY <1>1, <2>1, <2>4 DEF SiteOK
  <2> QED BY <1>1, <2>3, <2>5, Standing DEF Alone
<1>2. ASSUME PublishInv, [Next]_vars
      PROVE  [site'.posted["revision_summary"] # site.posted["revision_summary"] =>
                lapsed \/ "revision_summary" \notin row.comments]_vars
  BY <1>1, <1>2
<1> QED BY <1>2, PublishInvariant, PTL DEF Spec, SummaryNotRepeated

\* runner/publish.go, completeTriggerCheckRun: as long as the API does not interfere,
\* owners that follow one another complete a trigger check run once.
THEOREM OwnersCompleteItOnce == Spec => OwnersCompleteOnce
<1>1. ASSUME PublishInv, [Next]_vars, ~lapsed, api' = "idle", row.completed
      PROVE  site'.trigger = site.trigger
  <2>1. SiteOK(site) /\ api = "idle"
    BY <1>1, SiteSteps DEF PublishInv
  <2>2. ASSUME NEW r \in Runners, site' = SiteAfter(exec[r])
        PROVE  site'.trigger = site.trigger
    <3>1. CASE exec[r].pc = "trigger" /\ exec[r].pending
      BY <1>1, <2>1, <3>1, Standing DEF Alone
    <3>2. CASE ~(exec[r].pc = "trigger" /\ exec[r].pending)
      BY <2>1, <2>2, <3>2 DEF SiteAfter, PushedSite, BodySite, CheckSite, CommentSite, SiteOK
    <3> QED BY <3>1, <3>2
  <2> QED BY <1>1, <2>1, <2>2, SiteSteps DEF SiteOK
<1>2. ASSUME PublishInv, [Next]_vars
      PROVE  [~lapsed /\ api' = "idle" /\ row.completed => site'.trigger = site.trigger]_vars
  BY <1>1, <1>2
<1> QED BY <1>2, PublishInvariant, PTL DEF Spec, OwnersCompleteOnce
===============================================================================
