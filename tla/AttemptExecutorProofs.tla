------------------------ MODULE AttemptExecutorProofs ------------------------
(***************************************************************************)
(* Proofs about AttemptExecutor, for every set of tasks, runners, keys and *)
(* values and every bound.  The store's operations appear as the instance  *)
(* Store has them; of a row the proofs need its status, its base, how many *)
(* attempts it has, which of them is active, and the keys of its events.   *)
(***************************************************************************)
EXTENDS AttemptExecutor, TLAPS

-----------------------------------------------------------------------------
(* Rows.                                                                   *)

Columns ==
  {"status", "version", "issue", "base", "branch", "startedAt", "attempts", "log"}

IsSeq(s) == s \in Seq({s[i] : i \in DOMAIN s})

\* Only the newest attempt can be active.
Newest(att) ==
  /\ IsSeq(att)
  /\ \A a \in DOMAIN att :
       /\ "status" \in DOMAIN att[a]
       /\ att[a].status = "active" => a = Len(att)

RowOK(r) ==
  /\ DOMAIN r = Columns
  /\ r.status \in Store!AllStatuses
  /\ r.base \in Values \cup {NoValue}
  /\ IsSeq(r.log)
  /\ Newest(r.attempts)

KeysOf(r) == {r.log[i].key : i \in DOMAIN r.log}

\* The statuses a runner takes a task through, and those behind each of them.
Stages == {"provisioning", "planning", "executing", "validating", "publishing",
           "awaiting_review"}

Reached(status) ==
  CASE status = "provisioning" -> {"provisioning"}
    [] status = "planning"     -> {"provisioning", "planning"}
    [] status = "executing"    -> {"provisioning", "planning", "executing"}
    [] status = "validating"   -> {"provisioning", "planning", "executing", "validating"}
    [] status = "publishing"   -> Stages \ {"awaiting_review"}
    [] status \in PhaseReview  -> Stages
    [] OTHER                   -> {}

\* Every stage an attempt has been through has left its key in the timeline; an
\* older attempt has been through all of them.
KeysLeft(t, r) ==
  \A a \in DOMAIN r.attempts, s \in Stages :
    a < Len(r.attempts) \/ s \in Reached(r.status) => <<<<t, a>>, s>> \in KeysOf(r)

\* NoStageSkipped of one row, with the attempts that have their report and those
\* that have their pull request.
StagesOf(t, r, reported, opened) ==
  /\ r.status \in {"publishing", "awaiting_review"} =>
       <<t, Len(r.attempts)>> \in reported
  /\ Publishes(t) /\ r.status = "awaiting_review" =>
       <<t, Len(r.attempts)>> \in opened

RowInv(t, r, reported, opened) ==
  /\ RowOK(r)
  /\ Len(r.attempts) \in 1..MaxAttempts
  /\ KeysLeft(t, r)
  /\ StagesOf(t, r, reported, opened)

\* What a runner may rely on whoever writes to its task.
RowGrows(r, s) ==
  /\ DOMAIN r.attempts \subseteq DOMAIN s.attempts
  /\ r.base # NoValue => s.base # NoValue

TasksInv(store, reported, opened) ==
  /\ DOMAIN store \subseteq TaskIds
  /\ \A t \in DOMAIN store : RowInv(t, store[t], reported, opened)

TasksGrow(store, next) ==
  /\ DOMAIN store \subseteq DOMAIN next
  /\ \A t \in DOMAIN store : RowGrows(store[t], next[t])

-----------------------------------------------------------------------------
(* Runners.                                                                *)

Statuses == {"queued", "completed"} \cup Stages

Locals ==
  [pc : ProgramCounters, at : AttemptIds \cup {<<>>},
   status : Statuses \cup {"none"}, to : Statuses \cup {"none", "failed", "timed_out"},
   ws : {"none", "context", "ready"}, cause : Causes, lost : BOOLEAN,
   err : {"none", "error", "failed", "lost"}]

\* The local state e of a runner: its attempt exists, its transition is one a
\* runner makes, and the work that transition stands for has been done.
LocalOK(e, store, reported, opened) ==
  e.pc # "idle" =>
    /\ e.at \in AttemptIds /\ e.at[1] \in DOMAIN store
    /\ e.at[2] \in DOMAIN store[e.at[1]].attempts
    /\ e.status # "none"
    /\ e.ws = "context" => store[e.at[1]].base # NoValue
    /\ e.pc \in {"fence", "commit"} =>
         /\ e.to \in {"completed", "failed"} \cup Stages
         /\ e.to = "publishing" => e.at \in reported
         /\ e.to = "awaiting_review" /\ Publishes(e.at[1]) => e.at \in opened
    /\ e.pc = "timeout_commit" => e.to = "timed_out"

LeaseTable == [AttemptIds -> [owner : Runners \cup {NoRunner}, live : BOOLEAN]]

\* A fenced operation runs under the lease its fence renewed.
FencesHold == \A r \in Runners : Committing(r) => Holds(r, exec[r].at)

ExecutorInv ==
  /\ TasksInv(tasks, evidence, published)
  /\ leases \in LeaseTable
  /\ exec \in [Runners -> Locals]
  /\ \A r \in Runners : LocalOK(exec[r], tasks, evidence, published)
  /\ FenceCovers => FencesHold

-----------------------------------------------------------------------------
(* Lemmas about rows.                                                      *)

\* Timelines and attempts as sequences.
LEMMA AppendSeq ==
  ASSUME NEW s, IsSeq(s), NEW e
  PROVE  /\ IsSeq(Append(s, e))
         /\ Len(s) \in Nat /\ DOMAIN s = 1..Len(s)
         /\ Len(Append(s, e)) = Len(s) + 1
         /\ DOMAIN Append(s, e) = 1..(Len(s) + 1)
         /\ \A i \in DOMAIN s : Append(s, e)[i] = s[i]
         /\ Append(s, e)[Len(s) + 1] = e
<1> DEFINE S == {s[i] : i \in DOMAIN s} \cup {e}
           n == Len(s)
<1>1. s \in Seq({s[i] : i \in DOMAIN s})
  BY DEF IsSeq
<1>2. n \in Nat /\ DOMAIN s = 1..n /\ \A i \in 1..n : s[i] \in S
  BY <1>1
<1>3. s = [i \in 1..n |-> s[i]]
  BY <1>1
<1>4. s \in Seq(S)
  <2> HIDE DEF S
  <2> QED
    BY <1>2, <1>3
<1> DEFINE q == Append(s, e)
<1>5. /\ q \in Seq(S) /\ Len(q) = n + 1 /\ DOMAIN q = 1..(n + 1)
      /\ \A i \in 1..n : q[i] = s[i]
      /\ q[n + 1] = e
  <2>1. e \in S
    OBVIOUS
  <2> HIDE DEF S
  <2> QED
    BY <1>2, <1>4, <2>1
<1>6. IsSeq(q)
  <2> HIDE DEF q, S
  <2>1. \A i \in 1..Len(q) : q[i] \in {q[j] : j \in DOMAIN q}
    BY <1>2, <1>5
  <2>2. q = [i \in 1..Len(q) |-> q[i]] /\ Len(q) \in Nat
    BY <1>5
  <2> QED
    BY <2>1, <2>2 DEF IsSeq
<1> QED
  BY <1>2, <1>5, <1>6

LEMMA UpdateSeq ==
  ASSUME NEW s, IsSeq(s), NEW a, NEW x
  PROVE  /\ IsSeq([s EXCEPT ![a] = x])
         /\ Len([s EXCEPT ![a] = x]) = Len(s)
         /\ DOMAIN [s EXCEPT ![a] = x] = DOMAIN s
<1> DEFINE n == Len(s)
           q == [s EXCEPT ![a] = x]
<1>1. n \in Nat /\ DOMAIN s = 1..n
  BY DEF IsSeq
<1>2. DOMAIN q = 1..n /\ q = [i \in 1..n |-> q[i]]
  BY <1>1
<1> HIDE DEF q
<1>3. \A i \in 1..n : q[i] \in {q[j] : j \in DOMAIN q}
  BY <1>2
<1>4. q \in Seq({q[j] : j \in DOMAIN q})
  BY <1>1, <1>2, <1>3
<1>5. Len(q) = n
  BY <1>1, <1>2, <1>4
<1> QED
  BY <1>1, <1>2, <1>4, <1>5 DEF IsSeq, q

\* Changing an attempt leaves the newest the only one that may be active.
LEMMA UpdateNewest ==
  ASSUME NEW att, Newest(att), NEW a \in DOMAIN att, NEW x,
         "status" \in DOMAIN x, x.status = "active" => a = Len(att)
  PROVE  /\ Newest([att EXCEPT ![a] = x])
         /\ Len([att EXCEPT ![a] = x]) = Len(att)
<1> DEFINE q == [att EXCEPT ![a] = x]
<1>1. IsSeq(q) /\ Len(q) = Len(att) /\ DOMAIN q = DOMAIN att
  BY UpdateSeq DEF Newest
<1>2. \A b \in DOMAIN att : q[b] = IF b = a THEN x ELSE att[b]
  OBVIOUS
<1> HIDE DEF q
<1>3. Newest(q)
  BY <1>1, <1>2 DEF Newest
<1> QED
  BY <1>1, <1>3 DEF q

\* Finishing, superseding or starting the active attempt leaves the newest one
\* the only one that can be active.
LEMMA MoveKeeps ==
  ASSUME NEW r, RowOK(r), NEW p, Store!ActiveAttempts(r) # {},
         NEW m, m = Store!MoveAttempts(r, p, Store!ActiveAttempt(r))
  PROVE  /\ Newest(m)
         /\ Len(m) = IF r.status = "revision_requested" /\ p.to = "queued"
                     THEN Len(r.attempts) + 1 ELSE Len(r.attempts)
<1> DEFINE a == Store!ActiveAttempt(r)
           att == r.attempts
<1>1. a \in DOMAIN att /\ a = Len(att) /\ Newest(att)
  BY DEF Store!ActiveAttempt, Store!ActiveAttempts, RowOK, Newest
<1> DEFINE Moved(x) == [att EXCEPT ![a] = x]
<1>2. ASSUME NEW x, "status" \in DOMAIN x
      PROVE  Newest(Moved(x)) /\ Len(Moved(x)) = Len(att)
  <2> HIDE DEF a
  <2> QED
    BY <1>1, <1>2, UpdateNewest
<1>3. "status" \in DOMAIN att[a]
  BY <1>1 DEF Newest
<1>4. ~(Store!Terminal("queued"))
  BY DEF Store!Terminal, Store!PhaseTerminal
<1>5. CASE Store!Terminal(p.to)
  <2>1. m = Moved([att[a] EXCEPT !.status = p.to])
    BY <1>5 DEF Store!MoveAttempts
  <2> QED
    BY <1>2, <1>3, <1>4, <1>5, <2>1
<1>6. CASE r.status = "revision_requested" /\ p.to = "queued"
  <2> DEFINE old == Moved([att[a] EXCEPT !.status = "superseded"])
             new == Store!NewAttempt(att[a].number + 1, p.comment, p.base)
  <2>1. m = Append(old, new)
    BY <1>4, <1>6 DEF Store!MoveAttempts
  <2>2. Newest(old) /\ Len(old) = Len(att) /\ DOMAIN old = DOMAIN att
    BY <1>2, <1>3
  <2>3. old[a].status = "superseded"
    BY <1>1, <1>3
  <2>4. "status" \in DOMAIN new
    BY DEF Store!NewAttempt
  <2> HIDE DEF old, new
  <2>5. /\ IsSeq(m) /\ Len(old) \in Nat /\ DOMAIN old = 1..Len(old)
        /\ Len(m) = Len(old) + 1 /\ DOMAIN m = 1..(Len(old) + 1)
        /\ \A i \in DOMAIN old : m[i] = old[i]
        /\ m[Len(old) + 1] = new
    BY <2>1, <2>2, AppendSeq DEF Newest
  <2>6. ASSUME NEW b \in DOMAIN m
        PROVE  "status" \in DOMAIN m[b] /\ (m[b].status = "active" => b = Len(m))
    <3>1. CASE b = Len(m)
      BY <2>4, <2>5, <3>1
    <3>2. CASE b # Len(m)
      <4>1. b \in DOMAIN old /\ m[b] = old[b]
        BY <2>5, <3>2
      <4> QED
        BY <1>1, <2>2, <2>3, <4>1 DEF Newest
    <3> QED
      BY <3>1, <3>2
  <2>7. Newest(m)
    BY <2>5, <2>6 DEF Newest
  <2> QED
    BY <1>6, <2>2, <2>5, <2>7
<1>7. CASE /\ ~Store!Terminal(p.to) /\ p.to = "provisioning"
           /\ ~(r.status = "revision_requested" /\ p.to = "queued")
  <2>1. m = Moved([att[a] EXCEPT !.startedAt = 1])
    BY <1>7 DEF Store!MoveAttempts
  <2> QED
    BY <1>2, <1>3, <1>7, <2>1
<1>8. CASE /\ ~Store!Terminal(p.to) /\ p.to # "provisioning"
           /\ ~(r.status = "revision_requested" /\ p.to = "queued")
  BY <1>1, <1>8 DEF Store!MoveAttempts
<1> QED
  BY <1>5, <1>6, <1>7, <1>8

\* insertEvent adds one key and leaves everything else alone.
LEMMA InsertKeeps ==
  ASSUME NEW r, DOMAIN r = Columns, IsSeq(r.log), NEW a, NEW from, NEW type, NEW key,
         NEW s, s = Store!insertEvent(r, a, from, type, key)
  PROVE  /\ DOMAIN s = Columns /\ IsSeq(s.log)
         /\ s.status = r.status /\ s.base = r.base /\ s.attempts = r.attempts
         /\ KeysOf(s) = KeysOf(r) \cup {key}
<1>1. PICK e : e.key = key /\ s = [r EXCEPT !.log = Append(r.log, e)]
  <2> DEFINE seq == Store!Max(Store!SequenceNumbers(r.log, a) \cup {0}) + 1
  <2>1. s = [r EXCEPT !.log = Append(r.log, Store!Event(a, seq, from, type, key))]
    BY DEF Store!insertEvent
  <2>2. Store!Event(a, seq, from, type, key).key = key
    BY DEF Store!Event
  <2> HIDE DEF seq
  <2> QED
    BY <2>1, <2>2
<1>2. /\ DOMAIN s = Columns /\ s.log = Append(r.log, e)
      /\ s.status = r.status /\ s.base = r.base /\ s.attempts = r.attempts
  BY <1>1 DEF Columns
<1>3. /\ IsSeq(s.log) /\ Len(r.log) \in Nat /\ DOMAIN r.log = 1..Len(r.log)
      /\ DOMAIN s.log = 1..(Len(r.log) + 1)
      /\ \A i \in DOMAIN r.log : s.log[i] = r.log[i]
      /\ s.log[Len(r.log) + 1] = e
  BY <1>2, AppendSeq
<1>4. \A k : k \in KeysOf(s) <=> k \in KeysOf(r) \cup {key}
  BY <1>1, <1>3 DEF KeysOf
<1> QED
  BY <1>2, <1>3, <1>4

\* applyTransition: the status moves, the key is recorded, and an attempt is added
\* only by a revision.
AppliedTo(r, p, s) ==
  /\ RowOK(s)
  /\ s.status = p.to /\ s.base = r.base
  /\ KeysOf(s) = KeysOf(r) \cup {p.key}
  /\ s.attempts = Store!MoveAttempts(r, p, Store!ActiveAttempt(r))
  /\ Len(s.attempts) = IF r.status = "revision_requested" /\ p.to = "queued"
                       THEN Len(r.attempts) + 1 ELSE Len(r.attempts)

\* applyTransition, for any target.
LEMMA ApplyKeeps ==
  ASSUME NEW r, RowOK(r), NEW p, p.to \in Store!AllStatuses,
         Store!ActiveAttempts(r) # {}, NEW s, s = Store!applyTransition(r, p)
  PROVE  AppliedTo(r, p, s)
<1> DEFINE a == Store!ActiveAttempt(r)
           m == Store!MoveAttempts(r, p, a)
           moved == [r EXCEPT !.status = p.to, !.version = r.version + 1,
                       !.startedAt = IF p.to = "provisioning" THEN 1 ELSE r.startedAt,
                       !.attempts = m]
<1>1. s = Store!insertEvent(moved, Store!EventAttempt(r, p, a), r.status, p.to, p.key)
  BY DEF Store!applyTransition, RowOK, Columns
<1>2. /\ Newest(m)
      /\ Len(m) = IF r.status = "revision_requested" /\ p.to = "queued"
                  THEN Len(r.attempts) + 1 ELSE Len(r.attempts)
  BY MoveKeeps
<1> HIDE DEF m, a
<1>3. /\ DOMAIN moved = Columns /\ moved.log = r.log /\ moved.status = p.to
      /\ moved.base = r.base /\ moved.attempts = m
  BY DEF RowOK, Columns
<1> HIDE DEF moved
<1>4. /\ DOMAIN s = Columns /\ IsSeq(s.log)
      /\ s.status = p.to /\ s.base = r.base /\ s.attempts = m
      /\ KeysOf(s) = KeysOf(moved) \cup {p.key}
  BY <1>1, <1>3, InsertKeeps DEF RowOK
<1>5. KeysOf(moved) = KeysOf(r)
  BY <1>3 DEF KeysOf
<1> QED
  BY <1>2, <1>4, <1>5 DEF RowOK, AppliedTo, m, a

-----------------------------------------------------------------------------
(* What the operations of the store do to a row and its invariant.         *)

\* What the guards of Transition have let through.
LEMMA AppliedMeans ==
  ASSUME NEW r, NEW p, Store!TransitionOutcome(r, p) = "applied"
  PROVE  /\ Store!CanTransition(r.status, p.to)
         /\ Store!ActiveAttempts(r) # {}
         /\ p.key # NoKey => p.key \notin KeysOf(r)
BY DEF Store!TransitionOutcome, Store!KeySeen, KeysOf

\* The parameters of a transition.
LEMMA ParamsFields ==
  ASSUME NEW to, NEW key, NEW expect
  PROVE  /\ Store!Params(to, key, expect).to = to
         /\ Store!Params(to, key, expect).key = key
BY DEF Store!Params

\* The attempts of a row are numbered from 1.
LEMMA RowDomains ==
  ASSUME NEW r, RowOK(r)
  PROVE  Len(r.attempts) \in Nat /\ DOMAIN r.attempts = 1..Len(r.attempts)
BY DEF RowOK, Newest, IsSeq

\* A report or a pull request more harms no row.
LEMMA WorkIsKept ==
  ASSUME NEW t, NEW r, NEW E, NEW P, NEW E2, NEW P2, RowInv(t, r, E, P),
         E \subseteq E2, P \subseteq P2
  PROVE  RowInv(t, r, E2, P2)
BY DEF RowInv, StagesOf

\* A write that moves nothing.
Quiet(r, s) ==
  /\ RowOK(s) /\ s.status = r.status
  /\ Len(s.attempts) = Len(r.attempts)
  /\ KeysOf(r) \subseteq KeysOf(s)
  /\ r.base # NoValue => s.base # NoValue

\* A write that changes no status, adds no attempt and loses no key.
LEMMA QuietKeeps ==
  ASSUME NEW t, NEW r, NEW s, NEW E, NEW P, RowInv(t, r, E, P), Quiet(r, s)
  PROVE  RowInv(t, s, E, P) /\ RowGrows(r, s)
<1>1. DOMAIN s.attempts = DOMAIN r.attempts
  BY RowDomains DEF RowInv, Quiet
<1>2. KeysLeft(t, s)
  BY <1>1 DEF RowInv, Quiet, KeysLeft
<1> QED
  BY <1>1, <1>2 DEF RowInv, Quiet, StagesOf, RowGrows

\* A transition other than a revision's second half adds no attempt.
LEMMA MovedRow ==
  ASSUME NEW r, RowOK(r), NEW to \in Store!AllStatuses, to # "queued", NEW key,
         Store!TransitionOutcome(r, Store!Params(to, key, 0)) = "applied"
  PROVE  LET s == Store!applyTransition(r, Store!Params(to, key, 0))
         IN s.status = to /\ Len(s.attempts) = Len(r.attempts)
<1> DEFINE p == Store!Params(to, key, 0)
           s == Store!applyTransition(r, p)
<1>1. p.to = to /\ Store!ActiveAttempts(r) # {}
  BY ParamsFields, AppliedMeans
<1> HIDE DEF p
<1>2. AppliedTo(r, p, s)
  BY <1>1, ApplyKeeps
<1> HIDE DEF s
<1>3. s.status = to /\ Len(s.attempts) = Len(r.attempts)
  BY <1>1, <1>2 DEF AppliedTo
<1> QED
  BY <1>3 DEF s, p

\* A task that ends asks nothing more of its keys.
LEMMA EndKeeps ==
  ASSUME NEW t, NEW r, NEW s, NEW E, NEW P, RowInv(t, r, E, P),
         NEW to \in PhaseTerminal, NEW key,
         Store!TransitionOutcome(r, Store!Params(to, key, 0)) = "applied",
         s = Store!applyTransition(r, Store!Params(to, key, 0))
  PROVE  RowInv(t, s, E, P) /\ RowGrows(r, s)
<1> DEFINE p == Store!Params(to, key, 0)
<1>1. p.to = to /\ p.key = key /\ Store!ActiveAttempts(r) # {}
  BY ParamsFields, AppliedMeans
<1>2. to \in Store!AllStatuses /\ to # "queued"
  BY DEF PhaseTerminal, Store!AllStatuses, Store!PhaseTerminal
<1> HIDE DEF p
<1>3. AppliedTo(r, p, s)
  BY <1>1, <1>2, ApplyKeeps DEF RowInv, p
<1>4. /\ RowOK(s) /\ s.status = to /\ s.base = r.base
      /\ Len(s.attempts) = Len(r.attempts) /\ KeysOf(r) \subseteq KeysOf(s)
  BY <1>1, <1>2, <1>3 DEF AppliedTo
<1>5. DOMAIN s.attempts = DOMAIN r.attempts
  BY <1>4, RowDomains DEF RowInv
<1>6. Reached(to) = {}
  BY DEF Reached, PhaseTerminal, PhaseReview
<1>7. KeysLeft(t, s)
  BY <1>4, <1>5, <1>6 DEF RowInv, KeysLeft
<1>8. StagesOf(t, s, E, P)
  BY <1>4 DEF StagesOf, PhaseTerminal
<1> QED
  BY <1>4, <1>5, <1>7, <1>8 DEF RowInv, RowGrows

\* A runner's transition of attempt a to a stage, whose work has been done.
StageMove(t, a, to, r, s, E, P) ==
  LET key == <<<<t, a>>, to>>
      p == Store!Params(to, key, 0)
  IN /\ RowInv(t, r, E, P) /\ a \in DOMAIN r.attempts /\ to \in Stages /\ key # NoKey
     /\ Store!TransitionOutcome(r, p) = "applied" /\ s = Store!applyTransition(r, p)
     /\ to = "publishing" => <<t, a>> \in E
     /\ to = "awaiting_review" /\ Publishes(t) => <<t, a>> \in P

\* Its key is new, so its attempt is the newest.
LEMMA StageKeeps ==
  ASSUME NEW t, NEW a, NEW to, NEW r, NEW s, NEW E, NEW P, StageMove(t, a, to, r, s, E, P)
  PROVE  RowInv(t, s, E, P) /\ RowGrows(r, s) /\ a = Len(r.attempts)
<1> DEFINE key == <<<<t, a>>, to>>
           p == Store!Params(to, key, 0)
<1>0. /\ RowInv(t, r, E, P) /\ a \in DOMAIN r.attempts /\ to \in Stages /\ key # NoKey
      /\ Store!TransitionOutcome(r, p) = "applied" /\ s = Store!applyTransition(r, p)
      /\ to = "publishing" => <<t, a>> \in E
      /\ to = "awaiting_review" /\ Publishes(t) => <<t, a>> \in P
  BY DEF StageMove
<1> HIDE DEF key
<1>1. /\ p.to = to /\ p.key = key
      /\ Store!ActiveAttempts(r) # {} /\ key \notin KeysOf(r)
      /\ Store!CanTransition(r.status, to)
  BY <1>0, ParamsFields, AppliedMeans
<1>2. to \in Store!AllStatuses /\ to # "queued"
  BY <1>0 DEF Stages, Store!AllStatuses, Store!PhaseRunning, Store!PhaseReview
<1> HIDE DEF p
<1>3. AppliedTo(r, p, s)
  BY <1>0, <1>1, <1>2, ApplyKeeps DEF RowInv, p
<1>4. /\ RowOK(s) /\ s.status = to /\ s.base = r.base
      /\ Len(s.attempts) = Len(r.attempts) /\ KeysOf(s) = KeysOf(r) \cup {key}
  BY <1>1, <1>2, <1>3 DEF AppliedTo
<1>5. /\ DOMAIN s.attempts = DOMAIN r.attempts
      /\ DOMAIN r.attempts = 1..Len(r.attempts) /\ Len(r.attempts) \in Nat
  BY <1>0, <1>4, RowDomains DEF RowInv
<1>6. a = Len(r.attempts)
  <2>1. ~(a < Len(r.attempts))
    BY <1>0, <1>1 DEF RowInv, KeysLeft, key
  <2> QED
    BY <1>0, <1>5, <2>1
<1>7. Reached(to) \subseteq Reached(r.status) \cup {to}
  <2>1. <<r.status, to>> \in Store!happyPath
    BY <1>0, <1>1 DEF Store!CanTransition, Stages
  <2> QED
    BY <2>1 DEF Store!happyPath, Reached, Stages, PhaseReview
<1>8. KeysLeft(t, s)
  <2> SUFFICES ASSUME NEW b \in DOMAIN s.attempts, NEW x \in Stages,
                      b < Len(s.attempts) \/ x \in Reached(s.status)
               PROVE  <<<<t, b>>, x>> \in KeysOf(s)
    BY DEF KeysLeft
  <2>1. CASE b < Len(r.attempts) \/ x \in Reached(r.status)
    BY <1>0, <1>4, <1>5, <2>1 DEF RowInv, KeysLeft
  <2>2. CASE ~(b < Len(r.attempts)) /\ x \notin Reached(r.status)
    <3>1. b = a /\ x = to
      BY <1>4, <1>5, <1>6, <1>7, <2>2
    <3> QED
      BY <1>4, <3>1 DEF key
  <2> QED
    BY <2>1, <2>2
<1>9. StagesOf(t, s, E, P)
  <2>1. to = "awaiting_review" => r.status = "publishing"
    BY <1>1 DEF Store!CanTransition, Store!happyPath
  <2> QED
    BY <1>0, <1>4, <1>6, <2>1 DEF RowInv, StagesOf
<1> QED
  BY <1>0, <1>4, <1>5, <1>6, <1>8, <1>9 DEF RowInv, RowGrows

\* Only a task that waits for review is revised.
LEMMA RevisedFrom ==
  ASSUME NEW r, NEW key, Store!RevisionOutcome(r, MaxAttempts, key) = "applied"
  PROVE  Store!ActiveAttempts(r) # {} /\ r.status = "awaiting_review"
<1> DEFINE p == Store!Params("revision_requested", key, 0)
<1>1. Store!TransitionOutcome(r, p) = "applied"
  BY DEF Store!RevisionOutcome
<1>2. p.to = "revision_requested"
  BY ParamsFields
<1> HIDE DEF p
<1>3. Store!ActiveAttempts(r) # {} /\ Store!CanTransition(r.status, "revision_requested")
  BY <1>1, <1>2, AppliedMeans
<1> QED
  BY <1>3 DEF Store!CanTransition, Store!happyPath

\* A revision: the row it supersedes has been through every stage.
LEMMA ReviseKeeps ==
  ASSUME NEW t, NEW r, NEW s, NEW E, NEW P, RowInv(t, r, E, P),
         NEW key, NEW comment, NEW base,
         Store!RevisionOutcome(r, MaxAttempts, key) = "applied",
         s = Store!RevisedRow(r, key, comment, base)
  PROVE  RowInv(t, s, E, P) /\ RowGrows(r, s)
<1> DEFINE p == Store!Params("revision_requested", key, 0)
           mid == Store!applyTransition(r, p)
           q == Store!RevisionParams(comment, base)
<1>1. /\ Store!TransitionOutcome(r, p) = "applied" /\ ~(Len(r.attempts) >= MaxAttempts)
      /\ s = Store!applyTransition(mid, q)
  BY DEF Store!RevisionOutcome, Store!RevisedRow
<1>2. /\ p.to = "revision_requested" /\ p.key = key /\ q.to = "queued"
      /\ q.key = NoKey
  BY ParamsFields DEF Store!RevisionParams
<1> HIDE DEF p, q
<1>3. Store!ActiveAttempts(r) # {} /\ r.status = "awaiting_review"
  BY RevisedFrom
<1>4. {"revision_requested", "queued"} \subseteq Store!AllStatuses
  BY DEF Store!AllStatuses, Store!PhaseReview, Store!PhasePending
<1>5. AppliedTo(r, p, mid)
  BY <1>2, <1>3, <1>4, ApplyKeeps DEF RowInv
<1> HIDE DEF mid
<1>6. /\ RowOK(mid) /\ mid.status = "revision_requested" /\ mid.base = r.base
      /\ KeysOf(mid) = KeysOf(r) \cup {key} /\ mid.attempts = r.attempts
  BY <1>2, <1>5 DEF AppliedTo, Store!MoveAttempts, Store!Terminal, Store!PhaseTerminal
<1>7. Store!ActiveAttempts(mid) # {}
  BY <1>3, <1>6 DEF Store!ActiveAttempts
<1>8. AppliedTo(mid, q, s)
  BY <1>1, <1>2, <1>4, <1>6, <1>7, ApplyKeeps
<1>9. /\ RowOK(s) /\ s.status = "queued" /\ s.base = r.base
      /\ Len(s.attempts) = Len(r.attempts) + 1 /\ KeysOf(r) \subseteq KeysOf(s)
  BY <1>2, <1>6, <1>8 DEF AppliedTo
<1>10. /\ Len(r.attempts) \in 1..MaxAttempts /\ DOMAIN r.attempts = 1..Len(r.attempts)
       /\ DOMAIN s.attempts = 1..(Len(r.attempts) + 1)
  BY <1>9, RowDomains DEF RowInv
<1>11. Len(s.attempts) \in 1..MaxAttempts
  BY <1>1, <1>9, <1>10, ExecutorAssumption
<1>12. KeysLeft(t, s)
  <2> SUFFICES ASSUME NEW b \in DOMAIN s.attempts, NEW x \in Stages,
                      b < Len(s.attempts) \/ x \in Reached(s.status)
               PROVE  <<<<t, b>>, x>> \in KeysOf(s)
    BY DEF KeysLeft
  <2>1. Reached("queued") = {} /\ Reached("awaiting_review") = Stages
    BY DEF Reached, PhaseReview
  <2>2. b \in DOMAIN r.attempts
    BY <1>9, <1>10, <2>1
  <2> QED
    BY <1>3, <1>9, <2>1, <2>2 DEF RowInv, KeysLeft
<1>13. StagesOf(t, s, E, P)
  BY <1>9 DEF StagesOf
<1> QED
  BY <1>3, <1>9, <1>10, <1>11, <1>12, <1>13 DEF RowInv, RowGrows

\* The rows that Create, AppendEvent, EnsureGitContext and RecordAttemptBase
\* write.
LEMMA CreatedKeeps ==
  ASSUME NEW t, NEW s, NEW E, NEW P, s = Store!CreatedRow(NoIssue, NoValue)
  PROVE  RowInv(t, s, E, P) /\ s.status = "queued" /\ Len(s.attempts) = 1
<1> DEFINE first == Store!NewAttempt(1, NoValue, NoValue)
           bare == [status |-> "created", version |-> 1, issue |-> NoIssue,
                    base |-> NoValue, branch |-> NoValue, startedAt |-> 0,
                    attempts |-> <<first>>, log |-> <<>>]
           r == Store!insertEvent(bare, 1, "none", "created", NoKey)
           p == Store!Params("queued", NoKey, 0)
<1>1. s = Store!applyTransition(r, p)
  BY DEF Store!CreatedRow, Store!InsertedRow
<1>2. p.to = "queued"
  BY ParamsFields
<1>3. "status" \in DOMAIN first /\ first.status = "active"
  BY DEF Store!NewAttempt
<1> HIDE DEF first
<1>4. DOMAIN bare = Columns
  BY DEF Columns
<1>5. IsSeq(bare.log) /\ Newest(bare.attempts)
  BY <1>3 DEF IsSeq, Newest
<1>6. bare.status = "created" /\ bare.base = NoValue /\ bare.attempts = <<first>>
  OBVIOUS
<1> HIDE DEF bare, p
<1>7. RowOK(r) /\ r.status = "created" /\ r.attempts = <<first>>
  BY <1>4, <1>5, <1>6, InsertKeeps DEF RowOK, Store!AllStatuses, Store!PhasePending
<1> HIDE DEF r
<1>8. Store!ActiveAttempts(r) # {}
  BY <1>3, <1>7 DEF Store!ActiveAttempts
<1>9. AppliedTo(r, p, s)
  BY <1>1, <1>2, <1>7, <1>8, ApplyKeeps DEF Store!AllStatuses, Store!PhasePending
<1>10. RowOK(s) /\ s.status = "queued" /\ Len(s.attempts) = 1
  BY <1>2, <1>7, <1>9 DEF AppliedTo
<1>11. DOMAIN s.attempts = 1..1 /\ 1 \in 1..MaxAttempts
  BY <1>10, RowDomains, ExecutorAssumption
<1>12. Reached("queued") = {}
  BY DEF Reached, PhaseReview
<1>13. KeysLeft(t, s) /\ StagesOf(t, s, E, P)
  BY <1>10, <1>11, <1>12 DEF KeysLeft, StagesOf
<1> QED
  BY <1>10, <1>11, <1>13 DEF RowInv

LEMMA NoteKeeps ==
  ASSUME NEW t, NEW r, NEW s, NEW E, NEW P, RowInv(t, r, E, P), NEW a,
         s = Store!insertEvent(r, a, "none", "note", NoKey)
  PROVE  RowInv(t, s, E, P) /\ RowGrows(r, s) /\ Quiet(r, s)
<1>1. Quiet(r, s)
  BY InsertKeeps DEF RowInv, RowOK, Quiet
<1> QED
  BY <1>1, QuietKeeps

LEMMA EnsureKeeps ==
  ASSUME NEW t, NEW r, NEW s, NEW E, NEW P, RowInv(t, r, E, P), NEW v \in Values,
         s = Store!EnsuredRow(r, v, v)
  PROVE  RowInv(t, s, E, P) /\ RowGrows(r, s) /\ Quiet(r, s) /\ s.base # NoValue
<1>1. s = [r EXCEPT !.base = IF r.base = NoValue THEN v ELSE r.base,
                    !.branch = IF r.branch = NoValue THEN v ELSE r.branch,
                    !.version = r.version + 1]
  BY DEF Store!EnsuredRow, RowInv, RowOK, Columns
<1>2. /\ DOMAIN s = Columns /\ s.status = r.status /\ s.attempts = r.attempts
      /\ s.log = r.log /\ s.base = IF r.base = NoValue THEN v ELSE r.base
  BY <1>1 DEF RowInv, RowOK, Columns
<1>3. s.base # NoValue /\ s.base \in Values \cup {NoValue}
  BY <1>2, ExecutorAssumption DEF RowInv, RowOK
<1>4. Quiet(r, s)
  BY <1>2, <1>3 DEF Quiet, RowInv, RowOK, KeysOf
<1> QED
  BY <1>3, <1>4, QuietKeeps

LEMMA AttemptBaseKeeps ==
  ASSUME NEW t, NEW r, NEW s, NEW E, NEW P, RowInv(t, r, E, P),
         NEW a \in DOMAIN r.attempts, NEW base, s = Store!AttemptBaseRow(r, a, base)
  PROVE  RowInv(t, s, E, P) /\ RowGrows(r, s) /\ Quiet(r, s)
<1> DEFINE att == r.attempts
           new == IF att[a].base = NoValue THEN base ELSE att[a].base
           x == [att[a] EXCEPT !.base = new]
<1>1. s = [r EXCEPT !.attempts = [att EXCEPT ![a] = x]]
  BY DEF Store!AttemptBaseRow, RowInv, RowOK, Columns
<1>2. "status" \in DOMAIN x /\ x.status = att[a].status
  BY DEF RowInv, RowOK, Newest
<1>3. att[a].status = "active" => a = Len(att)
  BY DEF RowInv, RowOK, Newest
<1> HIDE DEF x
<1>4. /\ Newest([att EXCEPT ![a] = x])
      /\ Len([att EXCEPT ![a] = x]) = Len(att)
  BY <1>2, <1>3, UpdateNewest DEF RowInv, RowOK
<1> DEFINE m == [att EXCEPT ![a] = x]
<1> HIDE DEF m
<1>5. /\ DOMAIN s = Columns /\ s.status = r.status /\ s.attempts = m
      /\ s.log = r.log /\ s.base = r.base
  BY <1>1 DEF RowInv, RowOK, Columns, m
<1>6. Quiet(r, s)
  BY <1>4, <1>5 DEF Quiet, RowInv, RowOK, KeysOf, m
<1> QED
  BY <1>6, QuietKeeps

-----------------------------------------------------------------------------
(* The parts of a step.                                                    *)

\* Writing a row back, and writing none.
LEMMA PutKeeps ==
  ASSUME NEW E, NEW P, TasksInv(tasks, E, P), NEW t \in TaskIds, NEW s,
         RowInv(t, s, E, P), t \in DOMAIN tasks => RowGrows(tasks[t], s),
         Store!Put(t, s)
  PROVE  TasksInv(tasks', E, P) /\ TasksGrow(tasks, tasks')
<1>1. /\ DOMAIN tasks' = DOMAIN tasks \cup {t}
      /\ \A u \in DOMAIN tasks' : tasks'[u] = IF u = t THEN s ELSE tasks[u]
  BY DEF Store!Put
<1>2. TasksInv(tasks', E, P)
  BY <1>1 DEF TasksInv
<1>3. ASSUME NEW u \in DOMAIN tasks
      PROVE  RowGrows(tasks[u], tasks'[u])
  BY <1>1 DEF RowGrows
<1> QED
  BY <1>1, <1>2, <1>3 DEF TasksGrow

LEMMA TasksKept ==
  ASSUME NEW T, NEW E, NEW P, NEW E2, NEW P2, TasksInv(T, E, P),
         E \subseteq E2, P \subseteq P2
  PROVE  TasksInv(T, E2, P2) /\ TasksGrow(T, T)
BY WorkIsKept DEF TasksInv, TasksGrow, RowGrows

\* What a runner knows stays true while rows grow.
LEMMA LocalKept ==
  ASSUME NEW e, NEW T, NEW U, NEW E, NEW P, NEW E2, NEW P2,
         LocalOK(e, T, E, P), TasksGrow(T, U), E \subseteq E2, P \subseteq P2
  PROVE  LocalOK(e, U, E2, P2)
BY DEF LocalOK, TasksGrow, RowGrows

CommittingPcs == {"commit", "timeout_read", "timeout_commit"}

\* A caller's step: the runners and their leases stay as they are.
LEMMA CallerStep ==
  ASSUME ExecutorInv, UNCHANGED <<leases, exec, evidence, published>>,
         TasksInv(tasks', evidence, published), TasksGrow(tasks, tasks')
  PROVE  ExecutorInv'
<1>1. \A r \in Runners : LocalOK(exec'[r], tasks', evidence', published')
  BY LocalKept DEF ExecutorInv
<1>2. FenceCovers => FencesHold'
  BY DEF ExecutorInv, FencesHold, Committing, Holds
<1> QED
  BY <1>1, <1>2 DEF ExecutorInv

\* A runner's step that takes or gives up no lease.
LEMMA RunnerStep ==
  ASSUME ExecutorInv, NEW r \in Runners, NEW e \in Locals, Goto(r, e),
         leases' = leases, evidence \subseteq evidence', published \subseteq published',
         TasksInv(tasks', evidence', published'), TasksGrow(tasks, tasks'),
         LocalOK(e, tasks', evidence', published'),
         FenceCovers /\ e.pc \in CommittingPcs => Holds(r, e.at)
  PROVE  ExecutorInv'
<1>1. /\ exec' \in [Runners -> Locals] /\ exec'[r] = e
      /\ \A q \in Runners : q # r => exec'[q] = exec[q]
  BY DEF Goto, ExecutorInv
<1>2. ASSUME NEW q \in Runners
      PROVE  LocalOK(exec'[q], tasks', evidence', published')
  <2>1. CASE q = r
    BY <1>1, <2>1
  <2>2. CASE q # r
    BY <1>1, <2>2, LocalKept DEF ExecutorInv
  <2> QED
    BY <2>1, <2>2
<1>3. ASSUME FenceCovers, NEW q \in Runners, Committing(q)'
      PROVE  Holds(q, exec[q].at)'
  <2>1. CASE q = r
    BY <1>1, <1>3, <2>1 DEF Committing, CommittingPcs, Holds
  <2>2. CASE q # r
    BY <1>1, <1>3, <2>2 DEF Committing, Holds, ExecutorInv, FencesHold
  <2> QED
    BY <2>1, <2>2
<1> QED
  BY <1>1, <1>2, <1>3 DEF ExecutorInv, FencesHold

\* A runner's step on its own state and nothing else.
LEMMA LocalStep ==
  ASSUME ExecutorInv, NEW r \in Runners, NEW e \in Locals, Goto(r, e),
         UNCHANGED <<tasks, leases, evidence, published>>,
         LocalOK(e, tasks, evidence, published),
         FenceCovers /\ e.pc \in CommittingPcs => Holds(r, e.at)
  PROVE  ExecutorInv'
<1>1. TasksInv(tasks', evidence', published') /\ TasksGrow(tasks, tasks')
  BY TasksKept DEF ExecutorInv
<1> QED
  BY <1>1, RunnerStep

-----------------------------------------------------------------------------
(* Every step keeps the invariant.                                         *)

\* The callers beside the runners.
LEMMA CreateTaskStep ==
  ASSUME ExecutorInv, NEW t \in TaskIds, CreateTask(t)
  PROVE  ExecutorInv'
<1> DEFINE s == Store!CreatedRow(NoIssue, NoValue)
<1>1. t \notin DOMAIN tasks /\ Store!Put(t, s)
  BY DEF CreateTask, Store!Create
<1>2. RowInv(t, s, evidence, published)
  BY CreatedKeeps
<1> HIDE DEF s
<1>3. TasksInv(tasks', evidence, published) /\ TasksGrow(tasks, tasks')
  BY <1>1, <1>2, PutKeeps DEF ExecutorInv
<1> QED
  BY <1>3, CallerStep DEF CreateTask, env

LEMMA ApiCancelStep ==
  ASSUME ExecutorInv, NEW t \in DOMAIN tasks, ApiCancel(t)
  PROVE  ExecutorInv'
<1> DEFINE p == Store!Params("cancelled", NoKey, 0)
           s == Store!applyTransition(tasks[t], p)
<1>1. Store!TransitionOutcome(tasks[t], p) = "applied" /\ Store!Put(t, s)
  BY DEF ApiCancel, Store!Cancel
<1>2. t \in TaskIds /\ RowInv(t, tasks[t], evidence, published)
  BY DEF ExecutorInv, TasksInv
<1>3. RowInv(t, s, evidence, published) /\ RowGrows(tasks[t], s)
  BY <1>1, <1>2, EndKeeps DEF PhaseTerminal
<1> HIDE DEF s
<1>4. TasksInv(tasks', evidence, published) /\ TasksGrow(tasks, tasks')
  BY <1>1, <1>2, <1>3, PutKeeps DEF ExecutorInv
<1> QED
  BY <1>4, CallerStep DEF ApiCancel, env

LEMMA ReviseStep ==
  ASSUME ExecutorInv, NEW t \in DOMAIN tasks, NEW key \in Keys, Revise(t, key)
  PROVE  ExecutorInv'
<1>1. PICK v \in Values : Store!RequestRevision(t, key, v, v)
  BY DEF Revise
<1> DEFINE s == Store!RevisedRow(tasks[t], key, v, v)
<1>2. Store!RevisionOutcome(tasks[t], MaxAttempts, key) = "applied" /\ Store!Put(t, s)
  BY <1>1 DEF Store!RequestRevision
<1>3. t \in TaskIds /\ RowInv(t, tasks[t], evidence, published)
  BY DEF ExecutorInv, TasksInv
<1>4. RowInv(t, s, evidence, published) /\ RowGrows(tasks[t], s)
  BY <1>2, <1>3, ReviseKeeps
<1> HIDE DEF s
<1>5. TasksInv(tasks', evidence, published) /\ TasksGrow(tasks, tasks')
  BY <1>2, <1>3, <1>4, PutKeeps DEF ExecutorInv
<1> QED
  BY <1>5, CallerStep DEF Revise, env

LEMMA PullRequestClosedStep ==
  ASSUME ExecutorInv, NEW t \in DOMAIN tasks, NEW to \in {"completed", "cancelled"},
         PullRequestClosed(t, to)
  PROVE  ExecutorInv'
<1> DEFINE p == Store!Params(to, NoKey, 0)
           s == Store!applyTransition(tasks[t], p)
<1>1. Store!TransitionOutcome(tasks[t], p) = "applied" /\ Store!Put(t, s)
  BY DEF PullRequestClosed, Store!Transition
<1>2. t \in TaskIds /\ RowInv(t, tasks[t], evidence, published)
  BY DEF ExecutorInv, TasksInv
<1>3. RowInv(t, s, evidence, published) /\ RowGrows(tasks[t], s)
  BY <1>1, <1>2, EndKeeps DEF PhaseTerminal
<1> HIDE DEF s
<1>4. TasksInv(tasks', evidence, published) /\ TasksGrow(tasks, tasks')
  BY <1>1, <1>2, <1>3, PutKeeps DEF ExecutorInv
<1> QED
  BY <1>4, CallerStep DEF PullRequestClosed, env

\* The lease of an attempt expires: of nobody who is inside a fenced operation.
LEMMA ExpiryStep ==
  ASSUME ExecutorInv, NEW x \in AttemptIds, ExpireLease(x) \/ LeaseLapses(x)
  PROVE  ExecutorInv'
<1>1. /\ leases' = [leases EXCEPT ![x].live = FALSE]
      /\ UNCHANGED <<tasks, exec, evidence, published>>
  BY DEF ExpireLease, LeaseLapses
<1>2. leases' \in LeaseTable
  BY <1>1 DEF ExecutorInv, LeaseTable
<1>3. ASSUME FenceCovers, NEW q \in Runners, Committing(q)
      PROVE  Holds(q, exec[q].at)'
  <2>1. Holds(q, exec[q].at) /\ exec[q].at \in AttemptIds
    BY <1>3 DEF ExecutorInv, FencesHold, LocalOK, Committing
  <2>2. leases[exec[q].at].owner = q
    BY <2>1 DEF Holds
  <2>3. exec[q].at # x
    BY <1>3, <2>2 DEF ExpireLease, LeaseLapses, Attended, Executing, Committing
  <2> QED
    BY <1>1, <2>1, <2>3 DEF Holds, ExecutorInv, LeaseTable
<1>4. FenceCovers => FencesHold'
  BY <1>1, <1>3 DEF FencesHold, Committing
<1> QED
  BY <1>1, <1>2, <1>4 DEF ExecutorInv

\* A deadline passes, which only its owner will notice.
LEMMA DeadlinePassesStep ==
  ASSUME ExecutorInv, NEW x \in AttemptIds, DeadlinePasses(x)
  PROVE  ExecutorInv'
<1>1. TasksGrow(tasks, tasks)
  BY DEF TasksGrow, RowGrows
<1> QED
  BY <1>1, CallerStep DEF DeadlinePasses, ExecutorInv

-----------------------------------------------------------------------------
(* The steps of a runner that write nothing but its own state.             *)

\* A runner goes on within its operation, or to the fence of its failure.
LEMMA ProgressStep ==
  ASSUME ExecutorInv, NEW r \in Runners, exec[r].pc # "idle",
         NEW e \in Locals, Goto(r, e),
         UNCHANGED <<tasks, leases, evidence, published>>,
         e.at = exec[r].at, e.status = exec[r].status, e.ws = exec[r].ws,
         e.pc \in {"fence", "commit"} =>
           (exec[r].pc \in {"fence", "commit"} /\ e.to = exec[r].to) \/ e.to = "failed",
         e.pc = "timeout_commit" => e.to = "timed_out",
         FenceCovers /\ e.pc \in CommittingPcs => Committing(r) \/ Holds(r, exec[r].at)
  PROVE  ExecutorInv'
<1>1. LocalOK(exec[r], tasks, evidence, published)
  BY DEF ExecutorInv
<1>2. LocalOK(e, tasks, evidence, published)
  BY <1>1 DEF LocalOK
<1>3. FenceCovers /\ e.pc \in CommittingPcs => Holds(r, e.at)
  BY DEF ExecutorInv, FencesHold
<1> QED
  BY <1>2, <1>3, LocalStep

\* Back to polling, whatever the runner was doing.
LEMMA IdleStep ==
  ASSUME ExecutorInv, NEW r \in Runners, Goto(r, Idle),
         UNCHANGED <<tasks, leases, evidence, published>>
  PROVE  ExecutorInv'
<1>1. Idle \in Locals /\ Idle.pc = "idle"
  BY DEF Idle, Locals, ProgramCounters, Causes
<1> QED
  BY <1>1, LocalStep DEF LocalOK, CommittingPcs

\* Execute begins with the opening fence; a crash forgets everything but the
\* lease.
LEMMA StartStep ==
  ASSUME ExecutorInv, NEW r \in Runners, Start(r)
  PROVE  ExecutorInv'
<1>1. CASE Holds(r, exec[r].at)
  <2> DEFINE c == IF exec[r].at \in overdue THEN "deadline" ELSE "none"
             e == [exec[r] EXCEPT !.pc = "work", !.cause = c]
  <2>1. Goto(r, e) /\ exec[r].pc = "claimed" /\ exec[r] \in Locals
    BY <1>1 DEF Start, ExecutorInv
  <2>2. c \in Causes
    BY DEF Causes
  <2> HIDE DEF c
  <2>3. e \in Locals /\ e.pc = "work"
    BY <2>1, <2>2 DEF Locals, ProgramCounters
  <2>4. e.at = exec[r].at /\ e.status = exec[r].status /\ e.ws = exec[r].ws
    BY <2>1 DEF Locals
  <2> HIDE DEF e
  <2> QED
    BY <2>1, <2>3, <2>4, ProgressStep DEF Start, db, CommittingPcs
<1>2. CASE ~Holds(r, exec[r].at)
  BY <1>2, IdleStep DEF Start, db
<1> QED
  BY <1>1, <1>2

LEMMA CrashStep ==
  ASSUME ExecutorInv, NEW r \in Runners, Crash(r)
  PROVE  ExecutorInv'
BY IdleStep DEF Crash, db

\* The runner gives up or comes to the end of an operation.
LEMMA StopStep ==
  ASSUME ExecutorInv, NEW r \in Runners,
         \/ Abandon(r) \/ WorkErrors(r) \/ DriveReturns(r)
         \/ EndDrive(r) \/ TimeoutFails(r)
  PROVE  ExecutorInv'
<1>1. exec[r] \in Locals
  BY DEF ExecutorInv
<1>2. PICK e : /\ Goto(r, e) /\ e \in Locals
               /\ e.at = exec[r].at /\ e.status = exec[r].status /\ e.ws = exec[r].ws
               /\ e.pc \in {"driven", "timeout_fence", "settle"}
  <2>1. CASE Abandon(r) \/ WorkErrors(r)
    <3> DEFINE e == Errored(r)
    <3>1. Goto(r, e)
      BY <2>1 DEF Abandon, WorkErrors
    <3>2. /\ e \in Locals /\ e.pc = "driven"
          /\ e.at = exec[r].at /\ e.status = exec[r].status /\ e.ws = exec[r].ws
      BY <1>1 DEF Errored, Locals, ProgramCounters
    <3> QED
      BY <3>1, <3>2
  <2>2. CASE DriveReturns(r)
    <3> DEFINE e == [exec[r] EXCEPT !.pc = "driven"]
    <3>1. Goto(r, e)
      BY <2>2 DEF DriveReturns
    <3>2. /\ e \in Locals /\ e.pc = "driven"
          /\ e.at = exec[r].at /\ e.status = exec[r].status /\ e.ws = exec[r].ws
      BY <1>1 DEF Locals, ProgramCounters
    <3> QED
      BY <3>1, <3>2
  <2>3. CASE EndDrive(r)
    <3>1. PICK pc \in {"timeout_fence", "settle"}, err \in {exec[r].err, "lost"} :
            Goto(r, [exec[r] EXCEPT !.pc = pc, !.err = err])
      BY <1>1, <2>3 DEF EndDrive, Locals
    <3> DEFINE e == [exec[r] EXCEPT !.pc = pc, !.err = err]
    <3>2. /\ e \in Locals /\ e.pc = pc
          /\ e.at = exec[r].at /\ e.status = exec[r].status /\ e.ws = exec[r].ws
      BY <1>1 DEF Locals, ProgramCounters
    <3> QED
      BY <3>1, <3>2
  <2>4. CASE TimeoutFails(r)
    <3> DEFINE e == [exec[r] EXCEPT !.pc = "settle"]
    <3>1. Goto(r, e)
      BY <2>4 DEF TimeoutFails
    <3>2. /\ e \in Locals /\ e.pc = "settle"
          /\ e.at = exec[r].at /\ e.status = exec[r].status /\ e.ws = exec[r].ws
      BY <1>1 DEF Locals, ProgramCounters
    <3> QED
      BY <3>1, <3>2
  <2> QED
    BY <2>1, <2>2, <2>3, <2>4
<1>3. UNCHANGED <<tasks, leases, evidence, published>> /\ exec[r].pc # "idle"
  BY DEF Abandon, WorkErrors, DriveReturns, EndDrive, TimeoutFails, db
<1> QED
  BY <1>2, <1>3, ProgressStep DEF CommittingPcs

\* The context ends: the deadline, a cancelled task, a lost lease, a shutdown.
LEMMA ObserveStep ==
  ASSUME ExecutorInv, NEW r \in Runners, Observe(r) \/ Interrupted(r)
  PROVE  ExecutorInv'
<1>1. exec[r] \in Locals
  BY DEF ExecutorInv
<1>2. PICK lost \in BOOLEAN, cause \in Causes :
        Goto(r, [exec[r] EXCEPT !.lost = lost, !.cause = cause])
  <2>1. ASSUME NEW cause \in Causes, Goto(r, [exec[r] EXCEPT !.cause = cause])
        PROVE  Goto(r, [exec[r] EXCEPT !.lost = exec[r].lost, !.cause = cause])
    <3>1. [exec[r] EXCEPT !.cause = cause]
            = [exec[r] EXCEPT !.lost = exec[r].lost, !.cause = cause]
      BY <1>1 DEF Locals
    <3> QED
      BY <2>1, <3>1
  <2>2. CASE DeadlineFires(r) \/ WatchCancels(r) \/ Interrupted(r)
    <3>1. \E cause \in Causes : Goto(r, [exec[r] EXCEPT !.cause = cause])
      BY <2>2 DEF DeadlineFires, WatchCancels, Interrupted, Causes
    <3> QED
      BY <1>1, <2>1, <3>1 DEF Locals
  <2>3. CASE HeartbeatLost(r)
    <3> DEFINE c == IF exec[r].cause = "none" THEN "stopped" ELSE exec[r].cause
    <3>1. [exec[r] EXCEPT !.lost = TRUE, !.cause = IF @ = "none" THEN "stopped" ELSE @]
            = [exec[r] EXCEPT !.lost = TRUE, !.cause = c]
      BY <1>1 DEF Locals
    <3>2. c \in Causes
      BY <1>1 DEF Locals, Causes
    <3> HIDE DEF c
    <3>3. Goto(r, [exec[r] EXCEPT !.lost = TRUE, !.cause = c])
      BY <2>3, <3>1 DEF HeartbeatLost
    <3> QED
      BY <3>2, <3>3
  <2> QED
    BY <2>2, <2>3 DEF Observe
<1> DEFINE e == [exec[r] EXCEPT !.lost = lost, !.cause = cause]
<1>3. /\ e \in Locals /\ e.pc = exec[r].pc /\ e.to = exec[r].to
      /\ e.at = exec[r].at /\ e.status = exec[r].status /\ e.ws = exec[r].ws
  BY <1>1 DEF Locals
<1> HIDE DEF e
<1>4. UNCHANGED <<tasks, leases, evidence, published>> /\ Driving(r)
  BY DEF Observe, DeadlineFires, WatchCancels, HeartbeatLost, Interrupted, db
<1> QED
  BY <1>2, <1>3, <1>4, ProgressStep DEF e, Driving, CommittingPcs, Committing

\* A fence: under a live lease of its own the runner goes on, else it stops.
LEMMA FenceStep ==
  ASSUME ExecutorInv, NEW r \in Runners, Fence(r) \/ TimeoutFence(r) \/ Settle(r)
  PROVE  ExecutorInv'
<1>1. exec[r] \in Locals
  BY DEF ExecutorInv
<1>2. UNCHANGED <<tasks, leases, evidence, published>> /\ exec[r].pc # "idle"
  BY DEF Fence, TimeoutFence, Settle, db
<1>3. ASSUME NEW pc \in {"commit", "timeout_read", "release"}, Fenced(r, pc),
             pc = "commit" => exec[r].pc = "fence"
      PROVE  ExecutorInv'
  <2> DEFINE e == [exec[r] EXCEPT !.pc = pc]
  <2>1. Goto(r, e) /\ Holds(r, exec[r].at)
    BY <1>3 DEF Fenced
  <2>2. /\ e \in Locals /\ e.pc = pc /\ e.to = exec[r].to
        /\ e.at = exec[r].at /\ e.status = exec[r].status /\ e.ws = exec[r].ws
    BY <1>1 DEF Locals, ProgramCounters
  <2> HIDE DEF e
  <2> QED
    BY <1>2, <1>3, <2>1, <2>2, ProgressStep
<1>4. ASSUME NEW pc \in {"driven", "settle"}, FenceRefused(r, pc)
      PROVE  ExecutorInv'
  <2> DEFINE e == [exec[r] EXCEPT !.pc = pc, !.lost = TRUE, !.err = "lost"]
  <2>1. Goto(r, e)
    BY <1>4 DEF FenceRefused
  <2>2. /\ e \in Locals /\ e.pc = pc
        /\ e.at = exec[r].at /\ e.status = exec[r].status /\ e.ws = exec[r].ws
    BY <1>1 DEF Locals, ProgramCounters
  <2> HIDE DEF e
  <2> QED
    BY <1>2, <2>1, <2>2, ProgressStep DEF CommittingPcs
<1>5. CASE Fence(r)
  BY <1>3, <1>4, <1>5 DEF Fence
<1>6. CASE TimeoutFence(r)
  BY <1>3, <1>4, <1>6 DEF TimeoutFence
<1>7. CASE Settle(r)
  <2>1. Goto(r, Idle) \/ Fenced(r, "release") \/ FenceRefused(r, "settle")
    BY <1>7 DEF Settle
  <2>2. CASE Goto(r, Idle)
    BY <1>2, <2>2, IdleStep
  <2> QED
    BY <1>3, <1>4, <2>1, <2>2
<1> QED
  BY <1>5, <1>6, <1>7

\* timeoutTask reads the row; a stage that fails goes to the fence of its
\* failure.
LEMMA TimeoutReadStep ==
  ASSUME ExecutorInv, NEW r \in Runners, TimeoutRead(r)
  PROVE  ExecutorInv'
<1> DEFINE pc == IF Terminal(tasks[exec[r].at[1]].status) THEN "settle" ELSE "timeout_commit"
           e == [exec[r] EXCEPT !.to = "timed_out", !.pc = pc]
<1>1. Goto(r, e) /\ exec[r] \in Locals /\ exec[r].pc = "timeout_read"
  BY DEF TimeoutRead, ExecutorInv
<1>2. pc \in {"settle", "timeout_commit"}
  OBVIOUS
<1> HIDE DEF pc
<1>3. /\ e \in Locals /\ e.pc = pc /\ e.to = "timed_out"
      /\ e.at = exec[r].at /\ e.status = exec[r].status /\ e.ws = exec[r].ws
  BY <1>1, <1>2 DEF Locals, ProgramCounters
<1> HIDE DEF e
<1>4. UNCHANGED <<tasks, leases, evidence, published>>
  BY DEF TimeoutRead, db
<1> QED
  BY <1>1, <1>2, <1>3, <1>4, ProgressStep DEF Committing

LEMMA WorkFailsStep ==
  ASSUME ExecutorInv, NEW r \in Runners, WorkFails(r)
  PROVE  ExecutorInv'
<1> DEFINE e == [exec[r] EXCEPT !.pc = "fence", !.to = "failed"]
<1>1. Goto(r, e) /\ exec[r] \in Locals /\ exec[r].pc = "work"
  BY DEF WorkFails, ExecutorInv
<1>2. /\ e \in Locals /\ e.pc = "fence" /\ e.to = "failed"
      /\ e.at = exec[r].at /\ e.status = exec[r].status /\ e.ws = exec[r].ws
  BY <1>1 DEF Locals, ProgramCounters
<1> HIDE DEF e
<1>3. UNCHANGED <<tasks, leases, evidence, published>>
  BY DEF WorkFails, db
<1> QED
  BY <1>1, <1>2, <1>3, ProgressStep DEF CommittingPcs

-----------------------------------------------------------------------------
(* The steps that take or give up a lease.                                 *)

\* The lease of an attempt nobody is committing under changes hands, and the
\* runner that takes it or gives it up is outside any fenced operation.
LEMMA LeaseStep ==
  ASSUME ExecutorInv, NEW r \in Runners, NEW e \in Locals, Goto(r, e),
         e.pc \notin CommittingPcs, NEW x \in AttemptIds,
         NEW l \in [owner : Runners \cup {NoRunner}, live : BOOLEAN],
         leases' = [leases EXCEPT ![x] = l],
         ~leases[x].live \/ leases[x].owner = r,
         UNCHANGED <<tasks, evidence, published>>,
         LocalOK(e, tasks, evidence, published)
  PROVE  ExecutorInv'
<1>1. /\ exec' \in [Runners -> Locals] /\ exec'[r] = e
      /\ \A q \in Runners : q # r => exec'[q] = exec[q]
  BY DEF Goto, ExecutorInv
<1>2. leases' \in LeaseTable /\ \A y \in AttemptIds : y # x => leases'[y] = leases[y]
  BY DEF ExecutorInv, LeaseTable
<1>3. ASSUME NEW q \in Runners
      PROVE  LocalOK(exec'[q], tasks, evidence, published)
  BY <1>1 DEF ExecutorInv
<1>4. ASSUME FenceCovers, NEW q \in Runners, Committing(q)'
      PROVE  Holds(q, exec[q].at)'
  <2>1. q # r /\ exec'[q] = exec[q]
    BY <1>1, <1>4 DEF Committing, CommittingPcs
  <2>2. Holds(q, exec[q].at) /\ exec[q].at \in AttemptIds
    BY <1>4, <2>1 DEF Committing, ExecutorInv, FencesHold, LocalOK
  <2>3. exec[q].at # x
    BY <2>1, <2>2 DEF Holds
  <2> QED
    BY <1>2, <2>1, <2>2, <2>3 DEF Holds
<1>5. TasksInv(tasks', evidence', published')
  BY DEF ExecutorInv
<1> QED
  BY <1>1, <1>2, <1>3, <1>4, <1>5 DEF ExecutorInv, FencesHold

\* The lease nobody has.
LEMMA NoLeaseIsALease ==
  NoLease \in [owner : Runners \cup {NoRunner}, live : BOOLEAN]
BY DEF NoLease

\* A claim takes a lease that is nobody's.
LEMMA ClaimStep ==
  ASSUME ExecutorInv, NEW r \in Runners, NEW t \in DOMAIN tasks, Claim(r, t)
  PROVE  ExecutorInv'
<1> DEFINE a == ActiveAttempt(tasks[t])
           x == <<t, a>>
           l == [owner |-> r, live |-> TRUE]
           e == [Idle EXCEPT !.pc = "claimed", !.at = x, !.status = tasks[t].status]
<1>1. /\ ~leases[x].live /\ Claimable(t) /\ ActiveAttempts(tasks[t]) # {}
      /\ leases' = [leases EXCEPT ![x] = l] /\ Goto(r, e)
      /\ UNCHANGED <<tasks, evidence, published>>
  BY DEF Claim
<1>2. t \in TaskIds /\ RowInv(t, tasks[t], evidence, published)
  BY DEF ExecutorInv, TasksInv
<1>3. a \in DOMAIN tasks[t].attempts
  BY <1>1 DEF ActiveAttempt, ActiveAttempts
<1>4. a \in 1..MaxAttempts
  <2> HIDE DEF a
  <2> QED
    BY <1>2, <1>3, RowDomains, ExecutorAssumption DEF RowInv
<1> HIDE DEF a
<1>5. x \in AttemptIds
  BY <1>2, <1>4 DEF AttemptIds
<1>6. tasks[t].status \in Statuses
  BY <1>1 DEF Claimable, Statuses, Stages, PhaseRunning
<1>7. l \in [owner : Runners \cup {NoRunner}, live : BOOLEAN]
  OBVIOUS
<1>8. x[1] = t /\ x[2] = a
  OBVIOUS
<1> HIDE DEF x
<1>9. Idle \in Locals /\ Idle.ws = "none"
  BY DEF Idle, Locals, ProgramCounters, Causes
<1> DEFINE Claimed(i, y, s) == [i EXCEPT !.pc = "claimed", !.at = y, !.status = s]
<1>10. ASSUME NEW i \in Locals, NEW s \in Statuses, NEW y \in AttemptIds
       PROVE  LET c == Claimed(i, y, s)
              IN c \in Locals /\ c.pc = "claimed" /\ c.at = y /\ c.status = s /\ c.ws = i.ws
  BY <1>10 DEF Locals, ProgramCounters
<1>11. "none" \notin Statuses
  BY DEF Statuses, Stages
<1>12. e \in Locals /\ e.pc = "claimed" /\ e.at = x /\ e.status # "none" /\ e.ws = "none"
  <2>1. e = Claimed(Idle, x, tasks[t].status)
    OBVIOUS
  <2> HIDE DEF e, Claimed
  <2> QED
    BY <1>5, <1>6, <1>9, <1>10, <1>11, <2>1
<1> HIDE DEF e
<1>13. LocalOK(e, tasks, evidence, published)
  BY <1>3, <1>5, <1>8, <1>12 DEF LocalOK
<1> QED
  BY <1>1, <1>5, <1>7, <1>12, <1>13, LeaseStep DEF CommittingPcs

\* The runner forgets the attempt; the lease is its own when it is given up.
LEMMA ReleaseStep ==
  ASSUME ExecutorInv, NEW r \in Runners, StartFails(r) \/ Release(r)
  PROVE  ExecutorInv'
<1>1. /\ Goto(r, Idle) /\ exec[r].pc # "idle"
      /\ UNCHANGED <<tasks, evidence, published>>
  BY DEF StartFails, Release
<1>2. exec[r].at \in AttemptIds
  BY <1>1 DEF ExecutorInv, LocalOK
<1>3. \/ leases' = leases
      \/ /\ leases[exec[r].at].owner = r
         /\ leases' = [leases EXCEPT ![exec[r].at] = NoLease]
  BY DEF StartFails, Release
<1>4. CASE leases' = leases
  BY <1>1, <1>4, IdleStep
<1>5. CASE /\ leases[exec[r].at].owner = r
           /\ leases' = [leases EXCEPT ![exec[r].at] = NoLease]
  <2>1. Idle \in Locals /\ Idle.pc = "idle"
    BY DEF Idle, Locals, ProgramCounters, Causes
  <2>2. LocalOK(Idle, tasks, evidence, published) /\ Idle.pc \notin CommittingPcs
    BY <2>1 DEF LocalOK, CommittingPcs
  <2> QED
    BY <1>1, <1>2, <1>5, <2>1, <2>2, NoLeaseIsALease, LeaseStep
<1> QED
  BY <1>3, <1>4, <1>5

-----------------------------------------------------------------------------
(* The steps that write to the task.                                       *)

\* What is known of a runner that is not polling.
LEMMA ExecutingMeans ==
  ASSUME ExecutorInv, NEW r \in Runners, exec[r].pc # "idle"
  PROVE  LET e == exec[r]
             t == e.at[1]
         IN /\ e \in Locals /\ LocalOK(e, tasks, evidence, published)
            /\ e.at \in AttemptIds /\ e.at = <<t, e.at[2]>>
            /\ t \in DOMAIN tasks /\ t \in TaskIds
            /\ e.at[2] \in DOMAIN tasks[t].attempts
            /\ RowInv(t, tasks[t], evidence, published)
BY DEF ExecutorInv, TasksInv, LocalOK, AttemptIds

\* A write to the row of the runner's task.
LEMMA WriteStep ==
  ASSUME ExecutorInv, NEW r \in Runners, exec[r].pc # "idle", NEW e \in Locals, Goto(r, e),
         NEW s, Store!Put(exec[r].at[1], s), UNCHANGED <<leases, evidence, published>>,
         RowInv(exec[r].at[1], s, evidence, published), RowGrows(tasks[exec[r].at[1]], s),
         e.pc \notin {"fence", "commit", "timeout_read", "timeout_commit"},
         e.at = exec[r].at, e.status # "none",
         e.ws = "context" => s.base # NoValue
  PROVE  ExecutorInv'
<1> DEFINE t == exec[r].at[1]
<1>1. /\ LocalOK(exec[r], tasks, evidence, published)
      /\ e.at \in AttemptIds /\ t \in DOMAIN tasks /\ t \in TaskIds
      /\ e.at[2] \in DOMAIN tasks[t].attempts
  BY ExecutingMeans
<1>2. TasksInv(tasks', evidence, published) /\ TasksGrow(tasks, tasks')
  BY <1>1, PutKeeps DEF ExecutorInv
<1>3. t \in DOMAIN tasks' /\ tasks'[t] = s
  BY DEF Store!Put
<1>4. e.at[2] \in DOMAIN s.attempts
  BY <1>1 DEF RowGrows
<1>5. LocalOK(e, tasks', evidence, published)
  BY <1>1, <1>3, <1>4 DEF LocalOK
<1> QED
  BY <1>2, <1>5, RunnerStep DEF CommittingPcs

\* EnsureGitContext and RecordAttemptBase.
LEMMA ProvisionStep ==
  ASSUME ExecutorInv, NEW r \in Runners, Provision(r)
  PROVE  ExecutorInv'
<1> DEFINE t == exec[r].at[1]
<1>1. /\ exec[r].pc = "work" /\ UNCHANGED <<leases, evidence, published>>
      /\ exec[r] \in Locals /\ t \in DOMAIN tasks
      /\ RowInv(t, tasks[t], evidence, published)
      /\ exec[r].status # "none"
  BY ExecutingMeans DEF Provision, LocalOK
<1>2. CASE Publishes(t) /\ exec[r].at[2] = 1
  <2> DEFINE e == [exec[r] EXCEPT !.ws = "context"]
  <2>1. Goto(r, e) /\ \E v \in Values : Store!EnsureGitContext(t, v, v)
    BY <1>2 DEF Provision
  <2>2. PICK v \in Values : Store!EnsureGitContext(t, v, v)
    BY <2>1
  <2> DEFINE s == Store!EnsuredRow(tasks[t], v, v)
  <2>3. Store!Put(t, s)
    BY <2>2 DEF Store!EnsureGitContext
  <2>4. /\ RowInv(t, s, evidence, published) /\ RowGrows(tasks[t], s)
        /\ s.base # NoValue
    BY <1>1, EnsureKeeps
  <2>5. e \in Locals /\ e.pc = "work" /\ e.at = exec[r].at /\ e.status = exec[r].status
    BY <1>1 DEF Locals
  <2> HIDE DEF s, e
  <2> QED
    BY <1>1, <2>1, <2>3, <2>4, <2>5, WriteStep
<1>3. CASE ~(Publishes(t) /\ exec[r].at[2] = 1)
  <2> DEFINE e == [exec[r] EXCEPT !.ws = "ready"]
  <2>1. Goto(r, e) /\ UNCHANGED tasks
    BY <1>3 DEF Provision
  <2>2. e \in Locals /\ e.pc = "work" /\ e.at = exec[r].at /\ e.status = exec[r].status
        /\ e.ws = "ready"
    BY <1>1 DEF Locals
  <2> HIDE DEF e
  <2>3. LocalOK(e, tasks, evidence, published)
    BY <1>1, <2>2, ExecutingMeans DEF LocalOK
  <2> QED
    BY <1>1, <2>1, <2>2, <2>3, LocalStep DEF CommittingPcs
<1> QED
  BY <1>2, <1>3

LEMMA RecordBaseStep ==
  ASSUME ExecutorInv, NEW r \in Runners, RecordBase(r)
  PROVE  ExecutorInv'
<1> DEFINE t == exec[r].at[1]
           a == exec[r].at[2]
           e == [exec[r] EXCEPT !.ws = "ready"]
           s == Store!AttemptBaseRow(tasks[t], a, tasks[t].base)
<1>1. /\ exec[r].pc = "work" /\ UNCHANGED <<leases, evidence, published>>
      /\ exec[r] \in Locals /\ t \in DOMAIN tasks
      /\ RowInv(t, tasks[t], evidence, published) /\ a \in DOMAIN tasks[t].attempts
      /\ exec[r].status # "none"
  BY ExecutingMeans DEF RecordBase, LocalOK
<1>2. Goto(r, e) /\ Store!Put(t, s)
  BY DEF RecordBase, Store!RecordAttemptBase
<1>3. RowInv(t, s, evidence, published) /\ RowGrows(tasks[t], s)
  BY <1>1, AttemptBaseKeeps
<1>4. /\ e \in Locals /\ e.pc = "work" /\ e.at = exec[r].at /\ e.status = exec[r].status
      /\ e.ws = "ready"
  BY <1>1 DEF Locals
<1> HIDE DEF s, e
<1> QED
  BY <1>1, <1>2, <1>3, <1>4, WriteStep

\* The work of a stage: what it reports and publishes is there before the
\* transition it makes due.
LEMMA WorkStep ==
  ASSUME ExecutorInv, NEW r \in Runners, Work(r)
  PROVE  ExecutorInv'
<1> DEFINE t == exec[r].at[1]
           e == [exec[r] EXCEPT !.pc = "fence", !.to = NextStatus(exec[r].status)]
<1>1. /\ exec[r] \in Locals /\ LocalOK(exec[r], tasks, evidence, published)
      /\ exec[r].pc = "work" /\ exec[r].status # "none"
      /\ t \in DOMAIN tasks /\ t \in TaskIds /\ exec[r].at \in AttemptIds
      /\ exec[r].at[2] \in DOMAIN tasks[t].attempts
      /\ RowInv(t, tasks[t], evidence, published)
  BY ExecutingMeans DEF Work, LocalOK
<1>2. /\ Goto(r, e) /\ UNCHANGED leases /\ ~DriveDone(exec[r])
      /\ evidence' = Evidenced(exec[r]) /\ published' = PublishedNow(exec[r])
  BY DEF Work
<1>3. evidence \subseteq evidence' /\ published \subseteq published'
  BY <1>2 DEF Evidenced, PublishedNow
<1>4. exec[r].status \in {"queued"} \cup Stages
  BY <1>1, <1>2 DEF DriveDone, Locals, Statuses
<1>5. /\ NextStatus(exec[r].status) \in {"completed"} \cup Stages
      /\ NextStatus(exec[r].status) = "publishing" => exec[r].status = "validating"
      /\ NextStatus(exec[r].status) = "awaiting_review" => exec[r].status = "publishing"
  BY <1>4 DEF NextStatus, Stages
<1>6. /\ e \in Locals /\ e.pc = "fence" /\ e.at = exec[r].at /\ e.ws = exec[r].ws
      /\ e.status = exec[r].status /\ e.to = NextStatus(exec[r].status)
  BY <1>1, <1>5 DEF Locals, ProgramCounters, Statuses
<1> HIDE DEF e
<1>7. \/ UNCHANGED tasks
      \/ Store!Put(t, Store!insertEvent(tasks[t], exec[r].at[2], "none", "note", NoKey))
  BY DEF Work, StageEvents, Store!AppendAttemptEvent
<1>8. TasksInv(tasks', evidence, published) /\ TasksGrow(tasks, tasks')
  <2>1. CASE UNCHANGED tasks
    BY <2>1, TasksKept DEF ExecutorInv
  <2>2. CASE Store!Put(t, Store!insertEvent(tasks[t], exec[r].at[2], "none", "note", NoKey))
    <3> DEFINE s == Store!insertEvent(tasks[t], exec[r].at[2], "none", "note", NoKey)
    <3>1. RowInv(t, s, evidence, published) /\ RowGrows(tasks[t], s) /\ Store!Put(t, s)
      BY <1>1, <2>2, NoteKeeps
    <3> HIDE DEF s
    <3> QED
      BY <1>1, <3>1, PutKeeps DEF ExecutorInv
  <2> QED
    BY <1>7, <2>1, <2>2
<1>9. TasksInv(tasks', evidence', published')
  BY <1>3, <1>8, TasksKept
<1>10. LocalOK(exec[r], tasks', evidence', published')
  BY <1>1, <1>3, <1>8, LocalKept
<1>11. LocalOK(e, tasks', evidence', published')
  <2>1. e.to = "publishing" => e.at \in evidence'
    BY <1>2, <1>5, <1>6 DEF Evidenced
  <2>2. e.to = "awaiting_review" /\ Publishes(e.at[1]) => e.at \in published'
    BY <1>2, <1>5, <1>6 DEF PublishedNow
  <2> QED
    BY <1>1, <1>5, <1>6, <1>10, <2>1, <2>2 DEF LocalOK
<1> QED
  BY <1>2, <1>3, <1>6, <1>8, <1>9, <1>11, RunnerStep DEF CommittingPcs

\* A runner's keys are keys of the store, and never the empty one.
LEMMA RunnerKeyOK ==
  ASSUME NEW x \in AttemptIds, NEW to \in {"completed", "failed", "timed_out"} \cup Stages
  PROVE  <<x, to>> \in RunnerKeys /\ <<x, to>> # NoKey
<1>1. <<x, to>> \in RunnerKeys
  BY DEF RunnerKeys, Stages, PhaseRunning, PhaseTerminal
<1> QED
  BY <1>1, NoKeyAssumption

\* A stage's transition, or its failure, as the store applies it.
LEMMA CommitRow ==
  ASSUME ExecutorInv, NEW r \in Runners, exec[r].pc = "commit",
         Store!Transition(exec[r].at[1], exec[r].to, Key(r), 0)
  PROVE  \E s :
           /\ Store!Put(exec[r].at[1], s)
           /\ RowInv(exec[r].at[1], s, evidence, published)
           /\ RowGrows(tasks[exec[r].at[1]], s)
           /\ s.status = exec[r].to
           /\ Len(s.attempts) = Len(tasks[exec[r].at[1]].attempts)
           /\ exec[r].to \in Stages => exec[r].at[2] = Len(s.attempts)
<1> DEFINE t == exec[r].at[1]
           a == exec[r].at[2]
           to == exec[r].to
           key == Key(r)
           s == Store!applyTransition(tasks[t], Store!Params(to, key, 0))
<1>1. /\ Store!TransitionOutcome(tasks[t], Store!Params(to, key, 0)) = "applied"
      /\ Store!Put(t, s) /\ s = Store!applyTransition(tasks[t], Store!Params(to, key, 0))
  BY DEF Store!Transition
<1>2. /\ exec[r].at = <<t, a>> /\ exec[r].at \in AttemptIds
      /\ a \in DOMAIN tasks[t].attempts
      /\ RowInv(t, tasks[t], evidence, published)
      /\ to \in {"completed", "failed"} \cup Stages
      /\ to = "publishing" => <<t, a>> \in evidence
      /\ to = "awaiting_review" /\ Publishes(t) => <<t, a>> \in published
  BY ExecutingMeans DEF LocalOK
<1>3. key = <<<<t, a>>, to>> /\ key # NoKey
  BY <1>2, RunnerKeyOK DEF Key
<1> HIDE DEF s, t, a, to, key
<1>4. /\ RowInv(t, s, evidence, published) /\ RowGrows(tasks[t], s)
      /\ to \in Stages => a = Len(tasks[t].attempts)
  <2>1. CASE to \in PhaseTerminal
    <3>1. to \notin Stages
      BY <2>1 DEF PhaseTerminal, Stages
    <3> QED
      BY <1>1, <1>2, <2>1, <3>1, EndKeeps
  <2>2. CASE to \notin PhaseTerminal
    <3>1. to \in Stages
      BY <1>2, <2>2 DEF PhaseTerminal
    <3>2. StageMove(t, a, to, tasks[t], s, evidence, published)
      BY <1>1, <1>2, <1>3, <3>1 DEF StageMove
    <3>3. /\ RowInv(t, s, evidence, published) /\ RowGrows(tasks[t], s)
          /\ a = Len(tasks[t].attempts)
      BY <3>2, StageKeeps
    <3> QED
      BY <3>3
  <2> QED
    BY <2>1, <2>2
<1>5. s.status = to /\ Len(s.attempts) = Len(tasks[t].attempts)
  <2>1. to \in Store!AllStatuses /\ to # "queued"
    BY <1>2 DEF Stages, Store!AllStatuses, Store!PhaseRunning, Store!PhaseReview,
                Store!PhaseTerminal
  <2> QED
    BY <1>1, <1>2, <2>1, MovedRow DEF RowInv
<1>6. /\ Store!Put(t, s)
      /\ RowInv(t, s, evidence, published) /\ RowGrows(tasks[t], s)
      /\ s.status = to /\ Len(s.attempts) = Len(tasks[t].attempts)
      /\ to \in Stages => a = Len(s.attempts)
  BY <1>1, <1>4, <1>5
<1> QED
  BY <1>6 DEF t, a, to

\* And with it the task store.
LEMMA CommitApplies ==
  ASSUME ExecutorInv, NEW r \in Runners, exec[r].pc = "commit",
         Store!Transition(exec[r].at[1], exec[r].to, Key(r), 0)
  PROVE  TasksInv(tasks', evidence, published) /\ TasksGrow(tasks, tasks')
BY CommitRow, ExecutingMeans, PutKeeps DEF ExecutorInv

\* Whether a commit lands or not, and whatever the runner is told of it.
LEMMA CommitStep ==
  ASSUME ExecutorInv, NEW r \in Runners, Commit(r) \/ CommitCut(r) \/ CommitFails(r)
  PROVE  ExecutorInv'
<1>1. exec[r].pc = "commit" /\ UNCHANGED <<leases, evidence, published>>
  BY DEF Commit, CommitCut, CommitFails, CommitUnknown
<1>2. TasksInv(tasks', evidence, published) /\ TasksGrow(tasks, tasks')
  <2>1. UNCHANGED tasks \/ Store!Transition(exec[r].at[1], exec[r].to, Key(r), 0)
    BY DEF Commit, CommitCut, CommitFails, CommitUnknown
  <2>2. CASE UNCHANGED tasks
    BY <2>2, TasksKept DEF ExecutorInv
  <2> QED
    BY <1>1, <2>1, <2>2, CommitApplies
<1>3. exec[r] \in Locals /\ LocalOK(exec[r], tasks', evidence, published)
  BY <1>1, <1>2, ExecutingMeans, LocalKept
<1>4. PICK e : /\ Goto(r, e) /\ e \in Locals
               /\ e.at = exec[r].at /\ e.status # "none" /\ e.ws = exec[r].ws
               /\ e.pc \in {"driven", "work"}
  <2>1. Goto(r, Errored(r)) \/ Goto(r, Acknowledged(r))
    BY DEF Commit, CommitCut, CommitFails, CommitUnknown
  <2>2. exec[r].status # "none" /\ exec[r].to \in {"completed", "failed"} \cup Stages
    BY <1>1, <1>3 DEF LocalOK
  <2>3. CASE Goto(r, Errored(r))
    <3>1. /\ Errored(r) \in Locals /\ Errored(r).pc = "driven"
          /\ Errored(r).at = exec[r].at /\ Errored(r).status # "none"
          /\ Errored(r).ws = exec[r].ws
      BY <1>3, <2>2 DEF Errored, Locals, ProgramCounters
    <3> QED
      BY <2>3, <3>1
  <2>4. CASE Goto(r, Acknowledged(r)) /\ exec[r].to = "failed"
    <3> DEFINE e == [exec[r] EXCEPT !.pc = "driven", !.err = "failed"]
    <3>1. Goto(r, e)
      BY <2>4 DEF Acknowledged
    <3>2. /\ e \in Locals /\ e.pc = "driven"
          /\ e.at = exec[r].at /\ e.status # "none" /\ e.ws = exec[r].ws
      BY <1>3, <2>2 DEF Locals, ProgramCounters
    <3> QED
      BY <3>1, <3>2
  <2>5. CASE Goto(r, Acknowledged(r)) /\ exec[r].to # "failed"
    <3> DEFINE e == [exec[r] EXCEPT !.pc = "work", !.status = exec[r].to]
    <3>1. Goto(r, e)
      BY <2>5 DEF Acknowledged
    <3>2. exec[r].to \in Statuses /\ exec[r].to # "none"
      BY <2>2, <2>5 DEF Statuses, Stages
    <3>3. /\ e \in Locals /\ e.pc = "work"
          /\ e.at = exec[r].at /\ e.status # "none" /\ e.ws = exec[r].ws
      BY <1>3, <3>2 DEF Locals, ProgramCounters
    <3> QED
      BY <3>1, <3>3
  <2> QED
    BY <2>1, <2>3, <2>4, <2>5
<1>5. LocalOK(e, tasks', evidence, published)
  BY <1>1, <1>3, <1>4 DEF LocalOK
<1> QED
  BY <1>1, <1>2, <1>4, <1>5, RunnerStep DEF CommittingPcs

\* The transition of timeoutTask.
LEMMA TimeoutCommitStep ==
  ASSUME ExecutorInv, NEW r \in Runners, TimeoutCommit(r)
  PROVE  ExecutorInv'
<1> DEFINE t == exec[r].at[1]
           e == [exec[r] EXCEPT !.pc = "settle"]
           p == Store!Params("timed_out", Key(r), 0)
           s == Store!applyTransition(tasks[t], p)
<1>1. /\ exec[r].pc = "timeout_commit" /\ Goto(r, e)
      /\ UNCHANGED <<leases, evidence, published>>
  BY DEF TimeoutCommit
<1>2. /\ exec[r] \in Locals /\ LocalOK(exec[r], tasks, evidence, published)
      /\ t \in DOMAIN tasks /\ t \in TaskIds /\ RowInv(t, tasks[t], evidence, published)
  BY <1>1, ExecutingMeans
<1>3. /\ e \in Locals /\ e.pc = "settle" /\ e.at = exec[r].at
      /\ e.status = exec[r].status /\ e.ws = exec[r].ws
  BY <1>2 DEF Locals, ProgramCounters
<1> HIDE DEF e
<1>4. UNCHANGED tasks \/ (Store!TransitionOutcome(tasks[t], p) = "applied" /\ Store!Put(t, s))
  BY DEF TimeoutCommit, Store!Transition
<1>5. CASE UNCHANGED tasks
  BY <1>1, <1>2, <1>3, <1>5, ProgressStep DEF CommittingPcs
<1>6. CASE Store!TransitionOutcome(tasks[t], p) = "applied" /\ Store!Put(t, s)
  <2>1. RowInv(t, s, evidence, published) /\ RowGrows(tasks[t], s)
    BY <1>2, <1>6, EndKeeps DEF PhaseTerminal
  <2> HIDE DEF s
  <2>2. TasksInv(tasks', evidence, published) /\ TasksGrow(tasks, tasks')
    BY <1>2, <1>6, <2>1, PutKeeps DEF ExecutorInv
  <2>3. LocalOK(exec[r], tasks', evidence, published)
    BY <1>2, <2>2, LocalKept
  <2>4. LocalOK(e, tasks', evidence, published)
    BY <1>1, <1>3, <2>3 DEF LocalOK
  <2> QED
    BY <1>1, <1>3, <2>2, <2>4, RunnerStep DEF CommittingPcs
<1> QED
  BY <1>4, <1>5, <1>6

-----------------------------------------------------------------------------
(* The invariant.                                                          *)

\* No task has been created and no runner has begun.
LEMMA InitInv == Init => ExecutorInv
<1> SUFFICES ASSUME Init PROVE ExecutorInv
  OBVIOUS
<1>1. TasksInv(tasks, evidence, published)
  BY DEF Init, TasksInv
<1>2. leases \in LeaseTable
  BY NoLeaseIsALease DEF Init, LeaseTable
<1>3. Idle \in Locals /\ Idle.pc = "idle"
  BY DEF Idle, Locals, ProgramCounters, Causes
<1>4. exec \in [Runners -> Locals] /\ \A r \in Runners : exec[r].pc = "idle"
  BY <1>3 DEF Init
<1> QED
  BY <1>1, <1>2, <1>4 DEF ExecutorInv, LocalOK, FencesHold, Committing

LEMMA RunStep ==
  ASSUME ExecutorInv, NEW r \in Runners, Run(r)
  PROVE  ExecutorInv'
BY ClaimStep, StartStep, ProvisionStep, RecordBaseStep, WorkStep, StopStep, FenceStep,
   CommitStep, TimeoutReadStep, TimeoutCommitStep, ReleaseStep DEF Run

LEMMA DisturbStep ==
  ASSUME ExecutorInv, NEW r \in Runners, Disturb(r)
  PROVE  ExecutorInv'
BY ReleaseStep, WorkFailsStep, StopStep, CommitStep, ObserveStep, CrashStep DEF Disturb

LEMMA StutterStep == ExecutorInv /\ UNCHANGED vars => ExecutorInv'
<1> SUFFICES ASSUME ExecutorInv, UNCHANGED vars PROVE ExecutorInv'
  OBVIOUS
<1>1. TasksInv(tasks', evidence, published) /\ TasksGrow(tasks, tasks')
  BY TasksKept DEF ExecutorInv, vars
<1> QED
  BY <1>1, CallerStep DEF vars

LEMMA NextInv == ExecutorInv /\ [Next]_vars => ExecutorInv'
<1> SUFFICES ASSUME ExecutorInv, [Next]_vars PROVE ExecutorInv'
  OBVIOUS
<1>1. CASE \E t \in TaskIds : CreateTask(t)
  BY <1>1, CreateTaskStep
<1>2. CASE \E t \in DOMAIN tasks :
             \/ ApiCancel(t)
             \/ \E key \in Keys : Revise(t, key)
             \/ \E to \in {"completed", "cancelled"} : PullRequestClosed(t, to)
  BY <1>2, ApiCancelStep, ReviseStep, PullRequestClosedStep
<1>3. CASE \E x \in AttemptIds : ExpireLease(x) \/ LeaseLapses(x) \/ DeadlinePasses(x)
  BY <1>3, ExpiryStep, DeadlinePassesStep
<1>4. CASE \E r \in Runners : Run(r) \/ Observe(r) \/ Disturb(r)
  BY <1>4, RunStep, ObserveStep, DisturbStep
<1>5. CASE UNCHANGED vars
  BY <1>5, StutterStep
<1> QED
  BY <1>1, <1>2, <1>3, <1>4, <1>5 DEF Next

\* runner/executor.go and runner/store.go: whatever callers, crashes, lost
\* acknowledgements and expiries come between a runner's calls, the rows it
\* drives, its snapshot of them and the leases it works under stay consistent.
THEOREM ExecutorInvariant == Spec => []ExecutorInv
<1>1. Init => ExecutorInv
  BY InitInv
<1>2. ExecutorInv /\ [Next]_vars => ExecutorInv'
  BY NextInv
<1> QED
  BY <1>1, <1>2, PTL DEF Spec

\* runner/executor.go, runAgentStages and drive: no owner, original, recovered or
\* stalled, lets an attempt reach publishing without its evidence report, or a
\* repository task wait for review without a pull request for its newest attempt.
THEOREM StagesAreNotSkipped == Spec => []NoStageSkipped
<1>1. ExecutorInv => NoStageSkipped
  BY DEF ExecutorInv, TasksInv, RowInv, StagesOf, NoStageSkipped,
         EvidenceBeforePublishing, PublishedBeforeReview
<1> QED
  BY <1>1, ExecutorInvariant, PTL

\* runner/executor.go, fenceLeaseOwnership: where operations end within the lease
\* their fence renewed, each of two runners inside a fenced operation on one
\* attempt would be the owner in that attempt's lease.
THEOREM CommittersAreAlone ==
  ASSUME FenceCovers
  PROVE  Spec => []OneCommitter
<1>1. ExecutorInv => OneCommitter
  <2> SUFFICES ASSUME ExecutorInv, NEW r \in Runners, NEW q \in Runners,
                      r # q, Committing(r), Committing(q)
               PROVE  exec[r].at # exec[q].at
    BY DEF OneCommitter
  <2>1. Holds(r, exec[r].at) /\ Holds(q, exec[q].at)
    BY DEF ExecutorInv, FencesHold
  <2> QED
    BY <2>1 DEF Holds
<1> QED
  BY <1>1, ExecutorInvariant, PTL

-----------------------------------------------------------------------------
(* Every step is a step of the task store, or one it does not see.         *)

\* The operations a runner or a caller asks for are operations of the store.
LEMMA TransitionIsStoreStep ==
  ASSUME NEW t \in DOMAIN tasks, NEW to \in Store!AllStatuses,
         NEW key \in Keys \cup RunnerKeys \cup {NoKey}, Store!Transition(t, to, key, 0)
  PROVE  Store!Next
BY DEF Store!Next

LEMMA CallersStoreStep ==
  ASSUME NEW t \in DOMAIN tasks,
         \/ ApiCancel(t)
         \/ \E key \in Keys : Revise(t, key)
         \/ \E to \in {"completed", "cancelled"} : PullRequestClosed(t, to)
  PROVE  Store!Next
<1>1. CASE ApiCancel(t)
  BY <1>1 DEF ApiCancel, Store!Next
<1>2. CASE \E key \in Keys : Revise(t, key)
  <2>1. PICK key \in Keys, v \in Values : Store!RequestRevision(t, key, v, v)
    BY <1>2 DEF Revise
  <2> QED
    BY <2>1 DEF Store!Next
<1>3. CASE \E to \in {"completed", "cancelled"} : PullRequestClosed(t, to)
  <2>1. PICK to \in {"completed", "cancelled"} : Store!Transition(t, to, NoKey, 0)
    BY <1>3 DEF PullRequestClosed
  <2>2. to \in Store!AllStatuses
    BY DEF Store!AllStatuses, Store!PhaseTerminal
  <2> QED
    BY <2>1, <2>2, TransitionIsStoreStep
<1> QED
  BY <1>1, <1>2, <1>3

\* The writes of a runner: its attempt exists, the base it records is the task's,
\* and its key and target are among those the store knows.
LEMMA RunnerStoreStep ==
  ASSUME ExecutorInv, NEW r \in Runners, Run(r) \/ Observe(r) \/ Disturb(r)
  PROVE  Store!Next \/ UNCHANGED tasks
<1> DEFINE t == exec[r].at[1]
           a == exec[r].at[2]
<1>1. CASE Provision(r)
  <2>1. exec[r].pc # "idle" /\ t \in DOMAIN tasks
    BY <1>1, ExecutingMeans DEF Provision
  <2>2. UNCHANGED tasks \/ \E v \in Values : Store!EnsureGitContext(t, v, v)
    BY <1>1 DEF Provision
  <2> QED
    BY <2>1, <2>2 DEF Store!Next
<1>2. CASE RecordBase(r)
  <2>1. /\ exec[r].pc = "work" /\ exec[r].ws = "context"
        /\ Store!RecordAttemptBase(t, a, tasks[t].base)
    BY <1>2 DEF RecordBase
  <2>2. /\ t \in DOMAIN tasks /\ a \in DOMAIN tasks[t].attempts
        /\ RowInv(t, tasks[t], evidence, published) /\ tasks[t].base # NoValue
    BY <2>1, ExecutingMeans DEF LocalOK
  <2>3. tasks[t].base \in Values
    BY <2>2 DEF RowInv, RowOK
  <2> QED
    BY <2>1, <2>2, <2>3 DEF Store!Next
<1>3. CASE Work(r)
  <2>1. t \in DOMAIN tasks /\ a \in DOMAIN tasks[t].attempts
    BY <1>3, ExecutingMeans DEF Work
  <2>2. UNCHANGED tasks \/ Store!AppendAttemptEvent(t, a)
    BY <1>3 DEF Work, StageEvents
  <2> QED
    BY <2>1, <2>2 DEF Store!Next
<1>4. ASSUME exec[r].pc \in {"commit", "timeout_commit"},
             Store!Transition(t, exec[r].to, Key(r), 0)
      PROVE  Store!Next
  <2>1. /\ t \in DOMAIN tasks /\ exec[r].at \in AttemptIds
        /\ exec[r].to \in {"completed", "failed", "timed_out"} \cup Stages
    BY <1>4, ExecutingMeans DEF LocalOK
  <2>2. Key(r) \in RunnerKeys
    BY <2>1, RunnerKeyOK DEF Key
  <2>3. exec[r].to \in Store!AllStatuses
    BY <2>1 DEF Stages, Store!AllStatuses, Store!PhaseRunning, Store!PhaseReview,
                Store!PhaseTerminal
  <2> QED
    BY <1>4, <2>1, <2>2, <2>3, TransitionIsStoreStep
<1>5. CASE Commit(r) \/ CommitCut(r) \/ CommitFails(r)
  BY <1>4, <1>5 DEF Commit, CommitCut, CommitFails, CommitUnknown
<1>6. CASE TimeoutCommit(r)
  <2>1. exec[r].pc = "timeout_commit" /\ exec[r].to = "timed_out"
    BY <1>6, ExecutingMeans DEF TimeoutCommit, LocalOK
  <2> QED
    BY <1>4, <1>6, <2>1 DEF TimeoutCommit
<1>7. CASE (\E u \in DOMAIN tasks : Claim(r, u)) \/ Start(r) \/ Abandon(r) \/ DriveReturns(r)
           \/ Fence(r) \/ EndDrive(r) \/ TimeoutFence(r) \/ TimeoutRead(r)
           \/ Settle(r) \/ Release(r)
  BY <1>7 DEF Claim, Start, Abandon, DriveReturns, Fence, EndDrive, TimeoutFence,
              TimeoutRead, Settle, Release, db
<1>8. CASE Observe(r)
  BY <1>8 DEF Observe, DeadlineFires, WatchCancels, HeartbeatLost, db
<1>9. CASE StartFails(r) \/ WorkFails(r) \/ WorkErrors(r) \/ TimeoutFails(r)
           \/ Interrupted(r) \/ Crash(r)
  BY <1>9 DEF StartFails, WorkFails, WorkErrors, TimeoutFails, Interrupted, Crash, db
<1> QED
  BY <1>1, <1>2, <1>3, <1>5, <1>6, <1>7, <1>8, <1>9 DEF Run, Disturb

\* A step of the executor is a step of the store, or leaves the tasks alone.
LEMMA StepIsStoreStep == ExecutorInv /\ [Next]_vars => [Store!Next]_(Store!vars)
<1> SUFFICES ASSUME ExecutorInv, [Next]_vars PROVE Store!Next \/ UNCHANGED tasks
  BY DEF Store!vars
<1>1. CASE \E t \in TaskIds : CreateTask(t)
  BY <1>1 DEF CreateTask, Store!Next
<1>2. CASE \E t \in DOMAIN tasks :
             \/ ApiCancel(t)
             \/ \E key \in Keys : Revise(t, key)
             \/ \E to \in {"completed", "cancelled"} : PullRequestClosed(t, to)
  BY <1>2, CallersStoreStep
<1>3. CASE \E x \in AttemptIds : ExpireLease(x) \/ LeaseLapses(x) \/ DeadlinePasses(x)
  BY <1>3 DEF ExpireLease, LeaseLapses, DeadlinePasses
<1>4. CASE \E r \in Runners : Run(r) \/ Observe(r) \/ Disturb(r)
  BY <1>4, RunnerStoreStep
<1>5. CASE UNCHANGED vars
  BY <1>5 DEF vars
<1> QED
  BY <1>1, <1>2, <1>3, <1>4, <1>5 DEF Next

\* runner/executor.go: runners, commands and recovered owners move tasks through
\* the store's operations only, each on a task and an attempt that exist, with a
\* key, a target and a base the store admits; AttemptExecutor implements TaskStore.
THEOREM ExecutorImplementsStore == Spec => StoreSpec
<1>1. Init => Store!Init
  BY DEF Init, Store!Init
<1>2. ExecutorInv /\ [Next]_vars => [Store!Next]_(Store!vars)
  BY StepIsStoreStep
<1> QED
  BY <1>1, <1>2, ExecutorInvariant, PTL DEF Spec, StoreSpec, Store!Spec

-----------------------------------------------------------------------------
(* An owner left over from a superseded attempt.  Here the deployment      *)
(* publishes and fences cover their operations; without the first a task   *)
(* in review is still driven, without the second a lease says nothing of   *)
(* the operation under way.                                                *)

DrivingPcs == {"claimed", "work", "fence", "commit"}

\* The attempt of e is superseded, or may be from now on.
Behind(e, store) ==
  \/ e.at[2] < Len(store[e.at[1]].attempts)
  \/ store[e.at[1]].status = "awaiting_review"

\* A runner whose attempt others may supersede knows that it waits for review,
\* as long as it has the lease; and then it asks for no transition.
OwnerOK(e, held, store) ==
  /\ e.pc \in {"fence", "commit"} => ~DriveDone(e)
  /\ e.pc \in DrivingPcs /\ Publishes(e.at[1]) /\ held /\ Behind(e, store) =>
       e.status = "awaiting_review"

OwnersInv ==
  /\ \A t \in DOMAIN tasks : ~HasRepository(t) => Len(tasks[t].attempts) = 1
  /\ \A r \in Runners : OwnerOK(exec[r], Holds(r, exec[r].at), tasks)

\* A step that supersedes no attempt but those waiting for review, puts no task in
\* review, and gives a task without a repository no second attempt.
Calm(store, next) ==
  /\ DOMAIN store \subseteq DOMAIN next
  /\ \A t \in DOMAIN store :
       \/ store[t].status = "awaiting_review"
       \/ /\ Len(next[t].attempts) = Len(store[t].attempts)
          /\ next[t].status # "awaiting_review"
  /\ \A t \in DOMAIN next : ~HasRepository(t) =>
       Len(next[t].attempts) = IF t \in DOMAIN store THEN Len(store[t].attempts) ELSE 1

\* A runner goes from e to f within its drive, or out of it.
Moves(e, f) ==
  /\ f.pc \in {"fence", "commit"} => ~DriveDone(f)
  /\ f.pc \in DrivingPcs => e.pc \in DrivingPcs /\ f.at = e.at /\ f.status = e.status

NoLeaseTaken ==
  \A x \in AttemptIds, q \in Runners : Holds(q, x)' => Holds(q, x)

\* A write that neither starts an attempt nor lets a task into review.
LEMMA CalmPut ==
  ASSUME NEW t \in DOMAIN tasks, NEW s, Store!Put(t, s),
         Len(s.attempts) = Len(tasks[t].attempts),
         s.status = tasks[t].status \/ s.status # "awaiting_review"
  PROVE  Calm(tasks, tasks')
<1>1. /\ DOMAIN tasks' = DOMAIN tasks
      /\ \A u \in DOMAIN tasks' : tasks'[u] = IF u = t THEN s ELSE tasks[u]
  BY DEF Store!Put
<1> QED
  BY <1>1 DEF Calm

\* A calm step by runners that keep within their drives leaves no owner behind.
LEMMA CalmStep ==
  ASSUME ExecutorInv, OwnersInv, Calm(tasks, tasks'), NoLeaseTaken,
         \A q \in Runners : exec'[q] = exec[q] \/ Moves(exec[q], exec'[q])
  PROVE  OwnersInv'
<1>1. ASSUME NEW t \in DOMAIN tasks', ~HasRepository(t)
      PROVE  Len(tasks'[t].attempts) = 1
  BY <1>1 DEF OwnersInv, Calm
<1>2. ASSUME NEW q \in Runners
      PROVE  OwnerOK(exec'[q], Holds(q, exec[q].at)', tasks')
  <2> DEFINE e == exec[q]
             f == exec'[q]
  <2>1. OwnerOK(e, Holds(q, e.at), tasks)
    BY DEF OwnersInv
  <2>2. f.pc \in {"fence", "commit"} => ~DriveDone(f)
    BY <2>1 DEF OwnerOK, Moves
  <2>3. ASSUME f.pc \in DrivingPcs, Publishes(f.at[1]), Holds(q, exec[q].at)',
               Behind(f, tasks')
        PROVE  f.status = "awaiting_review"
    <3>1. e.pc \in DrivingPcs /\ f.at = e.at /\ f.status = e.status
      BY <2>3 DEF Moves
    <3>2. /\ e.at \in AttemptIds /\ e.at[1] \in DOMAIN tasks
      BY <3>1, ExecutingMeans DEF DrivingPcs
    <3>3. Holds(q, e.at)
      BY <2>3, <3>1, <3>2 DEF NoLeaseTaken, Holds
    <3>4. Behind(e, tasks)
      BY <2>3, <3>1, <3>2 DEF Behind, Calm
    <3> QED
      BY <2>1, <2>3, <3>1, <3>3, <3>4 DEF OwnerOK
  <2> QED
    BY <2>2, <2>3 DEF OwnerOK
<1> QED
  BY <1>1, <1>2 DEF OwnersInv

\* A task that ends.
LEMMA CalmEnd ==
  ASSUME ExecutorInv, NEW t \in DOMAIN tasks, NEW to \in PhaseTerminal, NEW key,
         Store!Transition(t, to, key, 0)
  PROVE  Calm(tasks, tasks')
<1> DEFINE s == Store!applyTransition(tasks[t], Store!Params(to, key, 0))
<1>1. /\ Store!TransitionOutcome(tasks[t], Store!Params(to, key, 0)) = "applied"
      /\ Store!Put(t, s) /\ RowInv(t, tasks[t], evidence, published)
  BY DEF Store!Transition, ExecutorInv, TasksInv
<1>2. to \in Store!AllStatuses /\ to # "queued" /\ to # "awaiting_review"
  BY DEF PhaseTerminal, Store!AllStatuses, Store!PhaseTerminal
<1>3. s.status = to /\ Len(s.attempts) = Len(tasks[t].attempts)
  BY <1>1, <1>2, MovedRow DEF RowInv
<1> HIDE DEF s
<1> QED
  BY <1>1, <1>2, <1>3, CalmPut

\* The callers: a revision supersedes only an attempt that waits for review.
LEMMA CallersOwners ==
  ASSUME ExecutorInv, OwnersInv,
         \/ \E t \in TaskIds : CreateTask(t)
         \/ \E t \in DOMAIN tasks :
              \/ ApiCancel(t)
              \/ \E key \in Keys : Revise(t, key)
              \/ \E to \in {"completed", "cancelled"} : PullRequestClosed(t, to)
  PROVE  OwnersInv'
<1>1. UNCHANGED <<leases, exec>>
  BY DEF CreateTask, ApiCancel, Revise, PullRequestClosed, env
<1>2. Calm(tasks, tasks')
  <2>1. ASSUME NEW t \in TaskIds, CreateTask(t)
        PROVE  Calm(tasks, tasks')
    <3> DEFINE s == Store!CreatedRow(NoIssue, NoValue)
    <3>1. t \notin DOMAIN tasks /\ Store!Put(t, s)
      BY <2>1 DEF CreateTask, Store!Create
    <3>2. Len(s.attempts) = 1
      BY CreatedKeeps
    <3> HIDE DEF s
    <3>3. /\ DOMAIN tasks' = DOMAIN tasks \cup {t} /\ tasks'[t] = s
          /\ \A u \in DOMAIN tasks : tasks'[u] = tasks[u]
      BY <3>1 DEF Store!Put
    <3> QED
      BY <3>1, <3>2, <3>3 DEF Calm
  <2>2. ASSUME NEW t \in DOMAIN tasks, ApiCancel(t)
        PROVE  Calm(tasks, tasks')
    <3>1. Store!Transition(t, "cancelled", NoKey, 0)
      BY <2>2 DEF ApiCancel, Store!Cancel, Store!Transition
    <3> QED
      BY <3>1, CalmEnd DEF PhaseTerminal
  <2>3. ASSUME NEW t \in DOMAIN tasks, NEW key \in Keys, Revise(t, key)
        PROVE  Calm(tasks, tasks')
    <3>1. PICK v \in Values : Store!RequestRevision(t, key, v, v)
      BY <2>3 DEF Revise
    <3> DEFINE s == Store!RevisedRow(tasks[t], key, v, v)
    <3>2. Store!RevisionOutcome(tasks[t], MaxAttempts, key) = "applied" /\ Store!Put(t, s)
      BY <3>1 DEF Store!RequestRevision
    <3>3. tasks[t].status = "awaiting_review"
      BY <3>2, RevisedFrom
    <3> HIDE DEF s
    <3>4. DOMAIN tasks' = DOMAIN tasks /\ \A u \in DOMAIN tasks : u # t => tasks'[u] = tasks[u]
      BY <3>2 DEF Store!Put
    <3>5. HasRepository(t)
      BY <2>3 DEF Revise
    <3> QED
      BY <3>3, <3>4, <3>5 DEF Calm
  <2>4. ASSUME NEW t \in DOMAIN tasks, NEW to \in {"completed", "cancelled"},
               PullRequestClosed(t, to)
        PROVE  Calm(tasks, tasks')
    <3>1. Store!Transition(t, to, NoKey, 0)
      BY <2>4 DEF PullRequestClosed
    <3> QED
      BY <3>1, CalmEnd DEF PhaseTerminal
  <2> QED
    BY <2>1, <2>2, <2>3, <2>4
<1> QED
  BY <1>1, <1>2, CalmStep DEF NoLeaseTaken, Holds

\* Leases that expire and deadlines that pass.
LEMMA ExpiryOwners ==
  ASSUME ExecutorInv, OwnersInv, NEW x \in AttemptIds,
         ExpireLease(x) \/ LeaseLapses(x) \/ DeadlinePasses(x)
  PROVE  OwnersInv'
<1>1. UNCHANGED <<tasks, exec>>
  BY DEF ExpireLease, LeaseLapses, DeadlinePasses
<1>2. leases' = leases \/ leases' = [leases EXCEPT ![x].live = FALSE]
  BY DEF ExpireLease, LeaseLapses, DeadlinePasses
<1>3. NoLeaseTaken
  BY <1>2 DEF NoLeaseTaken, Holds, ExecutorInv, LeaseTable
<1>4. Calm(tasks, tasks')
  BY <1>1 DEF Calm, OwnersInv
<1> QED
  BY <1>1, <1>3, <1>4, CalmStep

\* A runner's own moves, with what it writes meanwhile.
LEMMA MoveOwners ==
  ASSUME ExecutorInv, OwnersInv, NEW r \in Runners, NEW e, Goto(r, e), Moves(exec[r], e),
         NoLeaseTaken, Calm(tasks, tasks')
  PROVE  OwnersInv'
<1>1. \A q \in Runners : exec'[q] = IF q = r THEN e ELSE exec[q]
  BY DEF Goto, ExecutorInv
<1>2. \A q \in Runners : exec'[q] = exec[q] \/ Moves(exec[q], exec'[q])
  BY <1>1
<1> QED
  BY <1>2, CalmStep

\* Polling again, or done with drive.
LEMMA LeavesOwners ==
  ASSUME ExecutorInv, OwnersInv, NEW r \in Runners,
         \/ StartFails(r) \/ Release(r) \/ Crash(r) \/ Settle(r)
         \/ Abandon(r) \/ WorkErrors(r) \/ DriveReturns(r) \/ EndDrive(r)
         \/ TimeoutFails(r) \/ TimeoutFence(r) \/ TimeoutRead(r) \/ TimeoutCommit(r)
  PROVE  OwnersInv'
<1>1. exec[r] \in Locals
  BY DEF ExecutorInv
<1>2. PICK e : Goto(r, e) /\ e.pc \notin DrivingPcs
  <2>1. Idle.pc \notin DrivingPcs
    BY DEF Idle, DrivingPcs
  <2>2. ASSUME NEW pc \in ProgramCounters \ DrivingPcs
        PROVE  [exec[r] EXCEPT !.pc = pc].pc \notin DrivingPcs
    BY <1>1 DEF Locals
  <2>3. CASE StartFails(r) \/ Release(r) \/ Crash(r)
    BY <2>1, <2>3 DEF StartFails, Release, Crash
  <2>4. CASE Abandon(r) \/ WorkErrors(r)
    <3>1. Errored(r).pc \notin DrivingPcs
      BY <1>1 DEF Errored, Locals, DrivingPcs
    <3> QED
      BY <2>4, <3>1 DEF Abandon, WorkErrors
  <2>5. CASE DriveReturns(r)
    BY <2>2, <2>5 DEF DriveReturns, ProgramCounters, DrivingPcs
  <2>6. CASE TimeoutFails(r) \/ TimeoutCommit(r)
    BY <2>2, <2>6 DEF TimeoutFails, TimeoutCommit, ProgramCounters, DrivingPcs
  <2>7. CASE EndDrive(r)
    <3>1. PICK pc \in {"timeout_fence", "settle"}, err \in {exec[r].err, "lost"} :
            Goto(r, [exec[r] EXCEPT !.pc = pc, !.err = err])
      BY <1>1, <2>7 DEF EndDrive, Locals
    <3>2. [exec[r] EXCEPT !.pc = pc, !.err = err].pc \notin DrivingPcs
      BY <1>1 DEF Locals, DrivingPcs
    <3> QED
      BY <3>1, <3>2
  <2>8. CASE TimeoutRead(r)
    <3>1. PICK pc \in {"timeout_commit", "settle"} :
            Goto(r, [exec[r] EXCEPT !.to = "timed_out", !.pc = pc])
      BY <1>1, <2>8 DEF TimeoutRead, Locals
    <3>2. [exec[r] EXCEPT !.to = "timed_out", !.pc = pc].pc \notin DrivingPcs
      BY <1>1 DEF Locals, DrivingPcs
    <3> QED
      BY <3>1, <3>2
  <2>9. CASE TimeoutFence(r) \/ Settle(r)
    <3>1. ASSUME NEW pc \in {"settle", "driven"}
          PROVE  [exec[r] EXCEPT !.pc = pc, !.lost = TRUE, !.err = "lost"].pc \notin DrivingPcs
      BY <1>1 DEF Locals, DrivingPcs
    <3> QED
      BY <2>1, <2>2, <2>9, <3>1 DEF TimeoutFence, Settle, Fenced, FenceRefused,
                                  ProgramCounters, DrivingPcs
  <2> QED
    BY <2>3, <2>4, <2>5, <2>6, <2>7, <2>8, <2>9
<1>3. Moves(exec[r], e)
  BY <1>2 DEF Moves, DrivingPcs
<1>4. NoLeaseTaken
  <2>1. UNCHANGED leases \/ leases' = [leases EXCEPT ![exec[r].at] = NoLease]
    BY DEF StartFails, Release, Crash, Settle, Abandon, WorkErrors, DriveReturns, EndDrive,
           TimeoutFails, TimeoutFence, TimeoutRead, TimeoutCommit, db
  <2> QED
    BY <2>1 DEF NoLeaseTaken, Holds, NoLease, ExecutorInv, LeaseTable
<1>5. Calm(tasks, tasks')
  <2>1. CASE UNCHANGED tasks
    BY <2>1 DEF Calm
  <2>2. CASE ~UNCHANGED tasks
    <3>1. /\ exec[r].pc = "timeout_commit"
          /\ Store!Transition(exec[r].at[1], "timed_out", Key(r), 0)
      BY <2>2 DEF StartFails, Release, Crash, Settle, Abandon, WorkErrors, DriveReturns,
                  EndDrive, TimeoutFails, TimeoutFence, TimeoutRead, TimeoutCommit, db
    <3> QED
      BY <3>1, ExecutingMeans, CalmEnd DEF PhaseTerminal
  <2> QED
    BY <2>1, <2>2
<1> QED
  BY <1>2, <1>3, <1>4, <1>5, MoveOwners

\* Within drive: the attempt and the local status stay as they are, and only work
\* that is left asks for a transition.
LEMMA DriveOwners ==
  ASSUME ExecutorInv, OwnersInv, NEW r \in Runners,
         \/ Start(r) \/ Provision(r) \/ RecordBase(r) \/ Work(r) \/ WorkFails(r) \/ Fence(r)
         \/ Observe(r) \/ Interrupted(r)
  PROVE  OwnersInv'
<1>1. /\ exec[r] \in Locals /\ leases' = leases /\ exec[r].pc # "idle"
      /\ exec[r].pc \in {"fence", "commit"} => ~DriveDone(exec[r])
  <2>1. leases' = leases
    BY DEF Start, Provision, RecordBase, Work, WorkFails, Fence, Observe, DeadlineFires,
           WatchCancels, HeartbeatLost, Interrupted, db
  <2>2. exec[r].pc # "idle"
    BY DEF Start, Provision, RecordBase, Work, WorkFails, Fence, Observe, DeadlineFires,
           WatchCancels, HeartbeatLost, Interrupted, Driving
  <2> QED
    BY <2>1, <2>2 DEF ExecutorInv, OwnersInv, OwnerOK
<1>2. NoLeaseTaken
  BY <1>1 DEF NoLeaseTaken, Holds
<1> DEFINE Same(e) == e.at = exec[r].at /\ e.status = exec[r].status
<1>3. ASSUME NEW e, Same(e), exec[r].pc \in DrivingPcs,
             e.pc \in {"fence", "commit"} => ~DriveDone(exec[r])
      PROVE  Moves(exec[r], e)
  BY <1>3 DEF Moves, DriveDone
<1> HIDE DEF Same
<1>4. PICK e : Goto(r, e) /\ Moves(exec[r], e)
  <2>1. CASE Start(r)
    <3> DEFINE c == IF exec[r].at \in overdue THEN "deadline" ELSE "none"
               f == [exec[r] EXCEPT !.pc = "work", !.cause = c]
    <3>1. Goto(r, f) \/ Goto(r, Idle)
      BY <2>1 DEF Start
    <3>2. Same(f) /\ f.pc = "work"
      BY <1>1 DEF Locals, Same
    <3>3. exec[r].pc \in DrivingPcs
      BY <2>1 DEF Start, DrivingPcs
    <3> HIDE DEF f
    <3>4. Moves(exec[r], f)
      BY <1>3, <3>2, <3>3
    <3>5. Moves(exec[r], Idle)
      BY DEF Moves, Idle, DrivingPcs
    <3> QED
      BY <3>1, <3>4, <3>5
  <2>2. CASE Provision(r) \/ RecordBase(r)
    <3>1. PICK ws \in {"context", "ready"} : Goto(r, [exec[r] EXCEPT !.ws = ws])
      BY <2>2 DEF Provision, RecordBase
    <3> DEFINE f == [exec[r] EXCEPT !.ws = ws]
    <3>2. Same(f) /\ f.pc = exec[r].pc
      BY <1>1 DEF Locals, Same
    <3>3. exec[r].pc \in DrivingPcs
      BY <2>2 DEF Provision, RecordBase, DrivingPcs
    <3> HIDE DEF f
    <3>4. Moves(exec[r], f)
      BY <1>1, <1>3, <3>2, <3>3
    <3> QED
      BY <3>1, <3>4 DEF f
  <2>3. CASE Work(r) \/ WorkFails(r)
    <3>1. PICK to : Goto(r, [exec[r] EXCEPT !.pc = "fence", !.to = to])
      BY <2>3 DEF Work, WorkFails
    <3> DEFINE f == [exec[r] EXCEPT !.pc = "fence", !.to = to]
    <3>2. Same(f)
      BY <1>1 DEF Locals, Same
    <3>3. exec[r].pc \in DrivingPcs /\ ~DriveDone(exec[r])
      <4>1. CASE Work(r)
        BY <4>1 DEF Work, DrivingPcs
      <4>2. CASE WorkFails(r)
        <5>1. exec[r].pc = "work" /\ exec[r].status \in PhaseRunning \cup AgentStages
          BY <4>2 DEF WorkFails
        <5> QED
          BY <5>1 DEF DriveDone, PhaseRunning, AgentStages, DrivingPcs
      <4> QED
        BY <2>3, <4>1, <4>2
    <3> HIDE DEF f
    <3>4. Moves(exec[r], f)
      BY <1>3, <3>2, <3>3
    <3> QED
      BY <3>1, <3>4 DEF f
  <2>4. CASE Fence(r)
    <3> DEFINE f == [exec[r] EXCEPT !.pc = "commit"]
               g == [exec[r] EXCEPT !.pc = "driven", !.lost = TRUE, !.err = "lost"]
    <3>1. (Goto(r, f) \/ Goto(r, g)) /\ exec[r].pc = "fence"
      BY <2>4 DEF Fence, Fenced, FenceRefused
    <3>2. Same(f) /\ Same(g)
      BY <1>1 DEF Locals, Same
    <3>3. g.pc = "driven"
      BY <1>1 DEF Locals
    <3> HIDE DEF f, g
    <3>4. Moves(exec[r], f) /\ Moves(exec[r], g)
      BY <1>1, <1>3, <3>1, <3>2 DEF DrivingPcs
    <3> QED
      BY <3>1, <3>4
  <2>5. CASE Observe(r) \/ Interrupted(r)
    <3>1. PICK f : Goto(r, f) /\ Same(f) /\ f.pc = exec[r].pc
      <4>1. ASSUME NEW c
            PROVE  LET f == [exec[r] EXCEPT !.cause = c]
                       g == [exec[r] EXCEPT !.lost = TRUE, !.cause = c]
                   IN Same(f) /\ Same(g) /\ f.pc = exec[r].pc /\ g.pc = exec[r].pc
        BY <1>1 DEF Locals, Same
      <4>2. CASE DeadlineFires(r) \/ WatchCancels(r) \/ Interrupted(r)
        <5>1. \E c : Goto(r, [exec[r] EXCEPT !.cause = c])
          BY <4>2 DEF DeadlineFires, WatchCancels, Interrupted
        <5> QED
          BY <4>1, <5>1
      <4>3. CASE HeartbeatLost(r)
        <5> DEFINE c == IF exec[r].cause = "none" THEN "stopped" ELSE exec[r].cause
        <5>1. [exec[r] EXCEPT !.lost = TRUE, !.cause = IF @ = "none" THEN "stopped" ELSE @]
                = [exec[r] EXCEPT !.lost = TRUE, !.cause = c]
          BY <1>1 DEF Locals
        <5> HIDE DEF c
        <5>2. Goto(r, [exec[r] EXCEPT !.lost = TRUE, !.cause = c])
          BY <4>3, <5>1 DEF HeartbeatLost
        <5> QED
          BY <4>1, <5>2
      <4> QED
        BY <2>5, <4>2, <4>3 DEF Observe
    <3>2. Driving(r)
      BY <2>5 DEF Observe, DeadlineFires, WatchCancels, HeartbeatLost, Interrupted
    <3>3. CASE exec[r].pc = "driven"
      BY <3>1, <3>3 DEF Moves, DrivingPcs
    <3>4. CASE exec[r].pc # "driven"
      BY <1>1, <1>3, <3>1, <3>2, <3>4 DEF Driving, DrivingPcs
    <3> QED
      BY <3>1, <3>3, <3>4
  <2> QED
    BY <2>1, <2>2, <2>3, <2>4, <2>5
<1>5. Calm(tasks, tasks')
  <2>1. CASE UNCHANGED tasks
    BY <2>1 DEF Calm
  <2>2. CASE ~UNCHANGED tasks
    <3>1. /\ exec[r].at[1] \in DOMAIN tasks
          /\ exec[r].at[2] \in DOMAIN tasks[exec[r].at[1]].attempts
          /\ RowInv(exec[r].at[1], tasks[exec[r].at[1]], evidence, published)
      BY <1>1, ExecutingMeans
    <3>2. PICK s : Store!Put(exec[r].at[1], s) /\ Quiet(tasks[exec[r].at[1]], s)
      <4>1. CASE Provision(r)
        <5>1. PICK v \in Values : Store!EnsureGitContext(exec[r].at[1], v, v)
          BY <2>2, <4>1 DEF Provision
        <5> QED
          BY <3>1, <5>1, EnsureKeeps DEF Store!EnsureGitContext
      <4>2. CASE RecordBase(r)
        <5> DEFINE t == exec[r].at[1]
                   s == Store!AttemptBaseRow(tasks[t], exec[r].at[2], tasks[t].base)
        <5>1. Store!Put(t, s)
          BY <4>2 DEF RecordBase, Store!RecordAttemptBase
        <5>2. Quiet(tasks[t], s)
          BY <3>1, AttemptBaseKeeps
        <5> QED
          BY <5>1, <5>2
      <4>3. CASE Work(r)
        <5> DEFINE t == exec[r].at[1]
                   s == Store!insertEvent(tasks[t], exec[r].at[2], "none", "note", NoKey)
        <5>1. Store!Put(t, s)
          BY <2>2, <4>3 DEF Work, StageEvents, Store!AppendAttemptEvent
        <5>2. Quiet(tasks[t], s)
          BY <3>1, NoteKeeps
        <5> QED
          BY <5>1, <5>2
      <4> QED
        BY <2>2, <4>1, <4>2, <4>3 DEF Start, WorkFails, Fence, Observe, DeadlineFires,
           WatchCancels, HeartbeatLost, Interrupted, db
    <3> QED
      BY <3>1, <3>2, CalmPut DEF Quiet
  <2> QED
    BY <2>1, <2>2
<1> QED
  BY <1>2, <1>4, <1>5, MoveOwners

\* The attempt a runner claims is the newest of a task that is not published and
\* in review; and the lease it takes is nobody's.
LEMMA ClaimOwners ==
  ASSUME ExecutorInv, OwnersInv, NEW r \in Runners, NEW t \in DOMAIN tasks, Claim(r, t)
  PROVE  OwnersInv'
<1> DEFINE a == ActiveAttempt(tasks[t])
           e == [Idle EXCEPT !.pc = "claimed", !.at = <<t, a>>, !.status = tasks[t].status]
<1>1. /\ Claimable(t) /\ ActiveAttempts(tasks[t]) # {} /\ Goto(r, e)
      /\ leases' = [leases EXCEPT ![<<t, a>>] = [owner |-> r, live |-> TRUE]]
      /\ UNCHANGED tasks
  BY DEF Claim
<1>2. a \in ActiveAttempts(tasks[t]) /\ RowInv(t, tasks[t], evidence, published)
  BY <1>1 DEF ActiveAttempt, ExecutorInv, TasksInv
<1>3. a = Len(tasks[t].attempts)
  BY <1>2 DEF ActiveAttempts, RowInv, RowOK, Newest
<1> HIDE DEF a
<1>4. /\ exec'[r] = e /\ \A q \in Runners : q # r => exec'[q] = exec[q]
  BY <1>1 DEF Goto, ExecutorInv
<1>5. e.at = <<t, a>> /\ e.pc = "claimed"
  BY DEF Idle
<1> HIDE DEF e
<1>6. \A held \in BOOLEAN : OwnerOK(e, held, tasks)
  <2>1. ~Publishes(t) \/ tasks[t].status # "awaiting_review"
    BY <1>1 DEF Claimable, Publishes, PhaseRunning
  <2>2. Len(tasks[t].attempts) \in Nat
    BY <1>2, RowDomains DEF RowInv
  <2> QED
    BY <1>3, <1>5, <2>1, <2>2 DEF OwnerOK, Behind
<1>7. ASSUME NEW q \in Runners, q # r
      PROVE  OwnerOK(exec[q], Holds(q, exec[q].at)', tasks)
  <2>1. OwnerOK(exec[q], Holds(q, exec[q].at), tasks)
    BY DEF OwnersInv
  <2>2. ASSUME exec[q].pc # "idle", Holds(q, exec[q].at)'
        PROVE  Holds(q, exec[q].at)
    <3>1. exec'[q] = exec[q] /\ exec[q].at \in AttemptIds
      BY <1>4, <1>7, <2>2, ExecutingMeans
    <3> QED
      BY <1>1, <1>7, <2>2, <3>1 DEF Holds, ExecutorInv, LeaseTable
  <2> QED
    BY <2>1, <2>2 DEF OwnerOK, DrivingPcs
<1>8. ASSUME NEW q \in Runners
      PROVE  OwnerOK(exec[q], Holds(q, exec[q].at), tasks)'
  <2>1. CASE q = r
    <3>1. (Holds(q, exec[q].at))' \in BOOLEAN
      BY DEF Holds
    <3>2. exec'[q] = e /\ tasks' = tasks
      BY <1>1, <1>4, <2>1
    <3> QED
      BY <1>6, <3>1, <3>2
  <2>2. CASE q # r
    BY <1>1, <1>4, <1>7, <2>2 DEF Holds
  <2> QED
    BY <2>1, <2>2
<1> QED
  BY <1>1, <1>8 DEF OwnersInv

\* A commit: the runner that puts a published task in review knows it, and with a
\* fence that covers it no other runner has the lease of that attempt.
LEMMA CommitOwners ==
  ASSUME FenceCovers, ExecutorInv, OwnersInv, NEW r \in Runners,
         Commit(r) \/ CommitCut(r) \/ CommitFails(r)
  PROVE  OwnersInv'
<1> DEFINE t == exec[r].at[1]
           a == exec[r].at[2]
           to == exec[r].to
<1>1. exec[r].pc = "commit" /\ leases' = leases /\ exec[r] \in Locals
  BY DEF Commit, CommitCut, CommitFails, CommitUnknown, ExecutorInv
<1>2. Holds(r, exec[r].at)
  BY <1>1 DEF ExecutorInv, FencesHold, Committing
<1>3. /\ exec[r].at = <<t, a>> /\ exec[r].at \in AttemptIds /\ t \in DOMAIN tasks
      /\ a \in DOMAIN tasks[t].attempts /\ RowInv(t, tasks[t], evidence, published)
  BY <1>1, ExecutingMeans
<1>4. Publishes(t) => ~Behind(exec[r], tasks)
  <2>1. OwnerOK(exec[r], Holds(r, exec[r].at), tasks)
    BY DEF OwnersInv
  <2> QED
    BY <1>1, <1>2, <2>1 DEF OwnerOK, DriveDone, DrivingPcs
<1>5. \/ UNCHANGED tasks
      \/ \E s : /\ Store!Put(t, s) /\ s.status = to
                /\ Len(s.attempts) = Len(tasks[t].attempts)
                /\ to \in Stages => a = Len(s.attempts)
  <2>1. UNCHANGED tasks \/ Store!Transition(t, to, Key(r), 0)
    BY DEF Commit, CommitCut, CommitFails, CommitUnknown
  <2> QED
    BY <1>1, <2>1, CommitRow
<1>6. /\ DOMAIN tasks' = DOMAIN tasks
      /\ \A u \in DOMAIN tasks :
           /\ Len(tasks'[u].attempts) = Len(tasks[u].attempts)
           /\ \/ tasks'[u].status = tasks[u].status
              \/ u = t /\ tasks'[u].status = to /\ (to \in Stages => a = Len(tasks[u].attempts))
  BY <1>3, <1>5 DEF Store!Put
<1>7. PICK e : /\ Goto(r, e)
               /\ \/ e.pc = "driven"
                  \/ e.pc = "work" /\ e.at = exec[r].at /\ e.status = to
  <2>1. Goto(r, Errored(r)) \/ Goto(r, Acknowledged(r))
    BY DEF Commit, CommitCut, CommitFails, CommitUnknown
  <2>2. Errored(r).pc = "driven"
    BY <1>1 DEF Errored, Locals
  <2>3. \/ Acknowledged(r).pc = "driven"
        \/ /\ Acknowledged(r).pc = "work" /\ Acknowledged(r).at = exec[r].at
           /\ Acknowledged(r).status = to
    BY <1>1 DEF Acknowledged, Locals
  <2> QED
    BY <2>1, <2>2, <2>3
<1>8. exec'[r] = e /\ \A q \in Runners : q # r => exec'[q] = exec[q]
  BY <1>7 DEF Goto, ExecutorInv
<1>9. ASSUME NEW q \in Runners, q # r
      PROVE  OwnerOK(exec[q], Holds(q, exec[q].at), tasks')
  <2>1. OwnerOK(exec[q], Holds(q, exec[q].at), tasks)
    BY DEF OwnersInv
  <2>2. ASSUME exec[q].pc # "idle", Holds(q, exec[q].at), Behind(exec[q], tasks')
        PROVE  Behind(exec[q], tasks)
    <3>1. /\ exec[q].at \in AttemptIds /\ exec[q].at = <<exec[q].at[1], exec[q].at[2]>>
          /\ exec[q].at[1] \in DOMAIN tasks
          /\ exec[q].at[2] \in DOMAIN tasks[exec[q].at[1]].attempts
      BY <2>2, ExecutingMeans
    <3>2. exec[q].at # exec[r].at
      BY <1>2, <1>9, <2>2 DEF Holds
    <3>3. CASE tasks'[exec[q].at[1]].status = tasks[exec[q].at[1]].status
      BY <1>6, <2>2, <3>1, <3>3 DEF Behind
    <3>4. CASE exec[q].at[1] = t /\ tasks'[t].status = to
               /\ (to \in Stages => a = Len(tasks[t].attempts))
      <4>1. CASE to = "awaiting_review"
        <5>1. a = Len(tasks[t].attempts) /\ exec[q].at[2] # a
          BY <1>3, <3>1, <3>2, <3>4, <4>1 DEF Stages
        <5>2. DOMAIN tasks[t].attempts = 1..Len(tasks[t].attempts)
              /\ Len(tasks[t].attempts) \in Nat
          BY <1>3, RowDomains DEF RowInv
        <5> QED
          BY <3>1, <3>4, <5>1, <5>2 DEF Behind
      <4>2. CASE to # "awaiting_review"
        BY <1>6, <2>2, <3>1, <3>4, <4>2 DEF Behind
      <4> QED
        BY <4>1, <4>2
    <3> QED
      BY <1>6, <3>1, <3>3, <3>4
  <2> QED
    BY <2>1, <2>2 DEF OwnerOK, DrivingPcs
<1>10. OwnerOK(e, Holds(r, exec[r].at), tasks')
  <2>1. ASSUME e.pc = "work", e.at = exec[r].at, e.status = to, Publishes(t),
               Behind(e, tasks')
        PROVE  to = "awaiting_review"
    BY <1>3, <1>4, <1>6, <2>1 DEF Behind
  <2> QED
    BY <1>7, <2>1 DEF OwnerOK, DrivingPcs
<1>11. ASSUME NEW q \in Runners
       PROVE  OwnerOK(exec[q], Holds(q, exec[q].at), tasks)'
  <2>1. CASE q = r
    <3>1. CASE e.pc = "driven"
      BY <1>8, <2>1, <3>1 DEF OwnerOK, DrivingPcs
    <3>2. CASE e.at = exec[r].at
      BY <1>1, <1>8, <1>10, <2>1, <3>2 DEF Holds
    <3> QED
      BY <1>7, <3>1, <3>2
  <2>2. CASE q # r
    BY <1>1, <1>8, <1>9, <2>2 DEF Holds
  <2> QED
    BY <2>1, <2>2
<1> QED
  BY <1>6, <1>11 DEF OwnersInv

\* At first nobody owns anything, and every step keeps it so.
LEMMA InitOwners == Init => OwnersInv
<1> SUFFICES ASSUME Init PROVE OwnersInv
  OBVIOUS
<1>1. \A r \in Runners : exec[r].pc = "idle"
  BY DEF Init, Idle
<1> QED
  BY <1>1 DEF Init, OwnersInv, OwnerOK, DrivingPcs

LEMMA NextOwners ==
  ASSUME FenceCovers
  PROVE  ExecutorInv /\ OwnersInv /\ [Next]_vars => OwnersInv'
<1> SUFFICES ASSUME ExecutorInv, OwnersInv, [Next]_vars PROVE OwnersInv'
  OBVIOUS
<1>1. CASE \E t \in TaskIds : CreateTask(t)
  BY <1>1, CallersOwners
<1>2. CASE \E t \in DOMAIN tasks :
             \/ ApiCancel(t)
             \/ \E key \in Keys : Revise(t, key)
             \/ \E to \in {"completed", "cancelled"} : PullRequestClosed(t, to)
  BY <1>2, CallersOwners
<1>3. CASE \E x \in AttemptIds : ExpireLease(x) \/ LeaseLapses(x) \/ DeadlinePasses(x)
  BY <1>3, ExpiryOwners
<1>4. ASSUME NEW r \in Runners, Run(r) \/ Observe(r) \/ Disturb(r)
      PROVE  OwnersInv'
  <2>1. CASE \E t \in DOMAIN tasks : Claim(r, t)
    BY <2>1, ClaimOwners
  <2>2. CASE Commit(r) \/ CommitCut(r) \/ CommitFails(r)
    BY <2>2, CommitOwners
  <2>3. CASE \/ Start(r) \/ Provision(r) \/ RecordBase(r) \/ Work(r) \/ WorkFails(r)
             \/ Fence(r) \/ Observe(r) \/ Interrupted(r)
    BY <2>3, DriveOwners
  <2>4. CASE \/ StartFails(r) \/ Release(r) \/ Crash(r) \/ Settle(r)
             \/ Abandon(r) \/ WorkErrors(r) \/ DriveReturns(r) \/ EndDrive(r)
             \/ TimeoutFails(r) \/ TimeoutFence(r) \/ TimeoutRead(r) \/ TimeoutCommit(r)
    BY <2>4, LeavesOwners
  <2> QED
    BY <1>4, <2>1, <2>2, <2>3, <2>4 DEF Run, Disturb
<1>5. CASE UNCHANGED vars
  <2>1. Calm(tasks, tasks') /\ NoLeaseTaken /\ UNCHANGED exec
    BY <1>5 DEF vars, Calm, NoLeaseTaken, Holds, OwnersInv
  <2> QED
    BY <2>1, CalmStep
<1> QED
  BY <1>1, <1>2, <1>3, <1>4, <1>5 DEF Next

\* A runner that is about to commit works on the newest attempt of its task.
LEMMA CommitsToNewest ==
  ASSUME FenceCovers, Configured, ExecutorInv, OwnersInv,
         NEW r \in Runners, exec[r].pc = "commit"
  PROVE  exec[r].at[2] = Len(tasks[exec[r].at[1]].attempts)
<1> DEFINE t == exec[r].at[1]
           a == exec[r].at[2]
<1>1. /\ t \in DOMAIN tasks /\ a \in DOMAIN tasks[t].attempts
      /\ RowInv(t, tasks[t], evidence, published)
  BY ExecutingMeans
<1>2. DOMAIN tasks[t].attempts = 1..Len(tasks[t].attempts) /\ Len(tasks[t].attempts) \in Nat
  BY <1>1, RowDomains DEF RowInv
<1>3. Holds(r, exec[r].at) /\ OwnerOK(exec[r], Holds(r, exec[r].at), tasks)
  BY DEF ExecutorInv, OwnersInv, FencesHold, Committing
<1>4. CASE HasRepository(t)
  <2>1. Publishes(t)
    BY <1>4 DEF Publishes
  <2>2. ~Behind(exec[r], tasks)
    BY <1>3, <2>1 DEF OwnerOK, DriveDone, DrivingPcs
  <2> QED
    BY <1>1, <1>2, <2>2 DEF Behind
<1>5. CASE ~HasRepository(t)
  <2>1. Len(tasks[t].attempts) = 1
    BY <1>1, <1>5 DEF OwnersInv
  <2>2. a = 1
    BY <1>1, <1>2, <2>1
  <2> QED
    BY <2>1, <2>2
<1> QED
  BY <1>4, <1>5

\* runner/executor.go, transition and failTask: where the deployment publishes and
\* an operation ends before the lease its fence renewed does, no transition that
\* drive commits for a superseded attempt moves the task.  It says nothing of
\* timeoutTask, which does move the task of a successor, nor of an owner that stalls
\* between its fence and its transition for longer than the lease.
THEOREM SupersededOwnersAreHarmless ==
  ASSUME FenceCovers, Configured
  PROVE  Spec => SupersededOwnerHarmless
<1> DEFINE Harmless ==
      \A r \in Runners :
        exec[r].pc = "commit" /\ exec'[r] # exec[r] =>
          LET t == exec[r].at[1]
          IN tasks'[t].status # tasks[t].status =>
               exec[r].at[2] = Len(tasks[t].attempts)
<1>1. ExecutorInv /\ OwnersInv /\ [Next]_vars => [Harmless]_vars
  BY CommitsToNewest
<1>2. Init => OwnersInv
  BY InitOwners
<1>3. ExecutorInv /\ OwnersInv /\ [Next]_vars => OwnersInv'
  BY NextOwners
<1>4. Spec => [][Harmless]_vars
  <2> HIDE DEF Harmless
  <2> QED
    BY <1>1, <1>2, <1>3, ExecutorInvariant, PTL DEF Spec
<1> QED
  BY <1>4 DEF SupersededOwnerHarmless
=============================================================================
