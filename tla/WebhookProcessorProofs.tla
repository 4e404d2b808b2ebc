------------------------ MODULE WebhookProcessorProofs ------------------------
(***************************************************************************)
(* Proofs about WebhookProcessor, for any deliveries, whatever they carry, *)
(* any tasks and comments and every bound.  Of a task's row the proofs     *)
(* need the comment of each attempt and the keys of its events.  Then      *)
(* about InstallationSync, whose events arrive by the same deliveries.     *)
(***************************************************************************)
EXTENDS WebhookProcessor, InstallationSync, FiniteSetTheorems, TLAPS

\* GitHub announces a run comment by one delivery; it may repeat that delivery.
RunsDistinct ==
  \A d, e \in Commands("run") : CommentOf(d) = CommentOf(e) => d = e

-----------------------------------------------------------------------------
(* The invariant.                                                          *)

Columns ==
  {"status", "version", "issue", "base", "branch", "startedAt", "attempts", "log"}

IsSeq(s) == s \in Seq({s[i] : i \in DOMAIN s})

RowOK(r) ==
  /\ DOMAIN r = Columns
  /\ IsSeq(r.log) /\ IsSeq(r.attempts)
  /\ 1 \in DOMAIN r.attempts
  /\ \A a \in DOMAIN r.attempts : "comment" \in DOMAIN r.attempts[a]

KeysOf(r) == {r.log[i].key : i \in DOMAIN r.log}

FirstComment(r) == r.attempts[1].comment

\* Every later attempt left the key of the comment that asked for it, and no two
\* attempts were asked for by one comment.
RevisionsOK(r) ==
  /\ \A a \in DOMAIN r.attempts : a # 1 => <<"revise", r.attempts[a].comment>> \in KeysOf(r)
  /\ \A a, b \in DOMAIN r.attempts : a # b => r.attempts[a].comment # r.attempts[b].comment

RowInv(r) == RowOK(r) /\ RevisionsOK(r)

TasksOK(store) == \A t \in DOMAIN store : RowInv(store[t])

\* Where the handler of a delivery is, and what it has read.
HandlerOK(d, e, store) ==
  /\ DOMAIN e = {"pc", "task", "status", "outcome"}
  /\ e.pc \in Before \cup After \cup {"idle", "mark", "gone", "lost"}
  /\ e.pc \in {"create", "relookup"} => CommandOf[d].verb = "run"
  /\ e.pc \in {"attempts", "revise"} =>
       CommandOf[d].verb = "revise" /\ e.task = CommandOf[d].task
  /\ e.pc = "finalize" => CommandOf[d].verb = "closed"
  /\ e.pc \in {"attempts", "revise", "finalize"} \cup After => e.task \in DOMAIN store
  /\ e.pc = "revise" => FirstComment(store[e.task]) # CommandOf[d].comment

\* Nothing has been replied yet, or nothing will be.
Silent(e, l) ==
  \/ l \in {"none", "ignored"}
  \/ e.pc \in Before \cup {"check_run", "check_record", "check_event", "ack"}
  \/ e.pc = "mark" /\ e.outcome = "ignored"

\* A delivery is pending while its handler runs, or has died, or never was.
LedgerOK(e, l, w) ==
  /\ l \in {"none", "pending", "processed", "ignored", "failed"}
  /\ l = "pending" <=> e.pc # "idle"
  /\ e.pc = "mark" => e.outcome \in {"processed", "ignored", "failed"}
  /\ w \in Seq({"refused", "queued"}) /\ Len(w) <= 1
  /\ Silent(e, l) => Len(w) = 0

\* Before it has asked for a task, no task has the comment of a run command.
Unstarted(e, l) == l = "none" \/ e.pc \in {"guard", "lookup", "create"}

StartedOnce(d, e, store, l) ==
  CommandOf[d].verb = "run" =>
    /\ \A t, u \in DOMAIN store :
         FirstComment(store[t]) = CommandOf[d].comment
           /\ FirstComment(store[u]) = CommandOf[d].comment => t = u
    /\ Unstarted(e, l) =>
         \A t \in DOMAIN store : FirstComment(store[t]) # CommandOf[d].comment

DeliveryOK(d, e, store, l, w) ==
  /\ HandlerOK(d, e, store)
  /\ LedgerOK(e, l, w)
  /\ RunsDistinct => StartedOnce(d, e, store, l)

WebhookInv ==
  /\ TasksOK(tasks)
  /\ proc = [d \in Deliveries |-> proc[d]]
  /\ ledger = [d \in Deliveries |-> ledger[d]]
  /\ replies = [d \in Deliveries |-> replies[d]]
  /\ \A d \in Deliveries : DeliveryOK(d, proc[d], tasks, ledger[d], replies[d])

-----------------------------------------------------------------------------
(* Lemmas about rows.                                                      *)

\* The store's instance writes rows as TaskRow does.
LEMMA StoreRows ==
  /\ \A r : Store!ActiveAttempts(r) = ActiveAttempts(r)
  /\ \A r : Store!ActiveAttempt(r) = ActiveAttempt(r)
  /\ \A r, p : Store!applyTransition(r, p) = applyTransition(r, p)
  /\ \A r, n, key : Store!RevisionOutcome(r, n, key) = RevisionOutcome(r, n, key)
  /\ \A r, key, comment, base :
       Store!RevisedRow(r, key, comment, base) = RevisedRow(r, key, comment, base)
  /\ \A issue, comment : Store!CreatedRow(issue, comment) = CreatedRow(issue, comment)
  /\ \A to, key, expect : Store!Params(to, key, expect) = Params(to, key, expect)
  /\ \A r, a, from, type, key :
       Store!insertEvent(r, a, from, type, key) = insertEvent(r, a, from, type, key)
  /\ \A r, id : Store!CheckRunRow(r, id) = CheckRunRow(r, id)
<1>1. \A r : Store!ActiveAttempts(r) = ActiveAttempts(r)
  BY DEF Store!ActiveAttempts, ActiveAttempts
<1>2. \A r : Store!ActiveAttempt(r) = ActiveAttempt(r)
  BY DEF Store!ActiveAttempts, ActiveAttempts, Store!ActiveAttempt, ActiveAttempt
<1>3. \A r, a, from, type, key :
        Store!insertEvent(r, a, from, type, key) = insertEvent(r, a, from, type, key)
  BY Zenon DEF Store!insertEvent, insertEvent, Store!SequenceNumbers, SequenceNumbers,
     Store!Max, Max, Store!Event, Event
<1>4. \A r, p, a : Store!MoveAttempts(r, p, a) = MoveAttempts(r, p, a)
  BY Zenon DEF Store!MoveAttempts, MoveAttempts, Store!NewAttempt, NewAttempt,
     Store!Terminal, Terminal, Store!PhaseTerminal, PhaseTerminal
<1>5. \A r, p : Store!applyTransition(r, p) = applyTransition(r, p)
  BY <1>2, <1>3, <1>4, Zenon
  DEF Store!applyTransition, applyTransition, Store!EventAttempt, EventAttempt
<1>6. \A r, p : Store!TransitionOutcome(r, p) = TransitionOutcome(r, p)
  BY <1>1, Zenon
  DEF Store!TransitionOutcome, TransitionOutcome, Store!KeySeen, KeySeen,
      Store!CanTransition, CanTransition, Store!happyPath, happyPath,
      Store!AllStatuses, AllStatuses, Store!PhasePending, PhasePending,
      Store!PhaseRunning, PhaseRunning, Store!PhaseReview, PhaseReview,
      Store!PhaseTerminal, PhaseTerminal
<1>7. \A to, key, expect : Store!Params(to, key, expect) = Params(to, key, expect)
  BY DEF Store!Params, Params
<1>8. \A r, n, key : Store!RevisionOutcome(r, n, key) = RevisionOutcome(r, n, key)
  BY <1>6, <1>7, Zenon DEF Store!RevisionOutcome, RevisionOutcome, Store!KeySeen, KeySeen
<1>9. \A r, key, comment, base :
        Store!RevisedRow(r, key, comment, base) = RevisedRow(r, key, comment, base)
  BY <1>5, <1>7, Zenon
  DEF Store!RevisedRow, RevisedRow, Store!RevisionParams, RevisionParams
<1>10. \A issue, comment : Store!CreatedRow(issue, comment) = CreatedRow(issue, comment)
  BY <1>3, <1>5, <1>7, Zenon
  DEF Store!CreatedRow, CreatedRow, Store!InsertedRow, InsertedRow, Store!NewAttempt, NewAttempt
<1>11. \A r, id : Store!CheckRunRow(r, id) = CheckRunRow(r, id)
  BY Zenon DEF Store!CheckRunRow, CheckRunRow
<1> QED BY <1>1, <1>2, <1>3, <1>5, <1>7, <1>8, <1>9, <1>10, <1>11

\* Timelines and attempts as sequences.
LEMMA SeqDomain ==
  ASSUME NEW s, IsSeq(s)
  PROVE  Len(s) \in Nat /\ DOMAIN s = 1..Len(s)
BY DEF IsSeq

LEMMA SeqOf ==
  ASSUME NEW q, NEW n \in Nat, DOMAIN q = 1..n, q = [i \in 1..n |-> q[i]]
  PROVE  IsSeq(q) /\ Len(q) = n
<1>1. \A i \in 1..n : q[i] \in {q[j] : j \in DOMAIN q}
  OBVIOUS
<1>2. q \in Seq({q[j] : j \in DOMAIN q})
  BY <1>1
<1> QED BY <1>2 DEF IsSeq

LEMMA AppendSeq ==
  ASSUME NEW s, IsSeq(s), NEW e
  PROVE  /\ IsSeq(Append(s, e))
         /\ DOMAIN Append(s, e) = 1..(Len(s) + 1)
         /\ \A i \in DOMAIN s : Append(s, e)[i] = s[i]
         /\ Append(s, e)[Len(s) + 1] = e
<1> DEFINE S == {s[i] : i \in DOMAIN s} \cup {e}
           n == Len(s)
           q == Append(s, e)
<1>1. n \in Nat /\ DOMAIN s = 1..n /\ s = [i \in 1..n |-> s[i]]
      /\ \A i \in 1..n : s[i] \in S
  BY DEF IsSeq
<1>2. e \in S
  OBVIOUS
<1> HIDE DEF S
<1>3. s \in Seq(S)
  BY <1>1
<1>4. /\ q \in Seq(S) /\ Len(q) = n + 1 /\ DOMAIN q = 1..(n + 1)
      /\ \A i \in 1..n : q[i] = s[i]
      /\ q[n + 1] = e
  BY <1>1, <1>2, <1>3
<1> HIDE DEF q
<1>5. q = [i \in 1..Len(q) |-> q[i]] /\ Len(q) \in Nat
  BY <1>1, <1>4
<1>6. IsSeq(q)
  BY <1>1, <1>4, <1>5, SeqOf
<1> QED BY <1>1, <1>4, <1>6 DEF q

\* Attempts change in other columns than the comment.
AttemptsKept(att, m) ==
  /\ IsSeq(m) /\ DOMAIN m = DOMAIN att
  /\ \A a \in DOMAIN att : "comment" \in DOMAIN m[a] /\ m[a].comment = att[a].comment

AttemptsOK(att) == IsSeq(att) /\ \A a \in DOMAIN att : "comment" \in DOMAIN att[a]

\* An attempt that changes keeps the comment that asked for it.
LEMMA UpdateKept ==
  ASSUME NEW att, AttemptsOK(att), NEW a, NEW x,
         a \in DOMAIN att => "comment" \in DOMAIN x /\ x.comment = att[a].comment
  PROVE  AttemptsKept(att, [att EXCEPT ![a] = x])
<1> DEFINE q == [att EXCEPT ![a] = x]
           n == Len(att)
<1>1. n \in Nat /\ DOMAIN att = 1..n
  BY SeqDomain DEF AttemptsOK
<1>2. DOMAIN q = 1..n /\ q = [i \in 1..n |-> q[i]]
      /\ \A i \in 1..n : q[i] = IF i = a THEN x ELSE att[i]
  BY <1>1
<1> HIDE DEF q
<1>3. IsSeq(q)
  BY <1>1, <1>2, SeqOf
<1>4. AttemptsKept(att, q)
  BY <1>1, <1>2, <1>3 DEF AttemptsKept, AttemptsOK
<1> QED BY <1>4 DEF q

\* Finishing, starting or leaving an attempt.
LEMMA MoveKept ==
  ASSUME NEW r, AttemptsOK(r.attempts), NEW p, NEW a,
         ~(r.status = "revision_requested" /\ p.to = "queued")
  PROVE  AttemptsKept(r.attempts, MoveAttempts(r, p, a))
<1> DEFINE att == r.attempts
           done == [att[a] EXCEPT !.status = p.to]
           begun == [att[a] EXCEPT !.startedAt = 1]
<1>1. \/ MoveAttempts(r, p, a) = [att EXCEPT ![a] = done]
      \/ MoveAttempts(r, p, a) = [att EXCEPT ![a] = begun]
      \/ MoveAttempts(r, p, a) = att
  BY DEF MoveAttempts
<1>2. a \in DOMAIN att => "comment" \in DOMAIN done /\ done.comment = att[a].comment
  BY DEF AttemptsOK
<1>3. a \in DOMAIN att => "comment" \in DOMAIN begun /\ begun.comment = att[a].comment
  BY DEF AttemptsOK
<1> HIDE DEF done, begun
<1>4. AttemptsKept(att, [att EXCEPT ![a] = done])
  BY <1>2, UpdateKept
<1>5. AttemptsKept(att, [att EXCEPT ![a] = begun])
  BY <1>3, UpdateKept
<1>6. AttemptsKept(att, att)
  BY DEF AttemptsKept, AttemptsOK
<1> QED BY <1>1, <1>4, <1>5, <1>6

\* A row whose attempts keep their comments and whose timeline grows.
Keeps(r, s) ==
  /\ RowOK(s)
  /\ AttemptsKept(r.attempts, s.attempts)
  /\ KeysOf(r) \subseteq KeysOf(s)

\* Keeping comments and keys is reflexive and transitive, and keeps the
\* invariant.
LEMMA KeepsRefl ==
  ASSUME NEW r, RowOK(r)
  PROVE  Keeps(r, r)
BY DEF Keeps, RowOK, AttemptsKept

LEMMA KeepsTrans ==
  ASSUME NEW r, NEW s, NEW u, Keeps(r, s), Keeps(s, u)
  PROVE  Keeps(r, u)
BY DEF Keeps, AttemptsKept

LEMMA KeepsInv ==
  ASSUME NEW r, NEW s, RowInv(r), Keeps(r, s)
  PROVE  RowInv(s) /\ FirstComment(s) = FirstComment(r)
BY DEF RowInv, RowOK, RevisionsOK, Keeps, AttemptsKept, FirstComment

\* insertEvent adds a key and changes no attempt.
LEMMA InsertKeeps ==
  ASSUME NEW r, DOMAIN r = Columns, IsSeq(r.log), NEW a, NEW from, NEW type, NEW key,
         NEW s, s = insertEvent(r, a, from, type, key)
  PROVE  /\ DOMAIN s = Columns /\ IsSeq(s.log)
         /\ s.status = r.status /\ s.attempts = r.attempts
         /\ KeysOf(s) = KeysOf(r) \cup {key}
<1>1. PICK e : e.key = key /\ s = [r EXCEPT !.log = Append(r.log, e)]
  <2> DEFINE seq == Max(SequenceNumbers(r.log, a) \cup {0}) + 1
  <2>1. s = [r EXCEPT !.log = Append(r.log, Event(a, seq, from, type, key))]
    BY DEF insertEvent
  <2>2. Event(a, seq, from, type, key).key = key
    BY DEF Event
  <2> HIDE DEF seq
  <2> QED BY <2>1, <2>2
<1>2. /\ DOMAIN s = Columns /\ s.log = Append(r.log, e)
      /\ s.status = r.status /\ s.attempts = r.attempts
  BY <1>1 DEF Columns
<1>3. /\ IsSeq(s.log) /\ Len(r.log) \in Nat /\ DOMAIN r.log = 1..Len(r.log)
      /\ DOMAIN s.log = 1..(Len(r.log) + 1)
      /\ \A i \in DOMAIN r.log : s.log[i] = r.log[i]
      /\ s.log[Len(r.log) + 1] = e
  BY <1>2, AppendSeq, SeqDomain
<1>4. \A k : k \in KeysOf(s) <=> k \in KeysOf(r) \cup {key}
  BY <1>1, <1>3 DEF KeysOf
<1> QED BY <1>2, <1>3, <1>4

\* An event on an existing row.
LEMMA NoteKeeps ==
  ASSUME NEW r, RowOK(r), NEW a, NEW from, NEW type, NEW key
  PROVE  Keeps(r, insertEvent(r, a, from, type, key))
BY InsertKeeps DEF Keeps, RowOK, AttemptsKept

\* applyTransition, whatever becomes of the attempts.
LEMMA ApplyMeans ==
  ASSUME NEW r, DOMAIN r = Columns, IsSeq(r.log), NEW p,
         NEW s, s = applyTransition(r, p)
  PROVE  /\ DOMAIN s = Columns /\ IsSeq(s.log) /\ s.status = p.to
         /\ s.attempts = MoveAttempts(r, p, ActiveAttempt(r))
         /\ KeysOf(s) = KeysOf(r) \cup {p.key}
<1> DEFINE a == ActiveAttempt(r)
           m == MoveAttempts(r, p, a)
           moved == [r EXCEPT !.status = p.to, !.version = r.version + 1,
                       !.startedAt = IF p.to = "provisioning" THEN 1 ELSE r.startedAt,
                       !.attempts = m]
<1>1. s = insertEvent(moved, EventAttempt(r, p, a), r.status, p.to, p.key)
  BY DEF applyTransition, Columns
<1> HIDE DEF m, a
<1>2. /\ DOMAIN moved = Columns /\ moved.log = r.log /\ moved.status = p.to
      /\ moved.attempts = m
  BY DEF Columns
<1> HIDE DEF moved
<1>3. /\ DOMAIN s = Columns /\ IsSeq(s.log)
      /\ s.status = p.to /\ s.attempts = m
      /\ KeysOf(s) = KeysOf(moved) \cup {p.key}
  BY <1>1, <1>2, InsertKeeps
<1>4. KeysOf(moved) = KeysOf(r)
  BY <1>2 DEF KeysOf
<1> QED BY <1>3, <1>4 DEF m, a

\* The parameters of a transition.
LEMMA ParamsFields ==
  ASSUME NEW to, NEW key, NEW expect
  PROVE  Params(to, key, expect).to = to /\ Params(to, key, expect).key = key
BY DEF Params

\* A transition other than the second half of a revision.
LEMMA TransitionKeeps ==
  ASSUME NEW r, RowOK(r), NEW p,
         ~(r.status = "revision_requested" /\ p.to = "queued")
  PROVE  Keeps(r, applyTransition(r, p))
<1> DEFINE s == applyTransition(r, p)
           m == MoveAttempts(r, p, ActiveAttempt(r))
<1>1. /\ DOMAIN s = Columns /\ IsSeq(s.log) /\ s.attempts = m
      /\ KeysOf(s) = KeysOf(r) \cup {p.key}
  BY ApplyMeans DEF RowOK
<1>2. AttemptsKept(r.attempts, m)
  BY MoveKept DEF RowOK, AttemptsOK
<1> HIDE DEF s, m
<1>3. Keeps(r, s)
  BY <1>1, <1>2 DEF Keeps, RowOK, AttemptsKept
<1> QED BY <1>3 DEF s

\* RequestRevision: one more attempt, with the comment that asked for it, and the
\* key of the comment in the timeline.
LEMMA RevisedRowMeans ==
  ASSUME NEW r, RowOK(r), NEW key, NEW comment, NEW base,
         NEW s, s = RevisedRow(r, key, comment, base)
  PROVE  /\ RowOK(s)
         /\ DOMAIN s.attempts = 1..(Len(r.attempts) + 1)
         /\ \A a \in DOMAIN r.attempts : s.attempts[a].comment = r.attempts[a].comment
         /\ s.attempts[Len(r.attempts) + 1].comment = comment
         /\ KeysOf(r) \cup {key} \subseteq KeysOf(s)
<1> DEFINE p == Params("revision_requested", key, 0)
           mid == applyTransition(r, p)
           q == RevisionParams(comment, base)
<1>1. s = applyTransition(mid, q)
  BY DEF RevisedRow
<1>2. /\ p.to = "revision_requested" /\ p.key = key
      /\ q.to = "queued" /\ q.comment = comment
  BY ParamsFields DEF RevisionParams
<1> HIDE DEF p, q
<1>3. /\ DOMAIN mid = Columns /\ IsSeq(mid.log) /\ mid.status = "revision_requested"
      /\ mid.attempts = r.attempts /\ KeysOf(mid) = KeysOf(r) \cup {key}
  <2>1. DOMAIN r = Columns /\ IsSeq(r.log)
    BY DEF RowOK
  <2>2. /\ DOMAIN mid = Columns /\ IsSeq(mid.log) /\ mid.status = p.to
        /\ mid.attempts = MoveAttempts(r, p, ActiveAttempt(r))
        /\ KeysOf(mid) = KeysOf(r) \cup {p.key}
    BY <2>1, ApplyMeans
  <2>3. MoveAttempts(r, p, ActiveAttempt(r)) = r.attempts
    BY <1>2 DEF MoveAttempts, Terminal, PhaseTerminal
  <2> QED BY <1>2, <2>2, <2>3
<1> HIDE DEF mid
<1> DEFINE a == ActiveAttempt(mid)
           att == r.attempts
           m == MoveAttempts(mid, q, a)
<1>4. /\ DOMAIN s = Columns /\ IsSeq(s.log) /\ s.attempts = m
      /\ KeysOf(mid) \subseteq KeysOf(s)
  <2>1. DOMAIN mid = Columns /\ IsSeq(mid.log)
    BY <1>3
  <2>2. /\ DOMAIN s = Columns /\ IsSeq(s.log)
        /\ s.attempts = MoveAttempts(mid, q, ActiveAttempt(mid))
        /\ KeysOf(s) = KeysOf(mid) \cup {q.key}
    BY <1>1, <2>1, ApplyMeans
  <2> QED BY <2>2
<1> DEFINE x == [att[a] EXCEPT !.status = "superseded"]
           old == [att EXCEPT ![a] = x]
           new == NewAttempt(att[a].number + 1, q.comment, q.base)
<1>5. m = Append(old, new)
  BY <1>2, <1>3 DEF MoveAttempts, Terminal, PhaseTerminal
<1>6. AttemptsOK(att) /\ Len(att) \in Nat /\ DOMAIN att = 1..Len(att)
  BY SeqDomain DEF RowOK, AttemptsOK
<1>7. a \in DOMAIN att => "comment" \in DOMAIN x /\ x.comment = att[a].comment
  BY <1>6 DEF AttemptsOK
<1>8. "comment" \in DOMAIN new /\ new.comment = comment
  BY <1>2 DEF NewAttempt
<1> HIDE DEF m, a, x, new
<1>9. AttemptsKept(att, old)
  BY <1>6, <1>7, UpdateKept
<1> HIDE DEF old
<1>10. IsSeq(old) /\ DOMAIN old = 1..Len(att) /\ Len(old) = Len(att)
  BY <1>6, <1>9, SeqDomain DEF AttemptsKept
<1>11. /\ IsSeq(m) /\ DOMAIN m = 1..(Len(att) + 1)
       /\ \A i \in DOMAIN old : m[i] = old[i]
       /\ m[Len(att) + 1] = new
  BY <1>5, <1>10, AppendSeq
<1>12. \A i \in DOMAIN att : "comment" \in DOMAIN m[i] /\ m[i].comment = att[i].comment
  BY <1>6, <1>9, <1>10, <1>11 DEF AttemptsKept
<1>13. \A i \in DOMAIN m : "comment" \in DOMAIN m[i]
  BY <1>6, <1>8, <1>11, <1>12
<1>14. RowOK(s)
  BY <1>4, <1>6, <1>11, <1>13 DEF RowOK
<1> QED BY <1>3, <1>4, <1>8, <1>11, <1>12, <1>14

\* Create: one attempt, with the comment of the command.
LEMMA CreatedRowMeans ==
  ASSUME NEW issue, NEW comment, NEW s, s = CreatedRow(issue, comment)
  PROVE  RowInv(s) /\ FirstComment(s) = comment
<1> DEFINE first == NewAttempt(1, comment, NoValue)
           bare == [status |-> "created", version |-> 1, issue |-> issue,
                    base |-> NoValue, branch |-> NoValue, startedAt |-> 0,
                    attempts |-> <<first>>, log |-> <<>>]
           r == insertEvent(bare, 1, "none", "created", NoKey)
           p == Params("queued", NoKey, 0)
<1>1. s = applyTransition(r, p)
  BY DEF CreatedRow, InsertedRow
<1>2. "comment" \in DOMAIN first /\ first.comment = comment
  BY DEF NewAttempt
<1> HIDE DEF first
<1>3. DOMAIN bare = Columns
  BY DEF Columns
<1>4. IsSeq(bare.log) /\ IsSeq(<<first>>) /\ DOMAIN <<first>> = 1..1 /\ <<first>>[1] = first
  BY DEF IsSeq
<1>5. bare.status = "created" /\ bare.attempts = <<first>>
  OBVIOUS
<1> HIDE DEF bare, p
<1>6. /\ DOMAIN r = Columns /\ IsSeq(r.log)
      /\ r.status = "created" /\ r.attempts = <<first>>
  BY <1>3, <1>4, <1>5, InsertKeeps
<1> HIDE DEF r
<1>7. RowOK(r)
  BY <1>2, <1>4, <1>6 DEF RowOK
<1>8. Keeps(r, s)
  BY <1>1, <1>6, <1>7, TransitionKeeps
<1>9. RevisionsOK(r) /\ FirstComment(r) = comment
  BY <1>2, <1>4, <1>6 DEF RevisionsOK, FirstComment
<1> QED BY <1>7, <1>8, <1>9, KeepsInv DEF RowInv

\* RecordTriggerCheckRun writes another column of the attempts.
LEMMA CheckRunKeeps ==
  ASSUME NEW r, RowOK(r), NEW id
  PROVE  Keeps(r, CheckRunRow(r, id))
<1> DEFINE att == r.attempts
           s == CheckRunRow(r, id)
           m == [a \in DOMAIN att |->
                   IF att[a].status = "active" /\ att[a].checkRun = NoValue
                   THEN [att[a] EXCEPT !.checkRun = id] ELSE att[a]]
<1>1. s = [r EXCEPT !.attempts = m]
  BY DEF CheckRunRow
<1>2. Len(att) \in Nat /\ DOMAIN att = 1..Len(att)
  BY SeqDomain DEF RowOK
<1>3. \A a \in DOMAIN att : "comment" \in DOMAIN m[a] /\ m[a].comment = att[a].comment
  BY DEF RowOK
<1>4. DOMAIN m = 1..Len(att) /\ m = [i \in 1..Len(att) |-> m[i]]
  BY <1>2
<1> HIDE DEF m, s
<1>5. IsSeq(m)
  BY <1>2, <1>4, SeqOf
<1>6. DOMAIN s = Columns /\ s.log = r.log /\ s.attempts = m
  BY <1>1 DEF RowOK, Columns
<1>7. Keeps(r, s)
  BY <1>2, <1>3, <1>4, <1>5, <1>6 DEF Keeps, RowOK, AttemptsKept, KeysOf
<1> QED BY <1>7 DEF s

\* EnsureGitContext and RecordAttemptBase.
LEMMA ProvisionKeeps ==
  ASSUME NEW r, RowOK(r), NEW t, NEW commit
  PROVE  Keeps(r, ProvisionedRow(r, t, commit))
<1> DEFINE e == EnsuredRow(r, commit, t)
           att == r.attempts
<1>1. DOMAIN e = Columns /\ e.log = r.log /\ e.attempts = att
  BY DEF EnsuredRow, RowOK, Columns
<1> HIDE DEF e
<1> DEFINE new == IF att[1].base = NoValue THEN commit ELSE att[1].base
           x == [att[1] EXCEPT !.base = new]
           m == [att EXCEPT ![1] = x]
           s == AttemptBaseRow(e, 1, commit)
<1>2. s = [e EXCEPT !.attempts = m]
  BY <1>1 DEF AttemptBaseRow, Columns
<1>3. "comment" \in DOMAIN x /\ x.comment = att[1].comment
  BY DEF RowOK
<1> HIDE DEF x, s
<1>4. AttemptsKept(att, m)
  BY <1>3, UpdateKept DEF RowOK, AttemptsOK
<1> HIDE DEF m
<1>5. DOMAIN s = Columns /\ s.log = r.log /\ s.attempts = m
  BY <1>1, <1>2 DEF Columns
<1>6. Keeps(r, s)
  BY <1>4, <1>5 DEF Keeps, RowOK, AttemptsKept, KeysOf
<1> QED BY <1>6, KeepsRefl DEF ProvisionedRow, s, e

\* A runner takes a task through its stages without touching who asked for it.
LEMMA DrivenKeeps ==
  ASSUME NEW r, RowOK(r), NEW t, NEW commit
  PROVE  Keeps(r, DrivenRow(r, t, commit))
<1> DEFINE To(status, row) == applyTransition(row, Params(status, NoKey, 0))
<1>1. ASSUME NEW row, RowOK(row), NEW status, status # "queued"
      PROVE  Keeps(row, To(status, row))
  <2> DEFINE p == Params(status, NoKey, 0)
  <2>1. p.to = status
    BY ParamsFields
  <2> HIDE DEF p
  <2>2. Keeps(row, applyTransition(row, p))
    BY <1>1, <2>1, TransitionKeeps
  <2> QED BY <2>2 DEF p
<1> DEFINE r0 == ProvisionedRow(r, t, commit)
           r1 == To("provisioning", r0)
           r2 == To("planning", r1)
           r3 == To("executing", r2)
           r4 == To("validating", r3)
           r5 == To("publishing", r4)
<1>2. DrivenRow(r, t, commit) = r5
  BY DEF DrivenRow
<1> HIDE DEF To
<1>3. Keeps(r, r0) /\ RowOK(r0)
  BY ProvisionKeeps DEF Keeps
<1> HIDE DEF r0
<1>4. Keeps(r, r1) /\ RowOK(r1)
  BY <1>1, <1>3, KeepsTrans DEF Keeps
<1> HIDE DEF r1
<1>5. Keeps(r, r2) /\ RowOK(r2)
  BY <1>1, <1>4, KeepsTrans DEF Keeps
<1> HIDE DEF r2
<1>6. Keeps(r, r3) /\ RowOK(r3)
  BY <1>1, <1>5, KeepsTrans DEF Keeps
<1> HIDE DEF r3
<1>7. Keeps(r, r4) /\ RowOK(r4)
  BY <1>1, <1>6, KeepsTrans DEF Keeps
<1> HIDE DEF r4
<1>8. Keeps(r, r5)
  BY <1>1, <1>7, KeepsTrans DEF Keeps
<1> QED BY <1>2, <1>8

-----------------------------------------------------------------------------
(* Writes to the task store.                                               *)

\* No task is created and none changes the comment it was created by.
StoreSame(store, next) ==
  /\ TasksOK(next) /\ DOMAIN next = DOMAIN store
  /\ \A t \in DOMAIN store : FirstComment(next[t]) = FirstComment(store[t])

\* One task is created, by the given comment.
StoreMade(store, next, t, comment) ==
  /\ TasksOK(next) /\ t \notin DOMAIN store /\ DOMAIN next = DOMAIN store \cup {t}
  /\ FirstComment(next[t]) = comment
  /\ \A u \in DOMAIN store : FirstComment(next[u]) = FirstComment(store[u])

\* A write that creates no task leaves each with the comment that started it.
LEMMA SameIsSame ==
  ASSUME TasksOK(tasks), UNCHANGED tasks
  PROVE  StoreSame(tasks, tasks')
BY DEF StoreSame

LEMMA PutSame ==
  ASSUME TasksOK(tasks), NEW t \in DOMAIN tasks, NEW s, Store!Put(t, s),
         RowInv(s), FirstComment(s) = FirstComment(tasks[t])
  PROVE  StoreSame(tasks, tasks')
<1>1. /\ DOMAIN tasks' = DOMAIN tasks
      /\ \A u \in DOMAIN tasks : tasks'[u] = IF u = t THEN s ELSE tasks[u]
  BY DEF Store!Put
<1>2. TasksOK(tasks')
  BY <1>1 DEF TasksOK
<1>3. \A u \in DOMAIN tasks : FirstComment(tasks'[u]) = FirstComment(tasks[u])
  BY <1>1 DEF FirstComment
<1> QED BY <1>1, <1>2, <1>3 DEF StoreSame

LEMMA PutKeeps ==
  ASSUME TasksOK(tasks), NEW t \in DOMAIN tasks, NEW s, Store!Put(t, s),
         Keeps(tasks[t], s)
  PROVE  StoreSame(tasks, tasks')
<1>1. RowInv(tasks[t])
  BY DEF TasksOK
<1>2. RowInv(s) /\ FirstComment(s) = FirstComment(tasks[t])
  BY <1>1, KeepsInv
<1> QED BY <1>2, PutSame

LEMMA TransitionSame ==
  ASSUME TasksOK(tasks), NEW t \in DOMAIN tasks, NEW to, to # "queued", NEW key,
         Store!Transition(t, to, key, 0)
  PROVE  StoreSame(tasks, tasks')
<1> DEFINE p == Params(to, key, 0)
<1>1. Store!Put(t, applyTransition(tasks[t], p))
  BY StoreRows DEF Store!Transition
<1>2. p.to # "queued" /\ RowOK(tasks[t])
  BY ParamsFields DEF TasksOK, RowInv
<1> HIDE DEF p
<1>3. Keeps(tasks[t], applyTransition(tasks[t], p))
  BY <1>2, TransitionKeeps
<1> QED BY <1>1, <1>3, PutKeeps

LEMMA CancelSame ==
  ASSUME TasksOK(tasks), NEW t \in DOMAIN tasks, Store!Cancel(t)
  PROVE  StoreSame(tasks, tasks')
<1>1. Store!Transition(t, "cancelled", NoKey, 0)
  BY DEF Store!Cancel, Store!Transition
<1> QED BY <1>1, TransitionSame

\* A revision that was not refused was asked for by a comment that no attempt has.
LEMMA RevisionSame ==
  ASSUME TasksOK(tasks), NEW t \in DOMAIN tasks, NEW comment \in Comments, NEW base,
         FirstComment(tasks[t]) # comment,
         Store!RequestRevision(t, <<"revise", comment>>, comment, base)
  PROVE  StoreSame(tasks, tasks')
<1> DEFINE key == <<"revise", comment>>
           r == tasks[t]
           s == RevisedRow(r, key, comment, base)
           n == Len(r.attempts) + 1
<1>1. RowInv(r) /\ Len(r.attempts) \in Nat /\ DOMAIN r.attempts = 1..Len(r.attempts)
  BY SeqDomain DEF TasksOK, RowInv, RowOK
<1>2. key # NoKey
  BY CommandKeysAssumption DEF CommandKeys
<1>3. RevisionOutcome(r, MaxAttempts, key) = "applied" /\ Store!Put(t, s)
  BY StoreRows DEF Store!RequestRevision
<1>4. key \notin KeysOf(r)
  BY <1>2, <1>3 DEF RevisionOutcome, KeySeen, KeysOf
<1>5. \A a \in DOMAIN r.attempts : r.attempts[a].comment # comment
  BY <1>1, <1>4 DEF RowInv, RevisionsOK, FirstComment
<1> HIDE DEF r
<1>6. /\ RowOK(s) /\ DOMAIN s.attempts = 1..n
      /\ \A a \in DOMAIN r.attempts : s.attempts[a].comment = r.attempts[a].comment
      /\ s.attempts[n].comment = comment
      /\ KeysOf(r) \cup {key} \subseteq KeysOf(s)
  BY <1>1, RevisedRowMeans DEF RowInv
<1> HIDE DEF s
<1>7. \A a \in 1..n : a \in DOMAIN r.attempts \/ a = n
  BY <1>1
<1>8. \A a \in DOMAIN s.attempts : a # 1 => <<"revise", s.attempts[a].comment>> \in KeysOf(s)
  BY <1>1, <1>6, <1>7 DEF RowInv, RevisionsOK
<1>9. \A a, b \in DOMAIN s.attempts : a # b => s.attempts[a].comment # s.attempts[b].comment
  BY <1>1, <1>5, <1>6, <1>7 DEF RowInv, RevisionsOK
<1>10. RowInv(s)
  BY <1>6, <1>8, <1>9 DEF RowInv, RevisionsOK
<1>11. FirstComment(s) = FirstComment(r)
  BY <1>1, <1>6 DEF FirstComment, RowInv, RowOK
<1> QED BY <1>3, <1>10, <1>11, PutSame DEF r

LEMMA NoteSame ==
  ASSUME TasksOK(tasks), NEW t \in DOMAIN tasks, Store!AppendEvent(t)
  PROVE  StoreSame(tasks, tasks')
<1>1. PICK a : Store!Put(t, insertEvent(tasks[t], a, "none", "note", NoKey))
  BY StoreRows DEF Store!AppendEvent
<1>2. Keeps(tasks[t], insertEvent(tasks[t], a, "none", "note", NoKey))
  BY NoteKeeps DEF TasksOK, RowInv
<1> QED BY <1>1, <1>2, PutKeeps

LEMMA CheckRunSame ==
  ASSUME TasksOK(tasks), NEW t \in DOMAIN tasks, NEW id, Store!RecordTriggerCheckRun(t, id)
  PROVE  StoreSame(tasks, tasks')
<1>1. Store!Put(t, CheckRunRow(tasks[t], id))
  BY StoreRows DEF Store!RecordTriggerCheckRun
<1>2. Keeps(tasks[t], CheckRunRow(tasks[t], id))
  BY CheckRunKeeps DEF TasksOK, RowInv
<1> QED BY <1>1, <1>2, PutKeeps

\* And Create adds one task, asked for by its comment.
LEMMA CreateMakes ==
  ASSUME TasksOK(tasks), NEW t, NEW issue, NEW comment, Store!Create(t, issue, comment)
  PROVE  StoreMade(tasks, tasks', t, comment)
<1> DEFINE s == CreatedRow(issue, comment)
<1>1. t \notin DOMAIN tasks /\ Store!Put(t, s)
  BY StoreRows DEF Store!Create
<1>2. RowInv(s) /\ FirstComment(s) = comment
  BY CreatedRowMeans
<1> HIDE DEF s
<1>3. /\ DOMAIN tasks' = DOMAIN tasks \cup {t} /\ tasks'[t] = s
      /\ \A u \in DOMAIN tasks : tasks'[u] = tasks[u]
  BY <1>1 DEF Store!Put
<1>4. TasksOK(tasks')
  BY <1>2, <1>3 DEF TasksOK
<1> QED BY <1>1, <1>2, <1>3, <1>4 DEF StoreMade, FirstComment

-----------------------------------------------------------------------------
(* What a step means for the deliveries.                                   *)

\* A delivery is where it may be if the tasks keep their comments, or if
\* another comment started one.
LEMMA DeliverySame ==
  ASSUME NEW d \in Deliveries, NEW e, NEW store, NEW next, NEW l, NEW w,
         DeliveryOK(d, e, store, l, w), StoreSame(store, next)
  PROVE  DeliveryOK(d, e, next, l, w)
<1>1. HandlerOK(d, e, next)
  BY DEF DeliveryOK, HandlerOK, StoreSame, After
<1>2. StartedOnce(d, e, store, l) => StartedOnce(d, e, next, l)
  BY DEF StartedOnce, StoreSame
<1> QED BY <1>1, <1>2 DEF DeliveryOK

LEMMA DeliveryMade ==
  ASSUME NEW d \in Deliveries, NEW e, NEW store, NEW next, NEW l, NEW w, NEW t, NEW comment,
         DeliveryOK(d, e, store, l, w), StoreMade(store, next, t, comment),
         RunsDistinct /\ CommandOf[d].verb = "run" => CommandOf[d].comment # comment
  PROVE  DeliveryOK(d, e, next, l, w)
<1>1. HandlerOK(d, e, next)
  BY DEF DeliveryOK, HandlerOK, StoreMade, After
<1>2. RunsDistinct /\ StartedOnce(d, e, store, l) => StartedOnce(d, e, next, l)
  BY DEF StartedOnce, StoreMade
<1> QED BY <1>1, <1>2 DEF DeliveryOK

\* The others are where they were, and d is where it may be.
LEMMA OneMoves ==
  ASSUME WebhookInv, NEW d \in Deliveries, NEW e, NEW l, NEW w,
         proc' = [proc EXCEPT ![d] = e], ledger' = [ledger EXCEPT ![d] = l],
         replies' = [replies EXCEPT ![d] = w],
         TasksOK(tasks'),
         \A c \in Deliveries \ {d} : DeliveryOK(c, proc[c], tasks', ledger[c], replies[c]),
         DeliveryOK(d, e, tasks', l, w)
  PROVE  WebhookInv'
<1>1. /\ proc' = [c \in Deliveries |-> proc'[c]]
      /\ ledger' = [c \in Deliveries |-> ledger'[c]]
      /\ replies' = [c \in Deliveries |-> replies'[c]]
      /\ proc'[d] = e /\ ledger'[d] = l /\ replies'[d] = w
      /\ \A c \in Deliveries \ {d} :
           proc'[c] = proc[c] /\ ledger'[c] = ledger[c] /\ replies'[c] = replies[c]
  BY DEF WebhookInv
<1>2. \A c \in Deliveries : DeliveryOK(c, proc'[c], tasks', ledger'[c], replies'[c])
  BY <1>1
<1> QED BY <1>1, <1>2 DEF WebhookInv

\* The same for a step that starts no task.
LEMMA OneMovesSame ==
  ASSUME WebhookInv, NEW d \in Deliveries, NEW e, NEW l, NEW w,
         proc' = [proc EXCEPT ![d] = e], ledger' = [ledger EXCEPT ![d] = l],
         replies' = [replies EXCEPT ![d] = w],
         StoreSame(tasks, tasks'), DeliveryOK(d, e, tasks', l, w)
  PROVE  WebhookInv'
<1>1. \A c \in Deliveries : DeliveryOK(c, proc[c], tasks', ledger[c], replies[c])
  BY DeliverySame DEF WebhookInv
<1>2. TasksOK(tasks')
  BY DEF StoreSame
<1> QED BY <1>1, <1>2, OneMoves

\* What a handler that answers nothing may do next: it goes on asking whether a
\* task is wanted only from where it asked, and stays silent only from there.
SilentPcs == Before \cup {"check_run", "check_record", "check_event", "ack"}

FlowOK(e, f) ==
  /\ e.pc \in Before \cup After
  /\ f.pc \in Before \cup After \cup {"mark"}
  /\ f.pc \in {"guard", "lookup", "create"} => e.pc \in {"guard", "lookup", "create"}
  /\ f.pc = "mark" => f.outcome \in {"processed", "ignored", "failed"}
  /\ f.pc \in SilentPcs => e.pc \in SilentPcs
  /\ f.pc = "mark" /\ f.outcome = "ignored" => e.pc \in SilentPcs

\* A step of a handler that draws no reply and does not end it.
LEMMA FlowKeeps ==
  ASSUME NEW d \in Deliveries, NEW e, NEW f, NEW store, NEW next, NEW l, NEW w,
         DeliveryOK(d, e, store, l, w), StoreSame(store, next),
         FlowOK(e, f), HandlerOK(d, f, next)
  PROVE  DeliveryOK(d, f, next, l, w)
<1>1. e.pc \notin {"idle", "mark"} /\ f.pc # "idle"
  BY DEF FlowOK, Before, After
<1>2. l = "pending"
  BY <1>1 DEF DeliveryOK, LedgerOK
<1>3. Silent(f, l) => Silent(e, l)
  BY <1>2 DEF Silent, FlowOK, SilentPcs
<1>4. LedgerOK(f, l, w)
  BY <1>1, <1>2, <1>3 DEF DeliveryOK, LedgerOK, FlowOK, Before, After
<1>5. Unstarted(f, l) => Unstarted(e, l)
  BY <1>2 DEF Unstarted, FlowOK
<1>6. StartedOnce(d, e, store, l) => StartedOnce(d, f, next, l)
  BY <1>5 DEF StartedOnce, StoreSame
<1> QED BY <1>4, <1>6 DEF DeliveryOK

LEMMA FlowStep ==
  ASSUME WebhookInv, NEW d \in Deliveries, NEW f, Goto(d, f), UNCHANGED <<ledger, replies>>,
         StoreSame(tasks, tasks'), FlowOK(proc[d], f), HandlerOK(d, f, tasks')
  PROVE  WebhookInv'
<1>1. /\ proc' = [proc EXCEPT ![d] = f] /\ ledger' = [ledger EXCEPT ![d] = ledger[d]]
      /\ replies' = [replies EXCEPT ![d] = replies[d]]
  BY DEF Goto, WebhookInv
<1>2. DeliveryOK(d, f, tasks', ledger[d], replies[d])
  BY FlowKeeps DEF WebhookInv
<1> QED BY <1>1, <1>2, OneMovesSame

\* The record of a handler as its steps change it.
LEMMA MoveFields ==
  ASSUME WebhookInv, NEW d \in Deliveries, NEW pc, NEW outcome, NEW t, NEW status
  PROVE  /\ At(d, pc).pc = pc /\ At(d, pc).task = proc[d].task
         /\ At(d, pc).outcome = proc[d].outcome
         /\ DOMAIN At(d, pc) = {"pc", "task", "status", "outcome"}
         /\ Done(d, outcome).pc = "mark" /\ Done(d, outcome).outcome = outcome
         /\ DOMAIN Done(d, outcome) = {"pc", "task", "status", "outcome"}
         /\ [At(d, pc) EXCEPT !.task = t].pc = pc /\ [At(d, pc) EXCEPT !.task = t].task = t
         /\ [At(d, pc) EXCEPT !.task = t].outcome = proc[d].outcome
         /\ DOMAIN [At(d, pc) EXCEPT !.task = t] = {"pc", "task", "status", "outcome"}
         /\ [At(d, pc) EXCEPT !.task = t, !.status = status].pc = pc
         /\ [At(d, pc) EXCEPT !.task = t, !.status = status].task = t
         /\ [At(d, pc) EXCEPT !.task = t, !.status = status].outcome = proc[d].outcome
         /\ DOMAIN [At(d, pc) EXCEPT !.task = t, !.status = status]
              = {"pc", "task", "status", "outcome"}
<1>1. DOMAIN proc[d] = {"pc", "task", "status", "outcome"}
  BY DEF WebhookInv, DeliveryOK, HandlerOK
<1> QED BY <1>1 DEF At, Done

\* A revise command has a comment.
LEMMA ReviseComment ==
  ASSUME NEW d \in Deliveries, CommandOf[d].verb = "revise"
  PROVE  CommandOf[d].comment \in Comments
BY WebhookAssumption DEF Command

-----------------------------------------------------------------------------
(* The steps.                                                              *)

\* No delivery has arrived.
LEMMA InitWebhook == Init => WebhookInv
<1> SUFFICES ASSUME Init PROVE WebhookInv
  OBVIOUS
<1>1. /\ DOMAIN tasks = {}
      /\ proc = [d \in Deliveries |-> Idle] /\ ledger = [d \in Deliveries |-> "none"]
      /\ replies = [d \in Deliveries |-> << >>]
  BY DEF Init
<1>2. TasksOK(tasks)
  BY <1>1 DEF TasksOK
<1>3. ASSUME NEW d \in Deliveries
      PROVE  DeliveryOK(d, proc[d], tasks, ledger[d], replies[d])
  <2>1. proc[d] = Idle /\ ledger[d] = "none" /\ replies[d] = << >>
    BY <1>1
  <2>2. HandlerOK(d, Idle, tasks)
    BY DEF HandlerOK, Idle, Before, After
  <2>3. LedgerOK(Idle, "none", << >>)
    BY DEF LedgerOK, Idle
  <2>4. StartedOnce(d, Idle, tasks, "none")
    BY <1>1 DEF StartedOnce
  <2> QED BY <2>1, <2>2, <2>3, <2>4 DEF DeliveryOK
<1> QED BY <1>1, <1>2, <1>3 DEF WebhookInv

\* GitHub, the reviewers and the runners touch no delivery and keep the comments.
LEMMA WorldStep ==
  ASSUME WebhookInv, NEW t \in DOMAIN tasks,
         \/ RunnerDrives(t) \/ RunnerFinishes(t) \/ ApiCancel(t)
         \/ \E how \in {"merged", "closed"} : CloseRequest(t, how)
  PROVE  WebhookInv'
<1>1. UNCHANGED <<ledger, proc, replies>>
  BY DEF RunnerDrives, RunnerFinishes, ApiCancel, CloseRequest, outside
<1>2. TasksOK(tasks)
  BY DEF WebhookInv
<1>3. StoreSame(tasks, tasks')
  <2>1. CASE RunnerDrives(t)
    <3>1. PICK v \in Commits : Store!Put(t, DrivenRow(tasks[t], t, v))
      BY <2>1 DEF RunnerDrives
    <3>2. Keeps(tasks[t], DrivenRow(tasks[t], t, v))
      BY <1>2, DrivenKeeps DEF TasksOK, RowInv
    <3> QED BY <1>2, <3>1, <3>2, PutKeeps
  <2>2. CASE RunnerFinishes(t)
    BY <2>2, <1>2, TransitionSame DEF RunnerFinishes
  <2>3. CASE ApiCancel(t)
    BY <2>3, <1>2, CancelSame DEF ApiCancel
  <2>4. CASE \E how \in {"merged", "closed"} : CloseRequest(t, how)
    BY <2>4, <1>2, SameIsSame DEF CloseRequest
  <2> QED BY <2>1, <2>2, <2>3, <2>4
<1>4. TasksOK(tasks')
  BY <1>3 DEF StoreSame
<1>5. \A d \in Deliveries : DeliveryOK(d, proc'[d], tasks', ledger'[d], replies'[d])
  BY <1>1, <1>3, DeliverySame DEF WebhookInv
<1> QED BY <1>1, <1>4, <1>5 DEF WebhookInv

\* A new delivery is pending, a repeated one is dropped.
LEMMA ServeStep ==
  ASSUME WebhookInv, NEW d \in Deliveries, ServeHTTP(d)
  PROVE  WebhookInv'
<1>1. UNCHANGED <<tasks, replies>> /\ TasksOK(tasks)
  BY DEF ServeHTTP, WebhookInv
<1>2. StoreSame(tasks, tasks')
  BY <1>1, SameIsSame
<1>3. CASE ~RecordDelivery(d)
  BY <1>1, <1>3 DEF ServeHTTP, WebhookInv
<1>4. CASE RecordDelivery(d)
  <2> DEFINE f == [Idle EXCEPT !.pc = IF CommandOf[d].verb = "closed" THEN "lookup" ELSE "guard"]
  <2>1. /\ ledger[d] = "none" /\ ledger' = [ledger EXCEPT ![d] = "pending"]
        /\ proc' = [proc EXCEPT ![d] = f]
        /\ replies' = [replies EXCEPT ![d] = replies[d]]
    BY <1>4 DEF ServeHTTP, RecordDelivery, WebhookInv
  <2>2. f.pc \in {"lookup", "guard"} /\ DOMAIN f = {"pc", "task", "status", "outcome"}
    BY DEF Idle
  <2> HIDE DEF f
  <2>3. DeliveryOK(d, proc[d], tasks', ledger[d], replies[d])
    BY <1>2, DeliverySame DEF WebhookInv
  <2>4. HandlerOK(d, f, tasks')
    BY <2>2 DEF HandlerOK, Before, After
  <2>5. LedgerOK(f, "pending", replies[d])
    BY <2>1, <2>2, <2>3 DEF DeliveryOK, LedgerOK, Silent, Before
  <2>6. RunsDistinct => StartedOnce(d, f, tasks', "pending")
    BY <2>1, <2>3 DEF DeliveryOK, StartedOnce, Unstarted
  <2>7. DeliveryOK(d, f, tasks', "pending", replies[d])
    BY <2>4, <2>5, <2>6 DEF DeliveryOK
  <2> QED BY <1>2, <2>1, <2>7, OneMovesSame
<1> QED BY <1>3, <1>4

\* The lookups and checks of a handler, and its steps after the durable task.
LEMMA ReadStep ==
  ASSUME WebhookInv, NEW d \in Deliveries,
         \/ Guard(d) \/ LookupIssue(d) \/ Relookup(d) \/ LookupRevised(d)
         \/ CreateCheckRun(d)
  PROVE  WebhookInv'
<1>1. TasksOK(tasks) /\ UNCHANGED <<tasks, ledger, replies>>
  BY DEF WebhookInv, Guard, LookupIssue, Relookup, LookupRevised, CreateCheckRun, still
<1>2. StoreSame(tasks, tasks') /\ HandlerOK(d, proc[d], tasks)
  BY <1>1, SameIsSame DEF WebhookInv, DeliveryOK
<1>3. CASE Guard(d)
  <2>1. PICK pc \in {"lookup", "refuse"} : proc[d].pc = "guard" /\ Goto(d, At(d, pc))
    BY <1>3 DEF Guard
  <2>2. FlowOK(proc[d], At(d, pc)) /\ HandlerOK(d, At(d, pc), tasks')
    BY <2>1, MoveFields DEF FlowOK, HandlerOK, Before, After, SilentPcs
  <2> QED BY <1>1, <1>2, <2>1, <2>2, FlowStep
<1>4. CASE LookupIssue(d)
  <2>1. PICK pc \in {"create", "refuse"} :
          proc[d].pc = "lookup" /\ CommandOf[d].verb = "run" /\ Goto(d, At(d, pc))
    BY <1>4 DEF LookupIssue
  <2>2. FlowOK(proc[d], At(d, pc)) /\ HandlerOK(d, At(d, pc), tasks')
    BY <2>1, MoveFields DEF FlowOK, HandlerOK, Before, After, SilentPcs
  <2> QED BY <1>1, <1>2, <2>1, <2>2, FlowStep
<1>5. CASE Relookup(d)
  <2>1. PICK f \in {Done(d, "failed"), At(d, "refuse")} :
          proc[d].pc = "relookup" /\ Goto(d, f)
    BY <1>5 DEF Relookup
  <2>2. FlowOK(proc[d], f) /\ HandlerOK(d, f, tasks')
    BY <2>1, MoveFields DEF FlowOK, HandlerOK, Before, After, SilentPcs
  <2> QED BY <1>1, <1>2, <2>1, <2>2, FlowStep
<1>6. CASE LookupRevised(d)
  <2> DEFINE t == CommandOf[d].task
  <2>1. proc[d].pc = "lookup" /\ CommandOf[d].verb = "revise"
    BY <1>6 DEF LookupRevised
  <2>2. CASE TaskForBranch(t)
    <3> DEFINE f == [At(d, "attempts") EXCEPT !.task = t, !.status = tasks[t].status]
    <3>1. Goto(d, f) /\ t \in DOMAIN tasks
      BY <1>6, <2>2 DEF LookupRevised, TaskForBranch
    <3>2. /\ f.pc = "attempts" /\ f.task = t /\ f.outcome = proc[d].outcome
          /\ DOMAIN f = {"pc", "task", "status", "outcome"}
      BY MoveFields
    <3> HIDE DEF f
    <3>3. FlowOK(proc[d], f) /\ HandlerOK(d, f, tasks')
      BY <1>1, <2>1, <3>1, <3>2 DEF FlowOK, HandlerOK, Before, After, SilentPcs
    <3> QED BY <1>1, <1>2, <3>1, <3>3, FlowStep
  <2>3. CASE ~TaskForBranch(t)
    <3>1. Goto(d, At(d, "refuse"))
      BY <1>6, <2>3 DEF LookupRevised
    <3>2. FlowOK(proc[d], At(d, "refuse")) /\ HandlerOK(d, At(d, "refuse"), tasks')
      BY <2>1, MoveFields DEF FlowOK, HandlerOK, Before, After, SilentPcs
    <3> QED BY <1>1, <1>2, <3>1, <3>2, FlowStep
  <2> QED BY <2>2, <2>3
<1>7. CASE CreateCheckRun(d)
  <2>1. proc[d].pc = "check_run" /\ Goto(d, At(d, "check_record"))
    BY <1>7 DEF CreateCheckRun
  <2>2. FlowOK(proc[d], At(d, "check_record")) /\ HandlerOK(d, At(d, "check_record"), tasks')
    BY <1>1, <1>2, <2>1, MoveFields DEF FlowOK, HandlerOK, Before, After, SilentPcs
  <2> QED BY <1>1, <1>2, <2>1, <2>2, FlowStep
<1> QED BY <1>3, <1>4, <1>5, <1>6, <1>7

\* A handler goes on to the revision only for a comment that created no attempt so
\* far, and none is created in the first place of a task afterwards.
LEMMA CheckStep ==
  ASSUME WebhookInv, NEW d \in Deliveries, CheckAttempts(d) \/ LookupClosed(d)
  PROVE  WebhookInv'
<1>1. TasksOK(tasks) /\ UNCHANGED <<tasks, ledger, replies>>
  BY DEF WebhookInv, CheckAttempts, LookupClosed, still
<1>2. StoreSame(tasks, tasks') /\ HandlerOK(d, proc[d], tasks)
  BY <1>1, SameIsSame DEF WebhookInv, DeliveryOK
<1>3. CASE CheckAttempts(d)
  <2>1. /\ proc[d].pc = "attempts" /\ CommandOf[d].verb = "revise"
        /\ proc[d].task = CommandOf[d].task /\ proc[d].task \in DOMAIN tasks
    BY <1>2, <1>3 DEF CheckAttempts, HandlerOK
  <2>2. PICK f \in {Done(d, "ignored"), At(d, "revise"), At(d, "refuse")} :
          /\ Goto(d, f)
          /\ f # Done(d, "ignored") => ~Attempted(proc[d].task, CommandOf[d].comment)
    BY <1>3 DEF CheckAttempts
  <2>3. f.pc = "revise" => FirstComment(tasks[proc[d].task]) # CommandOf[d].comment
    <3>1. 1 \in DOMAIN tasks[proc[d].task].attempts
      BY <1>1, <2>1 DEF TasksOK, RowInv, RowOK
    <3>2. Done(d, "ignored").pc # "revise"
      BY MoveFields
    <3> QED BY <2>2, <3>1, <3>2 DEF Attempted, FirstComment
  <2>4. /\ FlowOK(proc[d], f)
        /\ HandlerOK(d, f, tasks')
    BY <1>1, <2>1, <2>2, <2>3, MoveFields DEF FlowOK, HandlerOK, Before, After, SilentPcs
  <2> QED BY <1>1, <1>2, <2>2, <2>4, FlowStep
<1>4. CASE LookupClosed(d)
  <2> DEFINE g == [At(d, "finalize") EXCEPT !.task = CommandOf[d].task]
  <2>1. proc[d].pc = "lookup" /\ CommandOf[d].verb = "closed"
    BY <1>4 DEF LookupClosed
  <2>2. \/ Goto(d, g) /\ CommandOf[d].task \in DOMAIN tasks
        \/ Goto(d, Done(d, "ignored"))
    BY <1>4 DEF LookupClosed, TaskForBranch
  <2>3. /\ g.pc = "finalize" /\ g.task = CommandOf[d].task
        /\ DOMAIN g = {"pc", "task", "status", "outcome"}
    BY MoveFields
  <2> HIDE DEF g
  <2>4. CASE Goto(d, g) /\ CommandOf[d].task \in DOMAIN tasks
    <3>1. FlowOK(proc[d], g) /\ HandlerOK(d, g, tasks')
      BY <1>1, <2>1, <2>3, <2>4 DEF FlowOK, HandlerOK, Before, After, SilentPcs
    <3> QED BY <1>1, <1>2, <2>4, <3>1, FlowStep
  <2>5. CASE Goto(d, Done(d, "ignored"))
    <3>1. FlowOK(proc[d], Done(d, "ignored")) /\ HandlerOK(d, Done(d, "ignored"), tasks')
      BY <2>1, MoveFields DEF FlowOK, HandlerOK, Before, After, SilentPcs
    <3> QED BY <1>1, <1>2, <2>5, <3>1, FlowStep
  <2> QED BY <2>2, <2>4, <2>5
<1> QED BY <1>3, <1>4

\* The write of a revise command, whether or not its answer arrives.
LEMMA RevisionWrite ==
  ASSUME WebhookInv, NEW d \in Deliveries, proc[d].pc = "revise", NEW base,
         Store!RequestRevision(proc[d].task, <<"revise", CommandOf[d].comment>>,
                               CommandOf[d].comment, base)
  PROVE  StoreSame(tasks, tasks')
<1>1. /\ CommandOf[d].verb = "revise" /\ proc[d].task \in DOMAIN tasks
      /\ FirstComment(tasks[proc[d].task]) # CommandOf[d].comment /\ TasksOK(tasks)
  BY DEF WebhookInv, DeliveryOK, HandlerOK
<1>2. CommandOf[d].comment \in Comments
  BY <1>1, ReviseComment
<1> QED BY <1>1, <1>2, RevisionSame

\* The write of a closed pull request, and both of them together.
LEMMA FinalizeWrite ==
  ASSUME WebhookInv, NEW d \in Deliveries, proc[d].pc = "finalize",
         NEW to \in {"completed", "cancelled"}, NEW key,
         Store!Transition(proc[d].task, to, key, 0)
  PROVE  StoreSame(tasks, tasks')
BY TransitionSame DEF WebhookInv, DeliveryOK, HandlerOK

LEMMA ReviseStep ==
  ASSUME WebhookInv, NEW d \in Deliveries, Revise(d) \/ Finalize(d)
  PROVE  WebhookInv'
<1>1. TasksOK(tasks) /\ UNCHANGED <<ledger, replies>> /\ HandlerOK(d, proc[d], tasks)
  BY DEF WebhookInv, DeliveryOK, Revise, Finalize, still
<1>2. CASE Revise(d)
  <2>1. proc[d].pc = "revise" /\ proc[d].task \in DOMAIN tasks
    BY <1>1, <1>2 DEF Revise, HandlerOK
  <2>2. StoreSame(tasks, tasks')
    <3>1. CASE UNCHANGED tasks
      BY <1>1, <3>1, SameIsSame
    <3>2. CASE \E v \in Commits : Store!RequestRevision(
                 proc[d].task, <<"revise", CommandOf[d].comment>>, CommandOf[d].comment, v)
      BY <2>1, <3>2, RevisionWrite
    <3> QED BY <1>2, <3>1, <3>2 DEF Revise
  <2>3. PICK f \in {At(d, "check_run"), Done(d, "ignored"), At(d, "refuse")} : Goto(d, f)
    BY <1>2 DEF Revise
  <2>4. proc[d].task \in DOMAIN tasks'
    BY <2>1, <2>2 DEF StoreSame
  <2>5. FlowOK(proc[d], f) /\ HandlerOK(d, f, tasks')
    BY <2>1, <2>3, <2>4, MoveFields DEF FlowOK, HandlerOK, Before, After, SilentPcs
  <2> QED BY <1>1, <2>2, <2>3, <2>5, FlowStep
<1>3. CASE Finalize(d)
  <2> DEFINE to == IF CommandOf[d].merged THEN "completed" ELSE "cancelled"
  <2>1. proc[d].pc = "finalize"
    BY <1>3 DEF Finalize
  <2>2. StoreSame(tasks, tasks')
    <3>1. CASE UNCHANGED tasks
      BY <1>1, <3>1, SameIsSame
    <3>2. CASE Store!Transition(proc[d].task, to, <<"closed", proc[d].task>>, 0)
      BY <2>1, <3>2, FinalizeWrite
    <3> QED BY <1>3, <3>1, <3>2 DEF Finalize
  <2>3. PICK f \in {Done(d, "processed"), Done(d, "ignored")} : Goto(d, f)
    BY <1>3 DEF Finalize
  <2>4. FlowOK(proc[d], f) /\ HandlerOK(d, f, tasks')
    BY <2>1, <2>3, MoveFields DEF FlowOK, HandlerOK, Before, After, SilentPcs
  <2> QED BY <1>1, <2>2, <2>3, <2>4, FlowStep
<1> QED BY <1>2, <1>3

\* The check run and the events of the task.
LEMMA EventStep ==
  ASSUME WebhookInv, NEW d \in Deliveries,
         RecordCheckRun(d) \/ CheckRunEvent(d) \/ AckEvent(d)
  PROVE  WebhookInv'
<1>1. TasksOK(tasks) /\ UNCHANGED <<ledger, replies>> /\ HandlerOK(d, proc[d], tasks)
  BY DEF WebhookInv, DeliveryOK, RecordCheckRun, CheckRunEvent, AckEvent, AppendTaskEvent, still
<1>2. PICK f : /\ Goto(d, f)
               /\ \/ proc[d].pc = "check_record" /\ f = At(d, "check_event")
                  \/ proc[d].pc = "check_event" /\ f = At(d, "ack")
                  \/ proc[d].pc = "ack_event" /\ f = Done(d, "processed")
  BY DEF RecordCheckRun, CheckRunEvent, AckEvent, AppendTaskEvent
<1>3. proc[d].task \in DOMAIN tasks
  BY <1>1, <1>2 DEF HandlerOK, After
<1>4. StoreSame(tasks, tasks')
  <2>1. \/ UNCHANGED tasks \/ Store!AppendEvent(proc[d].task)
        \/ Store!RecordTriggerCheckRun(proc[d].task, d)
    BY DEF RecordCheckRun, CheckRunEvent, AckEvent, AppendTaskEvent
  <2> QED BY <1>1, <1>3, <2>1, SameIsSame, NoteSame, CheckRunSame
<1>5. proc[d].task \in DOMAIN tasks'
  BY <1>3, <1>4 DEF StoreSame
<1>6. FlowOK(proc[d], f) /\ HandlerOK(d, f, tasks')
  BY <1>2, <1>5, MoveFields DEF FlowOK, HandlerOK, Before, After, SilentPcs
<1> QED BY <1>1, <1>2, <1>4, <1>6, FlowStep

\* A command is answered from where nothing was answered, and nothing is answered
\* afterwards.
LEMMA ReplyStep ==
  ASSUME WebhookInv, NEW d \in Deliveries, Refuse(d) \/ Ack(d) \/ ReplyLost(d)
  PROVE  WebhookInv'
<1>1. TasksOK(tasks) /\ UNCHANGED <<tasks, ledger>>
      /\ DeliveryOK(d, proc[d], tasks, ledger[d], replies[d])
  BY DEF WebhookInv, Refuse, Ack, ReplyLost, still
<1>2. ASSUME NEW f, NEW kind \in {"refused", "queued"}, Goto(d, f), Reply(d, kind),
             \/ proc[d].pc = "refuse" /\ f \in {Done(d, "processed"), Done(d, "failed")}
             \/ proc[d].pc = "ack" /\ f \in {At(d, "ack_event"), Done(d, "processed")}
      PROVE  WebhookInv'
  <2> DEFINE w == Append(replies[d], kind)
  <2>1. /\ proc' = [proc EXCEPT ![d] = f] /\ replies' = [replies EXCEPT ![d] = w]
        /\ ledger' = [ledger EXCEPT ![d] = ledger[d]]
    BY <1>1, <1>2 DEF Goto, Reply, WebhookInv
  <2>2. /\ ledger[d] = "pending" /\ Len(replies[d]) = 0
        /\ replies[d] \in Seq({"refused", "queued"})
    BY <1>1, <1>2 DEF DeliveryOK, LedgerOK, Silent, Before
  <2>3. w \in Seq({"refused", "queued"}) /\ Len(w) = 1
    BY <2>2
  <2> HIDE DEF w
  <2>4. HandlerOK(d, f, tasks')
    BY <1>1, <1>2, MoveFields DEF DeliveryOK, HandlerOK, Before, After
  <2>5. LedgerOK(f, ledger[d], w)
    BY <1>2, <2>2, <2>3, MoveFields DEF LedgerOK, Silent, Before
  <2>6. RunsDistinct => StartedOnce(d, f, tasks', ledger[d])
    BY <1>1, <1>2, <2>2, MoveFields DEF DeliveryOK, StartedOnce, Unstarted
  <2>7. DeliveryOK(d, f, tasks', ledger[d], w)
    BY <2>4, <2>5, <2>6 DEF DeliveryOK
  <2> QED BY <1>1, <2>1, <2>7, SameIsSame, OneMovesSame
<1>3. CASE Refuse(d)
  BY <1>2, <1>3 DEF Refuse
<1>4. CASE Ack(d)
  BY <1>2, <1>4 DEF Ack
<1>5. CASE ReplyLost(d)
  BY <1>2, <1>5 DEF ReplyLost
<1> QED BY <1>3, <1>4, <1>5

\* The records of a handler that has not begun, and of one that died.
LEMMA IdleFields ==
  /\ Idle.pc = "idle" /\ DOMAIN Idle = {"pc", "task", "status", "outcome"}
  /\ Gone.pc = "gone" /\ DOMAIN Gone = {"pc", "task", "status", "outcome"}
  /\ Lost.pc = "lost" /\ DOMAIN Lost = {"pc", "task", "status", "outcome"}
BY DEF Idle, Gone, Lost

\* MarkDelivery takes the delivery out of pending when its handler ends.
LEMMA MarkStep ==
  ASSUME WebhookInv, NEW d \in Deliveries, Mark(d)
  PROVE  WebhookInv'
<1> DEFINE l == proc[d].outcome
<1>1. /\ proc[d].pc = "mark" /\ TasksOK(tasks) /\ UNCHANGED <<tasks, replies>>
      /\ DeliveryOK(d, proc[d], tasks, ledger[d], replies[d])
      /\ proc' = [proc EXCEPT ![d] = Idle] /\ ledger' = [ledger EXCEPT ![d] = l]
      /\ replies' = [replies EXCEPT ![d] = replies[d]]
  BY DEF WebhookInv, Mark, Goto
<1>2. l \in {"processed", "ignored", "failed"}
  BY <1>1 DEF DeliveryOK, LedgerOK
<1>3. HandlerOK(d, Idle, tasks')
  BY IdleFields DEF HandlerOK, Before, After
<1>4. LedgerOK(Idle, l, replies[d])
  BY <1>1, <1>2, IdleFields DEF DeliveryOK, LedgerOK, Silent, Before
<1>5. RunsDistinct => StartedOnce(d, Idle, tasks', l)
  BY <1>1, <1>2, IdleFields DEF DeliveryOK, StartedOnce, Unstarted
<1>6. DeliveryOK(d, Idle, tasks', l, replies[d])
  BY <1>3, <1>4, <1>5 DEF DeliveryOK
<1> QED BY <1>1, <1>6, SameIsSame, OneMovesSame

\* A handler that dies leaves its delivery pending.
LEMMA GoneOK ==
  ASSUME NEW d \in Deliveries, NEW e, NEW store, NEW l, NEW w, e.pc # "idle",
         DeliveryOK(d, e, store, l, w)
  PROVE  DeliveryOK(d, Gone, store, l, w)
<1>1. l = "pending"
  BY DEF DeliveryOK, LedgerOK
<1>2. HandlerOK(d, Gone, store)
  BY IdleFields DEF HandlerOK, Before, After
<1>3. LedgerOK(Gone, l, w)
  BY <1>1, IdleFields DEF DeliveryOK, LedgerOK, Silent, Before
<1>4. RunsDistinct => StartedOnce(d, Gone, store, l)
  BY <1>1, IdleFields DEF DeliveryOK, StartedOnce, Unstarted
<1> QED BY <1>2, <1>3, <1>4 DEF DeliveryOK

\* A row that is inserted for nobody is pending, one that is not inserted is as new.
LEMMA RecordFailsStep ==
  ASSUME WebhookInv, NEW d \in Deliveries, RecordFails(d)
  PROVE  WebhookInv'
<1>1. UNCHANGED <<tasks, replies>> /\ TasksOK(tasks) /\ ledger[d] = "none"
  BY DEF RecordFails, WebhookInv
<1>2. CASE UNCHANGED <<ledger, proc>>
  BY <1>1, <1>2 DEF WebhookInv
<1>3. CASE /\ ledger' = [ledger EXCEPT ![d] = "pending"]
           /\ proc' = [proc EXCEPT ![d] = Lost]
  <2>1. replies' = [replies EXCEPT ![d] = replies[d]]
    BY <1>1 DEF WebhookInv
  <2>2. DeliveryOK(d, proc[d], tasks', ledger[d], replies[d])
    BY <1>1 DEF WebhookInv
  <2>3. HandlerOK(d, Lost, tasks')
    BY IdleFields DEF HandlerOK, Before, After
  <2>4. LedgerOK(Lost, "pending", replies[d])
    BY <1>1, <2>2, IdleFields DEF DeliveryOK, LedgerOK, Silent, Before
  <2>5. RunsDistinct => StartedOnce(d, Lost, tasks', "pending")
    BY <1>1, <2>2, IdleFields DEF DeliveryOK, StartedOnce, Unstarted
  <2>6. DeliveryOK(d, Lost, tasks', "pending", replies[d])
    BY <2>3, <2>4, <2>5 DEF DeliveryOK
  <2> QED BY <1>1, <1>3, <2>1, <2>6, SameIsSame, OneMovesSame
<1> QED BY <1>2, <1>3 DEF RecordFails

\* A MarkDelivery that fails, a death of the process, a call that fails.
LEMMA MarkFailsStep ==
  ASSUME WebhookInv, NEW d \in Deliveries, MarkFails(d)
  PROVE  WebhookInv'
<1>1. /\ proc[d].pc = "mark" /\ TasksOK(tasks) /\ UNCHANGED <<tasks, replies>>
      /\ DeliveryOK(d, proc[d], tasks, ledger[d], replies[d])
      /\ proc' = [proc EXCEPT ![d] = Gone] /\ ledger' = [ledger EXCEPT ![d] = ledger[d]]
      /\ replies' = [replies EXCEPT ![d] = replies[d]]
  BY DEF WebhookInv, MarkFails, Goto
<1>2. DeliveryOK(d, Gone, tasks', ledger[d], replies[d])
  BY <1>1, GoneOK
<1> QED BY <1>1, <1>2, SameIsSame, OneMovesSame

LEMMA CrashStep ==
  ASSUME WebhookInv, Crash
  PROVE  WebhookInv'
<1>1. /\ UNCHANGED <<tasks, ledger, replies>>
      /\ proc' = [d \in Deliveries |->
                   IF proc[d].pc \in {"idle", "lost"} THEN proc[d] ELSE Gone]
  BY DEF Crash
<1>2. ASSUME NEW d \in Deliveries
      PROVE  DeliveryOK(d, proc'[d], tasks', ledger'[d], replies'[d])
  <2>1. DeliveryOK(d, proc[d], tasks, ledger[d], replies[d])
    BY DEF WebhookInv
  <2>2. CASE proc[d].pc \notin {"idle", "lost"}
    BY <1>1, <2>1, <2>2, GoneOK
  <2>3. CASE proc[d].pc \in {"idle", "lost"}
    BY <1>1, <2>1, <2>3
  <2> QED BY <2>2, <2>3
<1> QED BY <1>1, <1>2 DEF WebhookInv

LEMMA CallFailsStep ==
  ASSUME WebhookInv, NEW d \in Deliveries, CallFails(d)
  PROVE  WebhookInv'
<1>1. /\ TasksOK(tasks) /\ UNCHANGED <<tasks, ledger, replies>>
      /\ HandlerOK(d, proc[d], tasks)
  BY DEF WebhookInv, DeliveryOK, CallFails
<1>2. PICK f : /\ Goto(d, f)
               /\ \/ proc[d].pc \in Before /\ f = Done(d, "failed")
                  \/ proc[d].pc = "check_run" /\ f = At(d, "ack")
                  \/ proc[d].pc = "check_record" /\ f = At(d, "check_event")
                  \/ proc[d].pc = "check_event" /\ f = At(d, "ack")
                  \/ proc[d].pc \in {"ack", "ack_event"} /\ f = Done(d, "processed")
  BY DEF CallFails, Before, After
<1>3. FlowOK(proc[d], f) /\ HandlerOK(d, f, tasks')
  BY <1>1, <1>2, MoveFields DEF FlowOK, HandlerOK, Before, After, SilentPcs
<1> QED BY <1>1, <1>2, <1>3, SameIsSame, FlowStep

\* Create, whether or not its answer arrives: the delivery that asked for the task
\* is the only one its comment names.
LEMMA MakeStep ==
  ASSUME WebhookInv, NEW d \in Deliveries, proc[d].pc = "create", NEW t, NEW issue,
         Store!Create(t, issue, CommandOf[d].comment), NEW f, Goto(d, f),
         UNCHANGED <<ledger, replies>>,
         FlowOK(proc[d], f), f.pc \notin {"guard", "lookup", "create"},
         HandlerOK(d, f, tasks')
  PROVE  WebhookInv'
<1>1. /\ proc' = [proc EXCEPT ![d] = f] /\ ledger' = [ledger EXCEPT ![d] = ledger[d]]
      /\ replies' = [replies EXCEPT ![d] = replies[d]]
  BY DEF Goto, WebhookInv
<1>2. StoreMade(tasks, tasks', t, CommandOf[d].comment)
  BY CreateMakes DEF WebhookInv
<1>3. /\ DeliveryOK(d, proc[d], tasks, ledger[d], replies[d])
      /\ StoreSame(tasks, tasks) /\ CommandOf[d].verb = "run"
  BY DEF WebhookInv, StoreSame, DeliveryOK, HandlerOK
<1>4. ASSUME NEW c \in Deliveries \ {d}
      PROVE  DeliveryOK(c, proc[c], tasks', ledger[c], replies[c])
  <2>1. RunsDistinct /\ CommandOf[c].verb = "run" => CommandOf[c].comment # CommandOf[d].comment
    BY <1>3 DEF RunsDistinct, Commands, CommentOf
  <2>2. DeliveryOK(c, proc[c], tasks, ledger[c], replies[c])
    BY DEF WebhookInv
  <2> QED BY <1>2, <2>1, <2>2, DeliveryMade
<1>5. ledger[d] = "pending"
  BY <1>3 DEF DeliveryOK, LedgerOK
<1>6. LedgerOK(f, ledger[d], replies[d])
  <2>1. Silent(f, ledger[d]) => Silent(proc[d], ledger[d])
    BY <1>5 DEF Silent, FlowOK, SilentPcs
  <2>2. f.pc # "idle"
    BY DEF FlowOK, Before, After
  <2> QED BY <1>3, <1>5, <2>1, <2>2 DEF DeliveryOK, LedgerOK, FlowOK, Before, After
<1>7. RunsDistinct => StartedOnce(d, f, tasks', ledger[d])
  BY <1>2, <1>3, <1>5 DEF DeliveryOK, StartedOnce, Unstarted, StoreMade
<1>8. DeliveryOK(d, f, tasks', ledger[d], replies[d])
  BY <1>6, <1>7 DEF DeliveryOK
<1>9. TasksOK(tasks')
  BY <1>2 DEF StoreMade
<1> QED BY <1>1, <1>4, <1>8, <1>9, OneMoves

\* Create, whether or not its answer arrives.
LEMMA CreateTaskStep ==
  ASSUME WebhookInv, NEW d \in Deliveries, CreateTask(d)
  PROVE  WebhookInv'
<1>1. /\ TasksOK(tasks) /\ UNCHANGED <<ledger, replies>>
      /\ HandlerOK(d, proc[d], tasks) /\ proc[d].pc = "create"
  BY DEF WebhookInv, DeliveryOK, CreateTask, still
<1>2. CASE UNCHANGED tasks /\ Goto(d, At(d, "relookup"))
  <2>1. FlowOK(proc[d], At(d, "relookup")) /\ HandlerOK(d, At(d, "relookup"), tasks')
    BY <1>1, MoveFields DEF FlowOK, HandlerOK, Before, After, SilentPcs
  <2> QED BY <1>1, <1>2, <2>1, SameIsSame, FlowStep
<1>3. CASE \E t \in TaskIds :
             /\ Store!Create(t, CommandOf[d].issue, CommandOf[d].comment)
             /\ Goto(d, [At(d, "check_run") EXCEPT !.task = t])
  <2>1. PICK t \in TaskIds :
          /\ Store!Create(t, CommandOf[d].issue, CommandOf[d].comment)
          /\ Goto(d, [At(d, "check_run") EXCEPT !.task = t])
    BY <1>3
  <2> DEFINE f == [At(d, "check_run") EXCEPT !.task = t]
  <2>2. Goto(d, f) /\ f.pc = "check_run" /\ f.task = t
        /\ DOMAIN f = {"pc", "task", "status", "outcome"}
    BY <2>1, MoveFields
  <2> HIDE DEF f
  <2>3. t \in DOMAIN tasks'
    BY <1>1, <2>1, CreateMakes DEF StoreMade
  <2>4. FlowOK(proc[d], f) /\ HandlerOK(d, f, tasks')
    BY <1>1, <2>2, <2>3 DEF FlowOK, HandlerOK, Before, After, SilentPcs
  <2> QED BY <1>1, <2>1, <2>2, <2>4, MakeStep
<1> QED BY <1>2, <1>3 DEF CreateTask

LEMMA AckLostStep ==
  ASSUME WebhookInv, NEW d \in Deliveries, AckLost(d)
  PROVE  WebhookInv'
<1>1. /\ TasksOK(tasks) /\ UNCHANGED <<ledger, replies>> /\ Goto(d, Done(d, "failed"))
      /\ HandlerOK(d, proc[d], tasks) /\ proc[d].pc \in {"create", "revise", "finalize"}
  BY DEF WebhookInv, DeliveryOK, AckLost
<1> DEFINE f == Done(d, "failed")
<1>2. f.pc = "mark" /\ FlowOK(proc[d], f) /\ HandlerOK(d, f, tasks')
  BY <1>1, MoveFields DEF FlowOK, HandlerOK, Before, After, SilentPcs
<1> HIDE DEF f
<1>3. CASE proc[d].pc = "create"
  <2>1. PICK t \in TaskIds : Store!Create(t, CommandOf[d].issue, CommandOf[d].comment)
    BY <1>3 DEF AckLost
  <2> QED BY <1>1, <1>2, <1>3, <2>1, MakeStep DEF f
<1>4. CASE proc[d].pc # "create"
  <2>1. StoreSame(tasks, tasks')
    <3>1. CASE proc[d].pc = "revise"
      BY <3>1, RevisionWrite DEF AckLost
    <3>2. CASE proc[d].pc = "finalize"
      BY <3>2, FinalizeWrite DEF AckLost
    <3> QED BY <1>1, <1>4, <3>1, <3>2
  <2> QED BY <1>1, <1>2, <2>1, FlowStep DEF f
<1> QED BY <1>3, <1>4

-----------------------------------------------------------------------------
(* The theorems.                                                           *)

\* Only RequestRevision's answer, in Revise, takes a handler from there to a refusal.
LEMMA StayOrEnd ==
  ASSUME WebhookInv, Next, NEW d \in Deliveries, proc[d].pc = "revise", ~Revise(d)
  PROVE  proc'[d].pc # "refuse"
<1>1. ASSUME NEW e \in Deliveries, NEW f, Goto(e, f), e # d \/ f.pc # "refuse"
      PROVE  proc'[d].pc # "refuse"
  BY <1>1 DEF Goto, WebhookInv
<1>2. ASSUME NEW t \in DOMAIN tasks,
             \/ RunnerDrives(t) \/ RunnerFinishes(t) \/ ApiCancel(t)
             \/ \E how \in {"merged", "closed"} : CloseRequest(t, how)
      PROVE  proc' = proc
  BY <1>2 DEF RunnerDrives, RunnerFinishes, ApiCancel, CloseRequest, outside
<1>3. ASSUME NEW e \in Deliveries, ServeHTTP(e) \/ RecordFails(e)
      PROVE  proc'[d].pc # "refuse"
  BY <1>3, IdleFields DEF ServeHTTP, RecordFails, WebhookInv
<1>4. ASSUME NEW e \in Deliveries, Handle(e), e # d PROVE \E f : Goto(e, f)
  BY <1>4 DEF Handle, Guard, LookupIssue, CreateTask, Relookup, LookupRevised,
     CheckAttempts, Revise, LookupClosed, Finalize, Refuse, CreateCheckRun,
     RecordCheckRun, CheckRunEvent, Ack, AckEvent, AppendTaskEvent, Mark
<1>5. ~Handle(d)
  BY DEF Handle, Guard, LookupIssue, CreateTask, Relookup, LookupRevised,
     CheckAttempts, LookupClosed, Finalize, Refuse, CreateCheckRun,
     RecordCheckRun, CheckRunEvent, Ack, AckEvent, AppendTaskEvent, Mark
<1>6. ASSUME NEW e \in Deliveries,
             CallFails(e) \/ AckLost(e) \/ ReplyLost(e) \/ MarkFails(e), e # d
      PROVE  \E f : Goto(e, f)
  BY <1>6 DEF CallFails, AckLost, ReplyLost, MarkFails
<1>7. CASE CallFails(d) \/ AckLost(d) \/ ReplyLost(d) \/ MarkFails(d)
  <2>1. Goto(d, Done(d, "failed"))
    BY <1>7 DEF CallFails, AckLost, ReplyLost, MarkFails, Before
  <2> QED BY <1>1, <2>1, MoveFields
<1>8. CASE Crash
  BY <1>8, IdleFields DEF Crash
<1> QED BY <1>1, <1>2, <1>3, <1>4, <1>5, <1>6, <1>7, <1>8 DEF Next

\* Every step keeps the invariant.
LEMMA NextWebhook == WebhookInv /\ [Next]_vars => WebhookInv'
<1> SUFFICES ASSUME WebhookInv, [Next]_vars PROVE WebhookInv'
  OBVIOUS
<1>1. CASE UNCHANGED vars
  BY <1>1 DEF vars, WebhookInv
<1>2. ASSUME NEW t \in DOMAIN tasks,
             \/ RunnerDrives(t) \/ RunnerFinishes(t) \/ ApiCancel(t)
             \/ \E how \in {"merged", "closed"} : CloseRequest(t, how)
      PROVE  WebhookInv'
  BY <1>2, WorldStep
<1>3. ASSUME NEW d \in Deliveries, Handle(d) PROVE WebhookInv'
  BY <1>3, ReadStep, CheckStep, CreateTaskStep, ReviseStep, EventStep, ReplyStep, MarkStep
  DEF Handle
<1>4. ASSUME NEW d \in Deliveries,
             \/ ServeHTTP(d) \/ RecordFails(d)
             \/ CallFails(d) \/ AckLost(d) \/ ReplyLost(d) \/ MarkFails(d)
      PROVE  WebhookInv'
  BY <1>4, ServeStep, RecordFailsStep, CallFailsStep, AckLostStep, ReplyStep, MarkFailsStep
<1>5. CASE Crash
  BY <1>5, CrashStep
<1> QED BY <1>1, <1>2, <1>3, <1>4, <1>5 DEF Next

\* github/webhook.go, process.go, revise.go: in every reachable state each attempt
\* after the first left the key of the comment that asked for it, a handler that is
\* about to revise has a comment that did not create the task, and the ledger, the
\* replies and the handlers agree on how far each delivery has come.
THEOREM WebhookInvariant == Spec => []WebhookInv
BY InitWebhook, NextWebhook, PTL DEF Spec

\* github/revise.go, handleRevise and RequestRevision: one revise comment gives a
\* task at most one attempt, however many deliveries carry it.
THEOREM OneAttemptForAComment == Spec => []OneAttemptPerComment
<1>1. WebhookInv => OneAttemptPerComment
  BY DEF WebhookInv, TasksOK, RowInv, RevisionsOK, OneAttemptPerComment
<1> QED BY <1>1, WebhookInvariant, PTL

\* github/process.go, process, with webhook.go, ServeHTTP: a handler that fails half
\* way still takes its delivery out of pending; a row is left there by one that died
\* or could not write, or by an insert whose answer was lost, and by nothing else.
THEOREM PendingIsAlwaysHandled == Spec => []PendingIsHandled
<1>1. WebhookInv => PendingIsHandled
  BY DEF WebhookInv, DeliveryOK, HandlerOK, LedgerOK, PendingIsHandled, Tended, Before, After
<1> QED BY <1>1, WebhookInvariant, PTL

\* github/webhook.go, ServeHTTP: when GitHub announces every run comment by one
\* delivery, a redelivery never starts a second task, and whatever it announces, a
\* command is answered at most once, and not at all when it is ignored.
THEOREM RedeliveriesAreHarmless ==
  ASSUME RunsDistinct
  PROVE  Spec => []RedeliveryHarmless
<1>1. WebhookInv => AnsweredOnce
  BY DEF WebhookInv, DeliveryOK, LedgerOK, Silent, AnsweredOnce
<1>2. WebhookInv => OneTaskPerDelivery
  <2> SUFFICES ASSUME WebhookInv, NEW d \in Commands("run")
               PROVE  Cardinality({t \in DOMAIN tasks :
                        tasks[t].attempts[1].comment = CommentOf(d)}) <= 1
    BY DEF OneTaskPerDelivery
  <2> DEFINE T == {t \in DOMAIN tasks : tasks[t].attempts[1].comment = CommentOf(d)}
  <2>1. d \in Deliveries /\ CommandOf[d].verb = "run"
    BY DEF Commands
  <2>2. \A t, u \in T : t = u
    BY <2>1, RunsDistinct DEF WebhookInv, DeliveryOK, StartedOnce, FirstComment, CommentOf
  <2>3. Cardinality(T) <= 1
    <3> HIDE DEF T
    <3>1. CASE T = {}
      BY <3>1, FS_EmptySet
    <3>2. CASE T # {}
      <4>1. PICK t : T = {t}
        BY <2>2, <3>2
      <4> QED BY <4>1, FS_Singleton
    <3> QED BY <3>1, <3>2
  <2> QED BY <2>3
<1>3. WebhookInv => RedeliveryHarmless
  BY <1>1, <1>2 DEF RedeliveryHarmless
<1> QED BY <1>3, WebhookInvariant, PTL

\* task/store.go, RequestRevision: "a repeated command must never draw a limit
\* reply"; a comment that got its attempt is never refused.
THEOREM AcceptedIsNotRefused == Spec => AcceptedNotRefused
<1>1. ASSUME WebhookInv, Next, NEW d \in Commands("revise"),
             CommandOf[d].task \in DOMAIN tasks,
             Attempted(CommandOf[d].task, CommentOf(d)), proc[d].pc = "revise"
      PROVE  proc'[d].pc # "refuse"
  <2> DEFINE t == CommandOf[d].task
             c == CommandOf[d].comment
             key == <<"revise", c>>
  <2>1. /\ d \in Deliveries /\ proc[d].task = t /\ t \in DOMAIN tasks
        /\ FirstComment(tasks[t]) # c /\ RowInv(tasks[t])
    BY <1>1 DEF Commands, WebhookInv, TasksOK, DeliveryOK, HandlerOK
  <2>2. key \in KeysOf(tasks[t])
    <3>1. PICK a \in DOMAIN tasks[t].attempts : tasks[t].attempts[a].comment = c
      BY <1>1 DEF Attempted, CommentOf
    <3> QED BY <2>1, <3>1 DEF RowInv, RevisionsOK, FirstComment
  <2>3. key # NoKey
    BY <1>1, <2>1, ReviseComment, CommandKeysAssumption DEF CommandKeys, Commands
  <2>4. RevisionOutcome(tasks[t], MaxAttempts, key) = "replayed"
    BY <2>2, <2>3 DEF RevisionOutcome, KeySeen, KeysOf
  <2>5. CASE Revise(d)
    <3>1. Goto(d, At(d, "check_run")) \/ Goto(d, Done(d, "ignored"))
      BY <2>1, <2>4, <2>5 DEF Revise
    <3>2. proc'[d] \in {At(d, "check_run"), Done(d, "ignored")}
      BY <1>1, <2>1, <3>1 DEF Goto, WebhookInv
    <3> QED BY <1>1, <2>1, <3>2, MoveFields
  <2>6. CASE ~Revise(d)
    BY <1>1, <2>1, <2>6, StayOrEnd
  <2> QED BY <2>5, <2>6
<1>2. ASSUME WebhookInv, [Next]_vars
      PROVE  [\A d \in Commands("revise") :
                CommandOf[d].task \in DOMAIN tasks
                  /\ Attempted(CommandOf[d].task, CommentOf(d)) =>
                (proc[d].pc = "revise" => proc'[d].pc # "refuse")]_vars
  BY <1>1, <1>2
<1> QED BY <1>2, WebhookInvariant, PTL DEF Spec, AcceptedNotRefused

-----------------------------------------------------------------------------
(* The other half of the handlers: the copy of an installation's           *)
(* repositories (InstallationSync), for every set of repositories and any  *)
(* number of installations, deliveries and failures.                       *)

Actions == {"created", "deleted", "suspend", "unsuspend", "repositories", "comment"}

HandlerStages ==
  {"sent", "upsert", "list", "select", "write", "deleted", "suspend", "comment",
   "done", "failed"}

EventRecord == [action : Actions, id : Ids, repo : Repos \cup {NoRepo}]

SyncTypeOK ==
  /\ gh \in [id : Nat, next : Nat \ {0}, suspended : BOOLEAN, repos : SUBSET Repos]
  /\ gh.id # 0 => gh.id \in Ids
  /\ gh.id = 0 => ~gh.suspended
  /\ events \in Seq(EventRecord)
  /\ handlers \in Seq([pc : HandlerStages, list : SUBSET Repos])
  /\ Len(handlers) = Len(events)
  /\ inst \in [Ids -> {"none", "active", "suspended"}]
  /\ repos \in [Repos -> {"none", "enabled", "disabled"}]

\* The newest event reports GitHub as it is.
Reports(e) ==
  CASE e.action = "deleted" -> gh.id = 0
    [] e.action = "suspend" -> gh.id = e.id /\ gh.suspended
    [] OTHER -> gh.id = e.id /\ ~gh.suspended

NewestReports == \A i \in DOMAIN events : IsNewest(i) => Reports(events[i])

\* A handler that has met no other is the only one under way.
SoloAlone == solo # 0 => solo \in DOMAIN handlers /\ Running \subseteq {solo}

\* Stage by stage, what the handler of the newest event has put right.
SoloRight ==
  solo # 0 /\ IsNewest(solo) =>
    LET h == handlers[solo]
        e == events[solo]
    IN /\ h.pc \in {"upsert", "list", "select", "write"} => e.action \in Syncing
       /\ h.pc \in {"deleted", "suspend"} => e.action = h.pc
       /\ h.pc \in {"list", "select", "write"} => inst[e.id] = "active"
       /\ h.pc \in {"select", "write"} => h.list = gh.repos
       /\ h.pc # "comment"
       /\ h.pc = "done" => TablesTrue(e.id)

SyncInv == SyncTypeOK /\ NewestReports /\ SoloAlone /\ SoloRight

LEMMA SyncInvRestores == SyncInv => LastEventRestores
BY DEF SyncInv, SoloRight, LastEventRestores, IsNewest,
   SyncTypeOK, Ids

LEMMA SyncInitOK == SyncInit => SyncInv
<1> MaxInstalls \in Nat
  BY SyncAssumption
<1> SUFFICES ASSUME SyncInit PROVE SyncInv
  OBVIOUS
<1>1. /\ gh = [id |-> 0, next |-> 1, suspended |-> FALSE, repos |-> {}]
      /\ events = << >> /\ handlers = << >> /\ solo = 0
      /\ inst = [x \in Ids |-> "none"]
      /\ repos = [r \in Repos |-> "none"]
  BY DEF SyncInit
<1>2. SyncTypeOK
  BY <1>1 DEF SyncTypeOK
<1>3. NewestReports /\ SoloAlone /\ SoloRight
  BY <1>1 DEF NewestReports, SoloAlone, SoloRight
<1> QED
  BY <1>2, <1>3 DEF SyncInv

\* What a delivery adds to the books.
LEMMA DeliverEffect ==
  ASSUME SyncInv, NEW action \in Actions, NEW x \in Ids, NEW r \in Repos \cup {NoRepo},
         Deliver(action, x, r)
  PROVE  LET n == Len(events) + 1
         IN /\ events' \in Seq(EventRecord) /\ Len(events') = n /\ DOMAIN events' = 1..n
            /\ handlers' \in Seq([pc : HandlerStages, list : SUBSET Repos])
            /\ Len(handlers') = n /\ DOMAIN handlers' = 1..n
            /\ events'[n] = [action |-> action, id |-> x, repo |-> r]
            /\ handlers'[n].pc = "sent"
            /\ \A i \in DOMAIN events : events'[i] = events[i] /\ handlers'[i] = handlers[i]
            /\ DOMAIN events = 1..(n - 1) /\ DOMAIN handlers = 1..(n - 1) /\ n \in Nat
<1>1. [action |-> action, id |-> x, repo |-> r] \in EventRecord
  BY DEF EventRecord
<1>2. [pc |-> "sent", list |-> {}] \in [pc : HandlerStages, list : SUBSET Repos]
  BY DEF HandlerStages
<1>3. events \in Seq(EventRecord) /\ handlers \in Seq([pc : HandlerStages, list : SUBSET Repos])
      /\ Len(handlers) = Len(events)
  BY DEF SyncInv, SyncTypeOK
<1>4. /\ events' = Append(events, [action |-> action, id |-> x, repo |-> r])
      /\ handlers' = Append(handlers, [pc |-> "sent", list |-> {}])
  BY DEF Deliver
<1> DEFINE E == [action |-> action, id |-> x, repo |-> r]
           H == [pc |-> "sent", list |-> {}]
           HS == [pc : HandlerStages, list : SUBSET Repos]
<1>5. E \in EventRecord /\ H \in HS /\ H.pc = "sent" /\ events' = Append(events, E)
      /\ handlers' = Append(handlers, H) /\ handlers \in Seq(HS)
  BY <1>1, <1>2, <1>3, <1>4
<1> HIDE DEF E, H, HS
<1>6. /\ events' \in Seq(EventRecord) /\ Len(events') = Len(events) + 1
      /\ handlers' \in Seq(HS) /\ Len(handlers') = Len(events) + 1
      /\ events'[Len(events) + 1] = E /\ handlers'[Len(events) + 1] = H
      /\ \A i \in 1..Len(events) : events'[i] = events[i] /\ handlers'[i] = handlers[i]
  BY <1>3, <1>5
<1>7. DOMAIN events = 1..Len(events) /\ DOMAIN handlers = 1..Len(events) /\ Len(events) \in Nat
  BY <1>3
<1>8. DOMAIN events' = 1..(Len(events) + 1) /\ DOMAIN handlers' = 1..(Len(events) + 1)
  BY <1>6
<1> USE DEF E, HS
<1> QED
  BY <1>5, <1>6, <1>7, <1>8

\* Whatever happens on GitHub is reported, so that it is no news of an older event.
LEMMA DeliverSync ==
  ASSUME SyncInv, NEW action \in Actions, NEW x \in Ids, NEW r \in Repos \cup {NoRepo},
         Deliver(action, x, r), inst' = inst, repos' = repos, solo' = solo,
         gh' \in [id : Nat, next : Nat \ {0}, suspended : BOOLEAN, repos : SUBSET Repos],
         gh'.id # 0 => gh'.id \in Ids,
         gh'.id = 0 => ~gh'.suspended,
         \/ action = "comment" /\ gh' = gh
         \/ action = "deleted" /\ gh'.id = 0
         \/ action = "suspend" /\ gh'.id = x /\ gh'.suspended
         \/ action \in Syncing /\ gh'.id = x /\ ~gh'.suspended
  PROVE  SyncInv'
<1> DEFINE n == Len(events) + 1
<1>1. /\ events' \in Seq(EventRecord) /\ Len(events') = n /\ DOMAIN events' = 1..n
      /\ handlers' \in Seq([pc : HandlerStages, list : SUBSET Repos])
      /\ Len(handlers') = n /\ DOMAIN handlers' = 1..n
      /\ events'[n] = [action |-> action, id |-> x, repo |-> r]
      /\ handlers'[n].pc = "sent"
      /\ \A i \in DOMAIN events : events'[i] = events[i] /\ handlers'[i] = handlers[i]
      /\ DOMAIN events = 1..(n - 1) /\ DOMAIN handlers = 1..(n - 1) /\ n \in Nat
  BY DeliverEffect
<1> HIDE DEF n
<1>2. SyncTypeOK'
  BY <1>1 DEF SyncInv, SyncTypeOK
<1>3. ASSUME NEW i \in 1..(n - 1), IsNewest(i)'
      PROVE  IsNewest(i) /\ action = "comment" /\ gh' = gh
  <2>1. /\ i \in DOMAIN events' /\ events'[i].action # "comment"
        /\ \A j \in DOMAIN events' : j > i => events'[j].action = "comment"
    BY <1>3 DEF IsNewest
  <2>2. events'[n].action = "comment"
    BY <1>1, <2>1
  <2>3. action = "comment"
    BY <1>1, <2>2
  <2>4. IsNewest(i)
    BY <1>1, <2>1 DEF IsNewest
  <2> QED
    BY <2>3, <2>4 DEF Syncing
<1>4. NewestReports'
  <2> SUFFICES ASSUME NEW i \in DOMAIN events', IsNewest(i)' PROVE Reports(events[i])'
    BY DEF NewestReports
  <2>1. CASE i = n
    <3>1. action # "comment"
      BY <1>1, <2>1 DEF IsNewest
    <3> QED
      BY <1>1, <2>1, <3>1 DEF Reports, Syncing
  <2>2. CASE i # n
    <3>1. i \in 1..(n - 1)
      BY <1>1, <2>2
    <3>2. IsNewest(i) /\ gh' = gh
      BY <1>3, <3>1
    <3>3. Reports(events[i])
      BY <1>1, <3>1, <3>2 DEF SyncInv, NewestReports
    <3>4. events'[i] = events[i]
      BY <1>1, <3>1
    <3> QED
      BY <3>2, <3>3, <3>4 DEF Reports
  <2> QED
    BY <2>1, <2>2
<1>5. SoloAlone'
  <2>1. Running' = Running
    BY <1>1 DEF Running, Stopped
  <2> QED
    BY <1>1, <2>1 DEF SyncInv, SoloAlone
<1>6. SoloRight'
  <2> SUFFICES ASSUME solo # 0, IsNewest(solo)' PROVE SoloRight'
    BY DEF SoloRight
  <2>1. solo \in 1..(n - 1)
    BY <1>1 DEF SyncInv, SoloAlone
  <2>2. IsNewest(solo) /\ gh' = gh
    <3>1. PICK i : i = solo
      OBVIOUS
    <3>2. IsNewest(i)'
      BY <3>1 DEF IsNewest
    <3> QED
      BY <1>3, <2>1, <3>1, <3>2
  <2>3. events'[solo] = events[solo] /\ handlers'[solo] = handlers[solo]
    BY <1>1, <2>1
  <2> QED
    BY <2>2, <2>3 DEF SyncInv, SoloRight, TablesTrue, Enabled, Syncing
<1> QED
  BY <1>2, <1>4, <1>5, <1>6 DEF SyncInv

Places == [pc : HandlerStages, list : SUBSET Repos]

Busy == HandlerStages \ {"sent", "done", "failed"}

\* A step of a handler that is under way: with a handler that is alone, it is that one.
LEMMA HandlerSync ==
  ASSUME SyncInv, NEW i \in DOMAIN handlers, NEW h \in Places,
         handlers[i].pc \in Busy, handlers' = [handlers EXCEPT ![i] = h], h.pc # "sent",
         UNCHANGED <<gh, events, solo>>,
         inst' \in [Ids -> {"none", "active", "suspended"}],
         repos' \in [Repos -> {"none", "enabled", "disabled"}],
         solo = i /\ IsNewest(i) =>
           LET e == events[i]
           IN /\ h.pc \in {"upsert", "list", "select", "write"} => e.action \in Syncing
              /\ h.pc \in {"deleted", "suspend"} => e.action = h.pc
              /\ h.pc \in {"list", "select", "write"} => inst'[e.id] = "active"
              /\ h.pc \in {"select", "write"} => h.list = gh.repos
              /\ h.pc # "comment"
              /\ h.pc = "done" => TablesTrue(e.id)'
  PROVE  SyncInv'
<1>1. handlers \in Seq(Places) /\ Len(handlers) = Len(events) /\ DOMAIN handlers = DOMAIN events
  BY DEF SyncInv, SyncTypeOK, Places
<1>2. /\ handlers' \in Seq(Places) /\ Len(handlers') = Len(handlers)
      /\ DOMAIN handlers' = DOMAIN handlers /\ handlers'[i] = h
      /\ \A j \in DOMAIN handlers \ {i} : handlers'[j] = handlers[j]
  BY <1>1
<1>3. SyncTypeOK'
  BY <1>1, <1>2 DEF SyncInv, SyncTypeOK, Places
<1>4. NewestReports'
  BY DEF SyncInv, NewestReports, IsNewest, Reports
<1>5. i \in Running
  BY DEF Running, Stopped, Busy
<1>6. Running' \subseteq Running
  BY <1>2, <1>5 DEF Running
<1>7. SoloAlone'
  BY <1>2, <1>6 DEF SyncInv, SoloAlone
<1>8. SoloRight'
  <2> SUFFICES ASSUME solo # 0, IsNewest(solo)' PROVE SoloRight'
    BY DEF SoloRight
  <2>1. solo = i
    BY <1>5 DEF SyncInv, SoloAlone
  <2>2. IsNewest(i)
    BY <2>1 DEF IsNewest
  <2> QED
    BY <1>2, <2>1, <2>2 DEF SoloRight, TablesTrue, Enabled
<1> QED
  BY <1>3, <1>4, <1>7, <1>8 DEF SyncInv

\* What a handler under way knows of its event.
LEMMA HandlerKnows ==
  ASSUME SyncInv, NEW i \in DOMAIN handlers
  PROVE  /\ events[i].id \in Ids /\ handlers[i] \in Places /\ events[i].action \in Actions
         /\ gh.repos \subseteq Repos
         /\ IsNewest(i) => Reports(events[i])
         /\ solo = i /\ IsNewest(i) =>
              LET h == handlers[i]
                  e == events[i]
              IN /\ h.pc \in {"upsert", "list", "select", "write"} => e.action \in Syncing
                 /\ h.pc \in {"deleted", "suspend"} => e.action = h.pc
                 /\ h.pc \in {"list", "select", "write"} => inst[e.id] = "active"
                 /\ h.pc \in {"select", "write"} => h.list = gh.repos
                 /\ h.pc # "comment"
<1>1. handlers \in Seq(Places) /\ events \in Seq(EventRecord) /\ DOMAIN handlers = DOMAIN events
  BY DEF SyncInv, SyncTypeOK, Places
<1>2. handlers[i] \in Places /\ events[i] \in EventRecord /\ gh.repos \subseteq Repos
  BY <1>1 DEF SyncInv, SyncTypeOK
<1>3. IsNewest(i) => Reports(events[i])
  BY <1>1 DEF SyncInv, NewestReports
<1>4. DOMAIN handlers = 1..Len(handlers)
  BY <1>1
<1> QED
  BY <1>2, <1>3, <1>4 DEF EventRecord, SyncInv, SoloRight

LEMMA StepsSync ==
  ASSUME SyncInv, NEW i,
         \/ repositoryForCommand(i) \/ UpsertInstallation(i)
         \/ ListInstallationRepositories(i) \/ SelectInstallation(i)
  PROVE  SyncInv'
<1>1. i \in DOMAIN handlers /\ UNCHANGED <<gh, events, solo, repos>>
  BY DEF repositoryForCommand, UpsertInstallation, ListInstallationRepositories,
     SelectInstallation, HandlerAt
<1>2. handlers[i].list \subseteq Repos /\ gh.repos \subseteq Repos
  BY <1>1, HandlerKnows DEF Places
<1>3. /\ inst \in [Ids -> {"none", "active", "suspended"}]
      /\ repos' \in [Repos -> {"none", "enabled", "disabled"}]
  BY <1>1 DEF SyncInv, SyncTypeOK
<1> DEFINE To(pc, list) == [pc |-> pc, list |-> list]
<1>4. \A pc \in HandlerStages, list \in SUBSET Repos : To(pc, list) \in Places
  BY DEF Places
<1>5. \A pc : [handlers[i] EXCEPT !.pc = pc] = To(pc, handlers[i].list)
  BY <1>1, HandlerKnows DEF Places
<1>6. handlers[i] \in Places /\ events[i].id \in Ids
  BY <1>1, HandlerKnows
<1>7. CASE repositoryForCommand(i)
  <2>1. handlers[i].pc = "comment" /\ inst' = inst
    BY <1>7 DEF repositoryForCommand, HandlerAt
  <2>2. PICK pc \in {"upsert", "done"} : handlers' = [handlers EXCEPT ![i] = To(pc, handlers[i].list)]
    BY <1>5, <1>7 DEF repositoryForCommand, Step
  <2>3. ~(solo = i /\ IsNewest(i))
    BY <1>1, <2>1, HandlerKnows
  <2>4. To(pc, handlers[i].list) \in Places
    BY <1>2, <1>4 DEF HandlerStages
  <2> QED
    BY <1>1, <1>3, <2>1, <2>2, <2>3, <2>4, HandlerSync DEF Busy, HandlerStages
<1>8. CASE UpsertInstallation(i)
  <2>1. /\ handlers[i].pc = "upsert" /\ inst' = [inst EXCEPT ![events[i].id] = "active"]
        /\ handlers' = [handlers EXCEPT ![i] = To("list", handlers[i].list)]
    BY <1>5, <1>8 DEF UpsertInstallation, HandlerAt, Step
  <2>2. To("list", handlers[i].list) \in Places
    BY <1>2, <1>4 DEF HandlerStages
  <2>3. inst' \in [Ids -> {"none", "active", "suspended"}] /\ inst'[events[i].id] = "active"
    BY <1>3, <1>6, <2>1
  <2>4. solo = i /\ IsNewest(i) => events[i].action \in Syncing
    BY <1>1, <2>1, HandlerKnows
  <2> QED
    BY <1>1, <1>3, <2>1, <2>2, <2>3, <2>4, HandlerSync DEF Busy, HandlerStages
<1>9. CASE ListInstallationRepositories(i)
  <2>1. handlers[i].pc = "list" /\ inst' = inst
    BY <1>9 DEF ListInstallationRepositories, HandlerAt
  <2>2. \/ handlers' = [handlers EXCEPT ![i] = To("select", gh.repos)]
        \/ handlers' = [handlers EXCEPT ![i] = To("failed", handlers[i].list)]
    BY <1>1, <1>5, <1>9 DEF ListInstallationRepositories
  <2>3. To("select", gh.repos) \in Places /\ To("failed", handlers[i].list) \in Places
    BY <1>2, <1>4 DEF HandlerStages
  <2>4. solo = i /\ IsNewest(i) =>
          events[i].action \in Syncing /\ inst[events[i].id] = "active"
    BY <1>1, <2>1, HandlerKnows
  <2>5. CASE handlers' = [handlers EXCEPT ![i] = To("select", gh.repos)]
    BY <1>1, <1>3, <2>1, <2>3, <2>4, <2>5, HandlerSync DEF Busy, HandlerStages
  <2>6. CASE handlers' = [handlers EXCEPT ![i] = To("failed", handlers[i].list)]
    BY <1>1, <1>3, <2>1, <2>3, <2>6, HandlerSync DEF Busy, HandlerStages
  <2> QED
    BY <2>2, <2>5, <2>6
<1>10. CASE SelectInstallation(i)
  <2>1. handlers[i].pc = "select" /\ inst' = inst
    BY <1>10 DEF SelectInstallation, HandlerAt
  <2>2. PICK pc \in {"failed", "write"} : handlers' = [handlers EXCEPT ![i] = To(pc, handlers[i].list)]
    BY <1>5, <1>10 DEF SelectInstallation, Step
  <2>3. To(pc, handlers[i].list) \in Places
    BY <1>2, <1>4 DEF HandlerStages
  <2>4. solo = i /\ IsNewest(i) =>
          /\ events[i].action \in Syncing /\ inst[events[i].id] = "active"
          /\ handlers[i].list = gh.repos
    BY <1>1, <2>1, HandlerKnows
  <2> QED
    BY <1>1, <1>3, <2>1, <2>2, <2>3, <2>4, HandlerSync DEF Busy, HandlerStages
<1> QED
  BY <1>7, <1>8, <1>9, <1>10

LEMMA WritesSync ==
  ASSUME SyncInv, NEW i,
         \/ SyncRepositories(i) \/ SetInstallationSuspended(i)
         \/ DeleteInstallation(i)
  PROVE  SyncInv'
<1>1. i \in DOMAIN handlers /\ UNCHANGED <<gh, events, solo>>
  BY DEF SyncRepositories, SetInstallationSuspended, DeleteInstallation, HandlerAt
<1>2. handlers[i] \in Places /\ events[i].id \in Ids /\ events[i].id # 0
  BY <1>1, HandlerKnows DEF Ids
<1>3. /\ inst \in [Ids -> {"none", "active", "suspended"}]
      /\ repos \in [Repos -> {"none", "enabled", "disabled"}]
      /\ gh.repos \subseteq Repos
  BY DEF SyncInv, SyncTypeOK
<1> DEFINE To(pc, list) == [pc |-> pc, list |-> list]
<1>4. To("done", {}) \in Places /\ To("done", handlers[i].list) \in Places
  BY <1>2 DEF Places, HandlerStages
<1>5. [handlers[i] EXCEPT !.pc = "done"] = To("done", handlers[i].list)
  BY <1>2 DEF Places
<1>6. \A list \in SUBSET Repos : Synced(list) \in [Repos -> {"none", "enabled", "disabled"}]
  BY <1>3 DEF Synced
<1>7. CASE SyncRepositories(i)
  <2>1. /\ handlers[i].pc = "write" /\ inst' = inst /\ repos' = Synced(handlers[i].list)
        /\ handlers' = [handlers EXCEPT ![i] = To("done", {})]
    BY <1>7 DEF SyncRepositories, HandlerAt, Stop
  <2>2. handlers[i].list \subseteq Repos
    BY <1>2 DEF Places
  <2>3. ASSUME solo = i, IsNewest(i) PROVE TablesTrue(events[i].id)'
    <3>1. /\ events[i].action \in Syncing /\ inst[events[i].id] = "active"
          /\ handlers[i].list = gh.repos /\ Reports(events[i])
      BY <1>1, <2>1, <2>3, HandlerKnows
    <3>2. gh.id = events[i].id /\ ~gh.suspended
      BY <3>1 DEF Reports, Syncing
    <3>3. Enabled' = gh.repos
      BY <1>3, <2>1, <3>1 DEF Enabled, Synced
    <3> QED
      BY <1>1, <1>2, <2>1, <3>1, <3>2, <3>3 DEF TablesTrue
  <2> QED
    BY <1>1, <1>3, <1>4, <1>6, <2>1, <2>2, <2>3, HandlerSync DEF Busy, HandlerStages
<1>8. CASE SetInstallationSuspended(i)
  <2>1. /\ handlers[i].pc = "suspend" /\ repos' = repos
        /\ inst' = IF inst[events[i].id] = "none" THEN inst
                   ELSE [inst EXCEPT ![events[i].id] = "suspended"]
        /\ handlers' = [handlers EXCEPT ![i] = To("done", handlers[i].list)]
    BY <1>5, <1>8 DEF SetInstallationSuspended, HandlerAt, Step
  <2>2. inst' \in [Ids -> {"none", "active", "suspended"}] /\ inst'[events[i].id] # "active"
    BY <1>2, <1>3, <2>1
  <2>3. ASSUME solo = i, IsNewest(i) PROVE TablesTrue(events[i].id)'
    <3>1. events[i].action = "suspend" /\ Reports(events[i])
      BY <1>1, <2>1, <2>3, HandlerKnows
    <3>2. gh.id = events[i].id /\ gh.suspended
      BY <3>1 DEF Reports
    <3> QED
      BY <1>1, <1>2, <2>2, <3>2 DEF TablesTrue
  <2> QED
    BY <1>1, <1>3, <1>4, <2>1, <2>2, <2>3, HandlerSync DEF Busy, HandlerStages
<1>9. CASE DeleteInstallation(i)
  <2>1. /\ handlers[i].pc = "deleted"
        /\ inst' = [inst EXCEPT ![events[i].id] = "none"]
        /\ repos' = IF inst[events[i].id] = "none" THEN repos ELSE Synced({})
        /\ handlers' = [handlers EXCEPT ![i] = To("done", handlers[i].list)]
    BY <1>5, <1>9 DEF DeleteInstallation, HandlerAt, Step
  <2>2. inst' \in [Ids -> {"none", "active", "suspended"}] /\ inst'[events[i].id] = "none"
    BY <1>2, <1>3, <2>1
  <2>3. repos' \in [Repos -> {"none", "enabled", "disabled"}]
    BY <1>3, <1>6, <2>1
  <2>4. ASSUME solo = i, IsNewest(i) PROVE TablesTrue(events[i].id)'
    <3>1. events[i].action = "deleted" /\ Reports(events[i])
      BY <1>1, <2>1, <2>4, HandlerKnows
    <3>2. gh.id = 0 /\ ~gh.suspended
      BY <3>1 DEF Reports, SyncInv, SyncTypeOK
    <3> QED
      BY <1>1, <1>2, <2>2, <3>2 DEF TablesTrue
  <2> QED
    BY <1>1, <1>4, <2>1, <2>2, <2>3, <2>4, HandlerSync DEF Busy, HandlerStages
<1> QED
  BY <1>7, <1>8, <1>9

\* A handler begins: it is alone, or meets those under way and ends their solitude.
LEMMA DispatchSync ==
  ASSUME SyncInv, NEW i, Dispatch(i)
  PROVE  SyncInv'
<1>1. /\ i \in DOMAIN handlers /\ handlers[i].pc = "sent"
      /\ UNCHANGED <<gh, events, inst, repos>>
      /\ solo' = IF Running = {} THEN i ELSE 0
  BY DEF Dispatch, HandlerAt
<1>2. /\ handlers \in Seq(Places) /\ DOMAIN handlers = DOMAIN events
      /\ Len(handlers) = Len(events)
  BY DEF SyncInv, SyncTypeOK, Places
<1> DEFINE action == events[i].action
           pc == IF action \in Syncing THEN "upsert" ELSE action
           h == [pc |-> pc, list |-> handlers[i].list]
<1>3. action \in Actions /\ handlers[i] \in Places /\ pc \in {"upsert", "deleted", "suspend", "comment"}
  BY <1>1, HandlerKnows DEF Actions, Syncing
<1>4. h \in Places
  BY <1>3 DEF Places, HandlerStages
<1>5. handlers' = [handlers EXCEPT ![i] = h]
  <2>1. handlers' = [handlers EXCEPT ![i].pc = pc]
    BY DEF Dispatch, Step
  <2>2. \A p : [handlers[i] EXCEPT !.pc = p] = [pc |-> p, list |-> handlers[i].list]
    BY <1>3 DEF Places
  <2> HIDE DEF pc
  <2> QED
    BY <1>1, <2>1, <2>2
<1>6. pc = "upsert" => action \in Syncing
  BY <1>3 DEF Actions
<1>7. pc # "upsert" => action = pc
  OBVIOUS
<1> HIDE DEF pc, action
<1>8. /\ handlers' \in Seq(Places) /\ Len(handlers') = Len(handlers)
      /\ DOMAIN handlers' = DOMAIN handlers /\ handlers'[i] = h
      /\ \A j \in DOMAIN handlers \ {i} : handlers'[j] = handlers[j]
  BY <1>1, <1>2, <1>4, <1>5
<1>9. SyncTypeOK'
  BY <1>1, <1>2, <1>8 DEF SyncInv, SyncTypeOK, Places
<1>10. NewestReports'
  BY <1>1 DEF SyncInv, NewestReports, IsNewest, Reports
<1>11. SoloAlone'
  <2>1. Running' \subseteq Running \cup {i}
    BY <1>8 DEF Running
  <2> QED
    BY <1>1, <1>8, <2>1 DEF SoloAlone
<1>12. SoloRight'
  <2> SUFFICES ASSUME solo' # 0, IsNewest(solo)' PROVE SoloRight'
    BY DEF SoloRight
  <2>1. solo' = i
    BY <1>1
  <2>2. events[i].action # "comment"
    BY <1>1, <2>1 DEF IsNewest
  <2> QED
    BY <1>1, <1>3, <1>6, <1>7, <1>8, <2>1, <2>2 DEF SoloRight, action
<1> QED
  BY <1>9, <1>10, <1>11, <1>12 DEF SyncInv

\* A handler that fails, or that dies before it began, puts nothing right and nothing wrong.
LEMMA StopsSync ==
  ASSUME SyncInv, NEW i, HandlerStops(i)
  PROVE  SyncInv'
<1> DEFINE h == [pc |-> "failed", list |-> {}]
<1>1. /\ i \in DOMAIN handlers /\ handlers[i].pc \notin {"done", "failed"}
      /\ UNCHANGED <<gh, events, inst, repos, solo>>
      /\ handlers' = [handlers EXCEPT ![i] = h]
  BY DEF HandlerStops, Stop, Stopped
<1>2. /\ handlers \in Seq(Places) /\ DOMAIN handlers = DOMAIN events
      /\ Len(handlers) = Len(events)
  BY DEF SyncInv, SyncTypeOK, Places
<1>3. h \in Places
  BY DEF Places, HandlerStages
<1>4. /\ handlers' \in Seq(Places) /\ Len(handlers') = Len(handlers)
      /\ DOMAIN handlers' = DOMAIN handlers /\ handlers'[i] = h
      /\ \A j \in DOMAIN handlers \ {i} : handlers'[j] = handlers[j]
  BY <1>1, <1>2, <1>3
<1>5. SyncTypeOK'
  BY <1>1, <1>2, <1>4 DEF SyncInv, SyncTypeOK, Places
<1>6. NewestReports'
  BY <1>1 DEF SyncInv, NewestReports, IsNewest, Reports
<1>7. Running' \subseteq Running
  BY <1>4 DEF Running, Stopped
<1>8. SoloAlone'
  BY <1>1, <1>4, <1>7 DEF SyncInv, SoloAlone
<1>9. SoloRight'
  <2> SUFFICES ASSUME solo # 0, IsNewest(solo)' PROVE SoloRight'
    BY <1>1 DEF SoloRight
  <2>1. IsNewest(solo) /\ solo \in DOMAIN handlers
    BY <1>1 DEF IsNewest, SyncInv, SoloAlone
  <2>2. CASE solo = i
    BY <1>1, <1>4, <2>2 DEF SoloRight
  <2>3. CASE solo # i
    BY <1>1, <1>4, <2>1, <2>3 DEF SyncInv, SoloRight, TablesTrue, Enabled
  <2> QED
    BY <2>2, <2>3
<1> QED
  BY <1>5, <1>6, <1>8, <1>9 DEF SyncInv

LEMMA GitHubSync ==
  ASSUME SyncInv,
         \/ Install \/ Uninstall \/ Suspend \/ Unsuspend
         \/ SelectRepositories \/ Comment
  PROVE  SyncInv'
<1> MaxInstalls \in Nat
  BY SyncAssumption
<1> DEFINE G == [id : Nat, next : Nat \ {0}, suspended : BOOLEAN, repos : SUBSET Repos]
<1>1. gh \in G /\ (gh.id # 0 => gh.id \in Ids) /\ (gh.id = 0 => ~gh.suspended)
  BY DEF SyncInv, SyncTypeOK
<1>2. NoRepo \in Repos \cup {NoRepo} /\ 0 \notin Ids
  BY DEF Ids
<1>3. CASE Install
  <2>1. PICK S \in SUBSET Repos :
          gh' = [id |-> gh.next, next |-> gh.next + 1, suspended |-> FALSE, repos |-> S]
    BY <1>3 DEF Install
  <2>2. gh.next \in Ids /\ Deliver("created", gh.next, NoRepo)
        /\ UNCHANGED <<inst, repos, solo>>
    BY <1>1, <1>3 DEF Install, Ids
  <2>3. gh' \in G /\ gh'.id = gh.next /\ ~gh'.suspended
    BY <1>1, <2>1
  <2>4. "created" \in Actions /\ "created" \in Syncing
    BY DEF Actions, Syncing
  <2> QED
    BY <1>2, <2>2, <2>3, <2>4, DeliverSync
<1>4. CASE Uninstall
  <2>1. gh.id \in Ids /\ Deliver("deleted", gh.id, NoRepo)
        /\ UNCHANGED <<inst, repos, solo>>
    BY <1>1, <1>4 DEF Uninstall
  <2>2. gh' \in G /\ gh'.id = 0 /\ ~gh'.suspended
    BY <1>1, <1>4 DEF Uninstall
  <2>3. "deleted" \in Actions
    BY DEF Actions
  <2> QED
    BY <1>2, <2>1, <2>2, <2>3, DeliverSync
<1>5. CASE Suspend
  <2>1. gh.id \in Ids /\ Deliver("suspend", gh.id, NoRepo)
        /\ UNCHANGED <<inst, repos, solo>>
    BY <1>1, <1>5 DEF Suspend
  <2>2. gh' \in G /\ gh'.id = gh.id /\ gh'.suspended
    BY <1>1, <1>5 DEF Suspend
  <2>3. "suspend" \in Actions
    BY DEF Actions
  <2> QED
    BY <1>2, <2>1, <2>2, <2>3, DeliverSync
<1>6. CASE Unsuspend
  <2>1. gh.id \in Ids /\ Deliver("unsuspend", gh.id, NoRepo)
        /\ UNCHANGED <<inst, repos, solo>>
    BY <1>1, <1>6 DEF Unsuspend
  <2>2. gh' \in G /\ gh'.id = gh.id /\ ~gh'.suspended
    BY <1>1, <1>6 DEF Unsuspend
  <2>3. "unsuspend" \in Actions /\ "unsuspend" \in Syncing
    BY DEF Actions, Syncing
  <2> QED
    BY <1>2, <2>1, <2>2, <2>3, DeliverSync
<1>7. CASE SelectRepositories
  <2>1. gh.id \in Ids /\ Deliver("repositories", gh.id, NoRepo)
        /\ UNCHANGED <<inst, repos, solo>>
    BY <1>1, <1>7 DEF SelectRepositories
  <2>2. gh' \in G /\ gh'.id = gh.id /\ ~gh'.suspended
    BY <1>1, <1>7 DEF SelectRepositories
  <2>3. "repositories" \in Actions /\ "repositories" \in Syncing
    BY DEF Actions, Syncing
  <2> QED
    BY <1>2, <2>1, <2>2, <2>3, DeliverSync
<1>8. CASE Comment
  <2>1. gh.id \in Ids /\ UNCHANGED <<gh, inst, repos, solo>>
    BY <1>1, <1>8 DEF Comment
  <2>2. PICK r \in gh.repos : Deliver("comment", gh.id, r)
    BY <1>8 DEF Comment
  <2>3. r \in Repos \cup {NoRepo} /\ "comment" \in Actions
    BY <1>1 DEF Actions
  <2> QED
    BY <1>1, <2>1, <2>2, <2>3, DeliverSync
<1> QED
  BY <1>3, <1>4, <1>5, <1>6, <1>7, <1>8

LEMMA SyncStep == SyncInv /\ [SyncNext]_syncVars => SyncInv'
<1> SUFFICES ASSUME SyncInv, [SyncNext]_syncVars PROVE SyncInv'
  OBVIOUS
<1>1. CASE UNCHANGED syncVars
  BY <1>1 DEF syncVars, SyncInv, SyncTypeOK, NewestReports, Reports, SoloAlone, SoloRight,
     IsNewest, Running, TablesTrue, Enabled
<1>2. CASE Install \/ Uninstall \/ Suspend \/ Unsuspend
           \/ SelectRepositories \/ Comment
  BY <1>2, GitHubSync
<1>3. ASSUME NEW i,
             \/ Dispatch(i) \/ repositoryForCommand(i) \/ UpsertInstallation(i)
             \/ ListInstallationRepositories(i) \/ SelectInstallation(i)
             \/ SyncRepositories(i) \/ SetInstallationSuspended(i)
             \/ DeleteInstallation(i) \/ HandlerStops(i)
      PROVE  SyncInv'
  BY <1>3, DispatchSync, StepsSync, WritesSync, StopsSync
<1> QED
  BY <1>1, <1>2, <1>3 DEF SyncNext

\* github/process.go, syncInstallation, over github/store.go: whatever earlier
\* handlers failed to do, did out of order or did at the same time, the handler of
\* the newest event leaves the installation and its repositories as GitHub has them
\* when it runs after them and alone.
THEOREM LastEventAlwaysRestores == SyncSpec => []LastEventRestores
<1>1. SyncInit => SyncInv
  BY SyncInitOK
<1>2. SyncInv /\ [SyncNext]_syncVars => SyncInv'
  BY SyncStep
<1> QED
  BY <1>1, <1>2, SyncInvRestores, PTL DEF SyncSpec
===============================================================================
