-------------------------- MODULE TaskStoreProofs ---------------------------
(***************************************************************************)
(* Proofs about TaskStore, for every set of tasks, issues, keys and values *)
(* and every revision limit; then about TaskStream, which reads the        *)
(* timeline of one task, for every batch size and number of faults.        *)
(***************************************************************************)
EXTENDS TaskStream, SequenceTheorems, FiniteSetTheorems, TLAPS

-----------------------------------------------------------------------------
(* Lemmas about the timeline.                                              *)

\* insertEvent's MAX over the sequence numbers 1..n, or over none, is n.
LEMMA MaxOfInterval ==
  ASSUME NEW n \in Nat
  PROVE  Max((1..n) \cup {0}) = n
<1>1. n \in (1..n) \cup {0} /\ \A y \in (1..n) \cup {0} : n >= y
  OBVIOUS
<1>2. \A x \in (1..n) \cup {0} :
        (\A y \in (1..n) \cup {0} : x >= y) => x = n
  OBVIOUS
<1> QED
  BY <1>1, <1>2 DEF Max

\* Which sequence numbers an attempt has used.
LEMMA SequenceNumbersOf ==
  ASSUME NEW log \in Seq(ActivityEvent), NEW a
  PROVE  \A x : x \in SequenceNumbers(log, a) <=>
           \E i \in 1..Len(log) : log[i].attempt = a /\ x = log[i].seq
<1>1. DOMAIN log = 1..Len(log)
  OBVIOUS
<1> QED
  BY <1>1 DEF SequenceNumbers

\* A timeline of n attempts: typed, filed under attempts that exist, and numbered
\* without gaps in commit order (SequencesOK, as a fact about the log alone).
LogOK(log, n) ==
  /\ log \in Seq(ActivityEvent)
  /\ \A i \in 1..Len(log) : log[i].attempt \in 1..n
  /\ \A a \in 1..n : \E m \in 0..Len(log) : SequenceNumbers(log, a) = 1..m
  /\ \A i, j \in 1..Len(log) :
       i < j /\ log[i].attempt = log[j].attempt => log[i].seq < log[j].seq

\* A row whose attempts are well formed has a well numbered timeline exactly
\* when LogOK says so.
LEMMA LogOKIsSequencesOK ==
  ASSUME NEW r \in Row
  PROVE  LogOK(r.log, Len(r.attempts)) <=> SequencesOK(r)
<1>1. /\ r.log \in Seq(ActivityEvent) /\ DOMAIN r.log = 1..Len(r.log)
      /\ r.attempts \in Seq(Attempt) /\ DOMAIN r.attempts = 1..Len(r.attempts)
  BY DEF Row
<1> QED
  BY <1>1 DEF LogOK, SequencesOK

\* A revision adds an attempt that has no event yet.
LEMMA LogOKGrows ==
  ASSUME NEW log, NEW n \in Nat, LogOK(log, n)
  PROVE  LogOK(log, n + 1)
<1>1. log \in Seq(ActivityEvent) /\ Len(log) \in Nat /\ DOMAIN log = 1..Len(log)
  BY DEF LogOK
<1>2. SequenceNumbers(log, n + 1) = 1..0
  BY <1>1 DEF LogOK, SequenceNumbers
<1>3. ASSUME NEW a \in 1..(n + 1)
      PROVE  \E m \in 0..Len(log) : SequenceNumbers(log, a) = 1..m
  <2>1. CASE a = n + 1
    <3>1. 0 \in 0..Len(log) /\ SequenceNumbers(log, a) = 1..0
      BY <1>1, <1>2, <2>1
    <3> QED
      BY <3>1
  <2>2. CASE a # n + 1
    <3>1. a \in 1..n
      BY <2>2
    <3> QED
      BY <3>1 DEF LogOK
  <2> QED
    BY <2>1, <2>2
<1> QED
  BY <1>1, <1>3 DEF LogOK

\* What insertEvent appends, and that the timeline stays well numbered.
LEMMA LogOKAppend ==
  ASSUME NEW log, NEW n \in Nat, LogOK(log, n), NEW a \in 1..n,
         NEW from \in AllStatuses \cup {"none"},
         NEW type \in AllStatuses \cup {"note"}, NEW key \in Keys \cup {NoKey},
         NEW seq, seq = Max(SequenceNumbers(log, a) \cup {0}) + 1
  PROVE  /\ Event(a, seq, from, type, key) \in ActivityEvent
         /\ \A i \in 1..Len(log) : log[i].attempt = a => log[i].seq < seq
         /\ LogOK(Append(log, Event(a, seq, from, type, key)), n)
<1> DEFINE e == Event(a, seq, from, type, key)
           new == Append(log, e)
<1>1. log \in Seq(ActivityEvent) /\ Len(log) \in Nat /\ DOMAIN log = 1..Len(log)
  BY DEF LogOK
<1>2. PICK m \in 0..Len(log) : SequenceNumbers(log, a) = 1..m
  BY DEF LogOK
<1>3. m \in Nat /\ seq = m + 1
  BY <1>1, <1>2, MaxOfInterval
<1>4. e \in ActivityEvent
  BY <1>1, <1>3 DEF Event, ActivityEvent
<1>5. ASSUME NEW i \in 1..Len(log), log[i].attempt = a
      PROVE  log[i].seq < seq
  <2>1. log[i].seq \in SequenceNumbers(log, a)
    BY <1>1, <1>5 DEF SequenceNumbers
  <2> QED
    BY <2>1, <1>2, <1>3
<1>6. /\ new \in Seq(ActivityEvent) /\ Len(new) = Len(log) + 1
      /\ DOMAIN new = 1..Len(new)
      /\ \A i \in 1..Len(log) : new[i] = log[i]
      /\ new[Len(new)] = e
  BY <1>1, <1>4
<1>7. e.attempt = a /\ e.seq = seq
  BY DEF Event
<1> HIDE DEF e, new
<1>a. \A i \in 1..Len(new) : i \in 1..Len(log) \/ i = Len(new)
  BY <1>1, <1>6
<1>b. \A i \in 1..Len(log) : log[i].attempt \in 1..n
  BY DEF LogOK
<1>8. \A i \in 1..Len(new) : new[i].attempt \in 1..n
  BY <1>6, <1>7, <1>a, <1>b
<1>9. ASSUME NEW b \in 1..n
      PROVE  \E k \in 0..Len(new) : SequenceNumbers(new, b) = 1..k
  <2>1. CASE b = a
    <3>1. \A x : x \in SequenceNumbers(new, b) <=>
                   x \in SequenceNumbers(log, a) \/ x = seq
      BY <1>1, <1>6, <1>7, <2>1, SequenceNumbersOf
    <3>2. \A x : x \in 1..(m + 1) <=> x \in 1..m \/ x = m + 1
      BY <1>3
    <3>3. \A x : x \in SequenceNumbers(new, b) <=> x \in 1..(m + 1)
      BY <3>1, <3>2, <1>2, <1>3
    <3>4. SequenceNumbers(new, b) = 1..(m + 1)
      BY <3>3
    <3> QED
      BY <3>4, <1>1, <1>3, <1>6
  <2>2. CASE b # a
    <3>1. SequenceNumbers(new, b) = SequenceNumbers(log, b)
      <4>1. \A x : x \in SequenceNumbers(new, b) <=>
                     x \in SequenceNumbers(log, b)
        BY <1>1, <1>6, <1>7, <2>2, SequenceNumbersOf
      <4> QED
        BY <4>1
    <3>2. PICK k \in 0..Len(log) : SequenceNumbers(log, b) = 1..k
      BY DEF LogOK
    <3> QED
      BY <3>1, <3>2, <1>1, <1>6
  <2> QED
    BY <2>1, <2>2
<1>10. ASSUME NEW i \in 1..Len(new), NEW j \in 1..Len(new),
              i < j, new[i].attempt = new[j].attempt
       PROVE  new[i].seq < new[j].seq
  <2>1. i \in 1..Len(log) /\ new[i] = log[i]
    BY <1>1, <1>6, <1>10
  <2>2. CASE j = Len(new)
    BY <2>1, <2>2, <1>5, <1>6, <1>7, <1>10
  <2>3. CASE j # Len(new)
    <3>1. j \in 1..Len(log) /\ new[j] = log[j]
      BY <2>3, <1>6, <1>a
    <3>2. \A k, l \in 1..Len(log) : k < l /\ log[k].attempt = log[l].attempt
                                   => log[k].seq < log[l].seq
      BY DEF LogOK
    <3> QED
      BY <2>1, <3>1, <3>2, <1>10
  <2> QED
    BY <2>2, <2>3
<1>11. LogOK(new, n)
  BY <1>6, <1>8, <1>9, <1>10 DEF LogOK
<1> QED
  BY <1>4, <1>5, <1>11 DEF e, new

-----------------------------------------------------------------------------
(* Lemmas about a row: what applyTransition and the other writers leave.   *)

RowOK(r) == r \in Row /\ AttemptsOK(r) /\ SequencesOK(r)

TransitionParams ==
  [to : AllStatuses, key : Keys \cup {NoKey}, expect : Int,
   comment : Values \cup {NoValue}, base : Values \cup {NoValue}]

\* The shape AttemptsOK gives the attempts of a task in status st.
AttemptsShape(att, st) ==
  /\ att \in Seq(Attempt)
  /\ Len(att) >= 1
  /\ \A a \in 1..Len(att) : att[a].number = a
  /\ \A a \in 1..(Len(att) - 1) : att[a].status = "superseded"
  /\ att[Len(att)].status = IF Terminal(st) THEN st ELSE "active"

\* A live task has exactly one active attempt, its newest; a finished one none.
LEMMA ActiveIsNewest ==
  ASSUME NEW r \in Row, AttemptsOK(r)
  PROVE  /\ Terminal(r.status) => ActiveAttempts(r) = {}
         /\ ~Terminal(r.status) => /\ ActiveAttempts(r) = {Len(r.attempts)}
                                  /\ ActiveAttempt(r) = Len(r.attempts)
<1> DEFINE n == Len(r.attempts)
<1>1. /\ r.attempts \in Seq(Attempt) /\ DOMAIN r.attempts = 1..n
      /\ n \in Nat /\ n >= 1
      /\ \A a \in 1..(n - 1) : r.attempts[a].status = "superseded"
      /\ r.attempts[n].status = IF Terminal(r.status) THEN r.status ELSE "active"
  BY DEF Row, AttemptsOK
<1>2. \A a \in 1..n : a = n \/ a \in 1..(n - 1)
  BY <1>1
<1>3. ASSUME Terminal(r.status)
      PROVE  ActiveAttempts(r) = {}
  <2>1. r.attempts[n].status # "active"
    BY <1>1, <1>3 DEF Terminal, PhaseTerminal
  <2>2. \A a \in 1..n : r.attempts[a].status # "active"
    BY <1>1, <1>2, <2>1
  <2> QED
    BY <1>1, <2>2 DEF ActiveAttempts
<1>4. ASSUME ~Terminal(r.status)
      PROVE  ActiveAttempts(r) = {n}
  <2>1. \A a \in 1..n : r.attempts[a].status = "active" <=> a = n
    BY <1>1, <1>2, <1>4
  <2> QED
    BY <1>1, <2>1 DEF ActiveAttempts
<1> QED
  BY <1>3, <1>4 DEF ActiveAttempt

\* The three writes of applyTransition to task_attempts keep AttemptsOK for the
\* status the task is moved to, and the event goes to the newest attempt.
LEMMA MoveAttemptsShape ==
  ASSUME NEW r \in Row, AttemptsOK(r), ~Terminal(r.status),
         NEW p \in TransitionParams
  PROVE  LET n == Len(r.attempts)
             att == MoveAttempts(r, p, n)
         IN /\ AttemptsShape(att, p.to)
            /\ Len(att) = EventAttempt(r, p, n)
            /\ \A a \in 1..n : /\ att[a].checkRun = r.attempts[a].checkRun
                               /\ att[a].base = r.attempts[a].base
                               /\ att[a].comment = r.attempts[a].comment
            /\ Len(att) \in {n, n + 1}
            /\ Len(att) = n + 1 => att[n + 1].comment = p.comment
<1> DEFINE n == Len(r.attempts)
           att == MoveAttempts(r, p, n)
<1>1. /\ r.attempts \in Seq(Attempt) /\ DOMAIN r.attempts = 1..n
      /\ n \in Nat /\ n >= 1 /\ n \in 1..n
      /\ \A a \in 1..n : r.attempts[a] \in Attempt
      /\ \A a \in 1..n : r.attempts[a].number = a
      /\ \A a \in 1..(n - 1) : r.attempts[a].status = "superseded"
      /\ r.attempts[n].status = "active"
  BY DEF Row, AttemptsOK
<1>2. ASSUME NEW v \in Attempt
      PROVE  LET s == [r.attempts EXCEPT ![n] = v]
             IN s \in Seq(Attempt) /\ Len(s) = n /\ s[n] = v
                /\ \A a \in 1..n : a # n => s[a] = r.attempts[a]
  BY <1>1
<1>3. p.to \in AllStatuses /\ p.comment \in Values \cup {NoValue}
        /\ p.base \in Values \cup {NoValue}
  BY DEF TransitionParams
<1>4. CASE Terminal(p.to)
  <2> DEFINE v == [r.attempts[n] EXCEPT !.status = p.to]
  <2>1. v \in Attempt /\ v.status = p.to /\ v.number = n
          /\ v.checkRun = r.attempts[n].checkRun /\ v.base = r.attempts[n].base
          /\ v.comment = r.attempts[n].comment
    <3>1. r.attempts[n] \in Attempt /\ r.attempts[n].number = n
      BY <1>1
    <3>2. p.to \in AttemptStatuses
      BY <1>4 DEF AttemptStatuses, Terminal
    <3> QED
      BY <3>1, <3>2 DEF Attempt
  <2>2. att = [r.attempts EXCEPT ![n] = v]
    BY <1>4 DEF MoveAttempts
  <2>3. EventAttempt(r, p, n) = n
    BY <1>4 DEF EventAttempt, Terminal, PhaseTerminal
  <2> QED
    BY <1>1, <1>2, <1>4, <2>1, <2>2, <2>3 DEF AttemptsShape
<1>5. CASE r.status = "revision_requested" /\ p.to = "queued"
  <2> DEFINE v == [r.attempts[n] EXCEPT !.status = "superseded"]
             new == NewAttempt(r.attempts[n].number + 1, p.comment, p.base)
             old == [r.attempts EXCEPT ![n] = v]
  <2>1. v \in Attempt /\ v.status = "superseded" /\ v.number = n
          /\ v.checkRun = r.attempts[n].checkRun /\ v.base = r.attempts[n].base
          /\ v.comment = r.attempts[n].comment
    <3>1. r.attempts[n] \in Attempt /\ r.attempts[n].number = n
      BY <1>1
    <3>2. "superseded" \in AttemptStatuses
      BY DEF AttemptStatuses
    <3> QED
      BY <3>1, <3>2 DEF Attempt
  <2>2. new \in Attempt /\ new.status = "active" /\ new.number = n + 1
          /\ new.comment = p.comment
    BY <1>1, <1>3 DEF Attempt, AttemptStatuses, NewAttempt
  <2>3. ~Terminal(p.to)
    BY <1>5 DEF Terminal, PhaseTerminal
  <2>4. att = Append(old, new) /\ EventAttempt(r, p, n) = n + 1
    BY <1>5, <2>3 DEF MoveAttempts, EventAttempt
  <2>5. old \in Seq(Attempt) /\ Len(old) = n /\ old[n] = v
          /\ \A a \in 1..n : a # n => old[a] = r.attempts[a]
    BY <1>2, <2>1
  <2> HIDE DEF v, new, old
  <2>6. att \in Seq(Attempt) /\ Len(att) = n + 1 /\ att[n + 1] = new
          /\ \A a \in 1..n : att[a] = old[a]
    BY <2>2, <2>4, <2>5
  <2> HIDE DEF att
  <2>7. \A a \in 1..(n + 1) : a = n + 1 \/ a = n \/ a \in 1..(n - 1)
    BY <1>1
  <2>8. \A a \in 1..(n - 1) : att[a] = r.attempts[a] /\ a \in 1..n
    BY <1>1, <2>5, <2>6
  <2>9. \A a \in 1..(n + 1) : att[a].number = a
    BY <1>1, <2>1, <2>2, <2>5, <2>6, <2>7, <2>8
  <2>10. \A a \in 1..n : att[a].status = "superseded"
    BY <1>1, <2>1, <2>5, <2>6, <2>7, <2>8
  <2>11. \A a \in 1..n : /\ att[a].checkRun = r.attempts[a].checkRun
                         /\ att[a].base = r.attempts[a].base
                         /\ att[a].comment = r.attempts[a].comment
    <3>1. \A a \in 1..n : a = n \/ a \in 1..(n - 1)
      BY <1>1
    <3>2. att[n] = v
      BY <1>1, <2>5, <2>6
    <3> QED
      BY <2>1, <2>8, <3>1, <3>2
  <2>12. AttemptsShape(att, p.to)
    BY <1>1, <2>2, <2>3, <2>6, <2>9, <2>10 DEF AttemptsShape
  <2> QED
    BY <1>1, <2>2, <2>4, <2>6, <2>9, <2>11, <2>12 DEF att
<1>6. CASE /\ ~Terminal(p.to)
           /\ ~(r.status = "revision_requested" /\ p.to = "queued")
           /\ p.to = "provisioning"
  <2> DEFINE v == [r.attempts[n] EXCEPT !.startedAt = 1]
  <2>1. v \in Attempt /\ v.status = "active" /\ v.number = n
          /\ v.checkRun = r.attempts[n].checkRun /\ v.base = r.attempts[n].base
          /\ v.comment = r.attempts[n].comment
    BY <1>1 DEF Attempt
  <2>2. att = [r.attempts EXCEPT ![n] = v] /\ EventAttempt(r, p, n) = n
    BY <1>6 DEF MoveAttempts, EventAttempt
  <2> QED
    BY <1>1, <1>2, <1>6, <2>1, <2>2 DEF AttemptsShape
<1>7. CASE /\ ~Terminal(p.to)
           /\ ~(r.status = "revision_requested" /\ p.to = "queued")
           /\ p.to # "provisioning"
  <2>1. att = r.attempts /\ EventAttempt(r, p, n) = n
    BY <1>7 DEF MoveAttempts, EventAttempt
  <2> QED
    BY <1>1, <1>7, <2>1 DEF AttemptsShape
<1> QED
  BY <1>4, <1>5, <1>6, <1>7

\* The timeline gains one event, filed under attempt a and numbered after all of
\* that attempt's events.
LogGains(old, new, a, from, type, key) ==
  \E seq \in Nat :
    /\ new = Append(old, Event(a, seq, from, type, key))
    /\ \A i \in 1..Len(old) : old[i].attempt = a => old[i].seq < seq

SameColumns(r, s) ==
  s.issue = r.issue /\ s.base = r.base /\ s.branch = r.branch

\* insertEvent writes one event and nothing else.
LEMMA InsertEventOK ==
  ASSUME NEW r \in Row, SequencesOK(r), NEW a \in 1..Len(r.attempts),
         NEW from \in AllStatuses \cup {"none"},
         NEW type \in AllStatuses \cup {"note"}, NEW key \in Keys \cup {NoKey},
         NEW s, s = insertEvent(r, a, from, type, key)
  PROVE  /\ s \in Row /\ SequencesOK(s) /\ SameColumns(r, s)
         /\ s.status = r.status /\ s.version = r.version
         /\ s.attempts = r.attempts
         /\ LogGains(r.log, s.log, a, from, type, key)
<1> DEFINE n == Len(r.attempts)
           seq == Max(SequenceNumbers(r.log, a) \cup {0}) + 1
           e == Event(a, seq, from, type, key)
<1>1. r.log \in Seq(ActivityEvent) /\ r.attempts \in Seq(Attempt) /\ n \in Nat
  BY DEF Row
<1>2. LogOK(r.log, n)
  BY LogOKIsSequencesOK
<1>3. /\ e \in ActivityEvent
      /\ \A i \in 1..Len(r.log) : r.log[i].attempt = a => r.log[i].seq < seq
      /\ LogOK(Append(r.log, e), n)
  BY <1>1, <1>2, LogOKAppend
<1>4. seq \in Nat
  BY <1>3 DEF ActivityEvent, Event
<1>5. s = [r EXCEPT !.log = Append(r.log, e)]
  BY DEF insertEvent
<1> HIDE DEF e, seq
<1>6. Append(r.log, e) \in Seq(ActivityEvent)
  BY <1>1, <1>3
<1>7. s \in Row /\ s.log = Append(r.log, e) /\ s.attempts = r.attempts
        /\ s.status = r.status /\ s.version = r.version /\ SameColumns(r, s)
  BY <1>5, <1>6 DEF Row, SameColumns
<1>8. SequencesOK(s)
  BY <1>3, <1>7, LogOKIsSequencesOK
<1>9. LogGains(r.log, s.log, a, from, type, key)
  BY <1>3, <1>4, <1>7 DEF LogGains, e
<1> QED
  BY <1>7, <1>8, <1>9

\* What an applied transition does to a row, in terms of its columns.
AppliedTo(r, p, s) ==
  /\ CanTransition(r.status, p.to)
  /\ ~KeySeen(r, p.key)
  /\ s.status = p.to
  /\ s.version = r.version + 1
  /\ SameColumns(r, s)
  /\ Len(s.attempts) = EventAttempt(r, p, Len(r.attempts))
  /\ \A a \in 1..Len(r.attempts) :
       /\ s.attempts[a].checkRun = r.attempts[a].checkRun
       /\ s.attempts[a].base = r.attempts[a].base
       /\ s.attempts[a].comment = r.attempts[a].comment
  /\ Len(s.attempts) \in {Len(r.attempts), Len(r.attempts) + 1}
  /\ Len(s.attempts) = Len(r.attempts) + 1
       => s.attempts[Len(s.attempts)].comment = p.comment
  /\ LogGains(r.log, s.log, Len(s.attempts), r.status, p.to, p.key)

\* applyTransition keeps a row well formed and does what AppliedTo says.
LEMMA ApplyTransitionOK ==
  ASSUME NEW r, RowOK(r), NEW p \in TransitionParams,
         TransitionOutcome(r, p) = "applied",
         NEW s, s = applyTransition(r, p)
  PROVE  RowOK(s) /\ AppliedTo(r, p, s)
<1> DEFINE n == Len(r.attempts)
           att == MoveAttempts(r, p, n)
           m == [r EXCEPT !.status = p.to, !.version = @ + 1,
                          !.startedAt = IF p.to = "provisioning" THEN 1 ELSE @,
                          !.attempts = att]
<1>1. r \in Row /\ AttemptsOK(r) /\ SequencesOK(r)
  BY DEF RowOK
<1>2. CanTransition(r.status, p.to) /\ ~KeySeen(r, p.key)
        /\ ActiveAttempts(r) # {}
  BY DEF TransitionOutcome
<1>3. ~Terminal(r.status) /\ ActiveAttempt(r) = n
  BY <1>1, <1>2, ActiveIsNewest
<1>4. /\ AttemptsShape(att, p.to)
      /\ Len(att) = EventAttempt(r, p, n)
      /\ \A a \in 1..n : /\ att[a].checkRun = r.attempts[a].checkRun
                         /\ att[a].base = r.attempts[a].base
                         /\ att[a].comment = r.attempts[a].comment
      /\ Len(att) \in {n, n + 1}
      /\ Len(att) = n + 1 => att[n + 1].comment = p.comment
  BY <1>1, <1>3, MoveAttemptsShape
<1>5. s = insertEvent(m, Len(att), r.status, p.to, p.key)
  BY <1>3, <1>4 DEF applyTransition
<1>6. p.to \in AllStatuses /\ p.key \in Keys \cup {NoKey}
  BY DEF TransitionParams
<1>7. r.status \in AllStatuses /\ r.version \in Nat /\ n \in Nat
        /\ r.attempts \in Seq(Attempt) /\ r.log \in Seq(ActivityEvent)
  BY <1>1 DEF Row
<1> HIDE DEF att
<1>8. m \in Row
  <2> DEFINE started == IF p.to = "provisioning" THEN 1 ELSE r.startedAt
  <2>1. started \in {0, 1}
    BY <1>1 DEF Row
  <2>2. att \in Seq(Attempt) /\ r.version + 1 \in Nat
    BY <1>4, <1>7 DEF AttemptsShape
  <2>3. m = [r EXCEPT !.status = p.to, !.version = r.version + 1,
                      !.startedAt = started, !.attempts = att]
    OBVIOUS
  <2> HIDE DEF started, m
  <2> QED
    BY <1>1, <1>6, <2>1, <2>2, <2>3 DEF Row
<1>9. m.status = p.to /\ m.version = r.version + 1 /\ m.attempts = att
        /\ m.log = r.log /\ SameColumns(r, m)
  BY <1>1 DEF Row, SameColumns
<1> HIDE DEF m
<1>10. SequencesOK(m)
  <2>1. LogOK(r.log, n)
    BY <1>1, LogOKIsSequencesOK
  <2>2. LogOK(m.log, Len(m.attempts))
    BY <1>4, <1>7, <1>9, <2>1, LogOKGrows
  <2> QED
    BY <1>8, <2>2, LogOKIsSequencesOK
<1>11. Len(att) \in 1..Len(m.attempts)
  BY <1>4, <1>7, <1>9 DEF AttemptsShape
<1>12. /\ s \in Row /\ SequencesOK(s) /\ SameColumns(m, s)
       /\ s.status = m.status /\ s.version = m.version
       /\ s.attempts = m.attempts
       /\ LogGains(m.log, s.log, Len(att), r.status, p.to, p.key)
  BY <1>5, <1>6, <1>7, <1>8, <1>10, <1>11, InsertEventOK
<1>13. AttemptsOK(s)
  BY <1>4, <1>9, <1>12 DEF AttemptsShape, AttemptsOK
<1>14. AppliedTo(r, p, s)
  BY <1>2, <1>4, <1>9, <1>12 DEF AppliedTo, SameColumns
<1> QED
  BY <1>12, <1>13, <1>14 DEF RowOK

-----------------------------------------------------------------------------
(* Lemmas about the history of a row.                                      *)

\* How far along an attempt a status is; only superseding the attempt (a
\* revision) goes back.
Rank(st) ==
  CASE st = "created"            -> 0
    [] st = "queued"             -> 1
    [] st = "provisioning"       -> 2
    [] st = "planning"           -> 3
    [] st = "executing"          -> 4
    [] st = "validating"         -> 5
    [] st = "publishing"         -> 6
    [] st = "awaiting_review"    -> 7
    [] st = "revision_requested" -> 8
    [] OTHER                     -> 9

\* The strengthening StatusOncePerAttempt needs: the newest attempt has been in
\* no status beyond the current one.
RankOK(r) ==
  \A i \in StatusEvents(r) :
    r.log[i].attempt = Len(r.attempts) => Rank(r.log[i].type) <= Rank(r.status)

HistoryOK(r) ==
  KeysOK(r) /\ ReplayOK(r) /\ TimelineOK(r) /\ StatusOncePerAttempt(r) /\ RankOK(r)

\* Every edge of the status machine but the revision edge moves forward.
LEMMA RankGrows ==
  ASSUME NEW from, NEW to, CanTransition(from, to),
         ~(from = "revision_requested" /\ to = "queued")
  PROVE  Rank(from) \in Nat /\ Rank(to) \in Nat /\ Rank(from) < Rank(to)
  BY DEF CanTransition, AllStatuses, PhasePending, PhaseRunning, PhaseReview,
         PhaseTerminal, happyPath, Rank

\* An appended event that is no status event leaves the history as it was.
LEMMA NoteKeepsHistory ==
  ASSUME NEW r, RowOK(r), HistoryOK(r), NEW s, NEW a,
         LogGains(r.log, s.log, a, "none", "note", NoKey),
         s.status = r.status, Len(s.attempts) = Len(r.attempts)
  PROVE  HistoryOK(s)
<1> DEFINE L == Len(r.log)
<1>1. r.log \in Seq(ActivityEvent) /\ L \in Nat /\ DOMAIN r.log = 1..L
  BY DEF RowOK, Row
<1>2. PICK seq \in Nat : s.log = Append(r.log, Event(a, seq, "none", "note", NoKey))
  BY DEF LogGains
<1>3. /\ DOMAIN s.log = 1..(L + 1)
      /\ \A i \in 1..L : s.log[i] = r.log[i]
      /\ s.log[L + 1].type = "note" /\ s.log[L + 1].key = NoKey
  BY <1>1, <1>2 DEF Event
<1>4. "note" \notin AllStatuses
  BY DEF AllStatuses, PhasePending, PhaseRunning, PhaseReview, PhaseTerminal
<1>5. StatusEvents(s) = StatusEvents(r) /\ StatusEvents(r) \subseteq 1..L
  <2>1. \A i : i \in StatusEvents(r) <=> i \in 1..L /\ r.log[i].type \in AllStatuses
    BY <1>1 DEF StatusEvents
  <2>2. \A i : i \in StatusEvents(s) <=>
               i \in 1..(L + 1) /\ s.log[i].type \in AllStatuses
    BY <1>3 DEF StatusEvents
  <2>3. \A i : i \in 1..(L + 1) <=> i \in 1..L \/ i = L + 1
    BY <1>1
  <2>4. \A i : i \in StatusEvents(s) <=> i \in StatusEvents(r)
    BY <1>3, <1>4, <2>1, <2>2, <2>3
  <2> QED
    BY <2>1, <2>4
<1>6. KeysOK(s)
  <2>1. \A i, j \in 1..L : i # j /\ r.log[i].key # NoKey
                             => r.log[i].key # r.log[j].key
    BY <1>1 DEF HistoryOK, KeysOK
  <2>2. \A i \in 1..(L + 1) : i \in 1..L \/ i = L + 1
    BY <1>1
  <2> QED
    BY <1>3, <2>1, <2>2 DEF KeysOK
<1>7. ReplayOK(s)
  BY <1>3, <1>5 DEF HistoryOK, ReplayOK
<1>8. TimelineOK(s)
  <2>1. \A i \in StatusEvents(r) : s.log[i] = r.log[i]
    BY <1>3, <1>5
  <2> QED
    BY <1>5, <2>1 DEF HistoryOK, TimelineOK
<1>9. StatusOncePerAttempt(s) /\ RankOK(s)
  BY <1>3, <1>5 DEF HistoryOK, StatusOncePerAttempt, RankOK
<1> QED
  BY <1>6, <1>7, <1>8, <1>9 DEF HistoryOK

\* A write that touches neither the log nor the status keeps the history.
LEMMA QuietWriteKeepsHistory ==
  ASSUME NEW r, HistoryOK(r), NEW s, s.log = r.log, s.status = r.status,
         Len(s.attempts) = Len(r.attempts)
  PROVE  HistoryOK(s)
<1>1. StatusEvents(s) = StatusEvents(r)
  BY DEF StatusEvents
<1> QED
  BY <1>1 DEF HistoryOK, KeysOK, ReplayOK, TimelineOK, StatusOncePerAttempt, RankOK

\* An applied transition extends the history by one step of the status machine.
LEMMA TransitionKeepsHistory ==
  ASSUME NEW r, RowOK(r), HistoryOK(r), NEW p \in TransitionParams, NEW s,
         RowOK(s), AppliedTo(r, p, s)
  PROVE  HistoryOK(s)
<1> DEFINE L == Len(r.log)
           n == Len(r.attempts)
           k == Len(s.attempts)
<1>1. r.log \in Seq(ActivityEvent) /\ L \in Nat /\ DOMAIN r.log = 1..L
        /\ n \in Nat /\ k \in Nat /\ r.status \in AllStatuses
        /\ DOMAIN r.attempts = 1..n
  BY DEF RowOK, Row
<1>2. PICK seq \in Nat :
        /\ s.log = Append(r.log, Event(k, seq, r.status, p.to, p.key))
        /\ \A i \in 1..L : r.log[i].attempt = k => r.log[i].seq < seq
  BY DEF AppliedTo, LogGains
<1>3. /\ DOMAIN s.log = 1..(L + 1)
      /\ \A i \in 1..L : s.log[i] = r.log[i]
      /\ s.log[L + 1].type = p.to /\ s.log[L + 1].key = p.key
      /\ s.log[L + 1].from = r.status
      /\ s.log[L + 1].attempt = k /\ s.log[L + 1].seq = seq
  BY <1>1, <1>2 DEF Event
<1>4. /\ p.to \in AllStatuses /\ s.status = p.to
      /\ CanTransition(r.status, p.to) /\ ~KeySeen(r, p.key)
      /\ k \in {n, n + 1} /\ k = EventAttempt(r, p, n)
  BY DEF TransitionParams, AppliedTo
<1>5. /\ StatusEvents(s) = StatusEvents(r) \cup {L + 1}
      /\ StatusEvents(r) \subseteq 1..L
  BY <1>1, <1>3, <1>4 DEF StatusEvents
<1>6. \A i \in 1..L : r.log[i].attempt \in 1..n
  BY <1>1 DEF RowOK, SequencesOK
<1>7. KeysOK(s)
  <2>1. \A i \in 1..L : p.key # NoKey => r.log[i].key # p.key
    BY <1>1, <1>4 DEF KeySeen
  <2>2. \A i, j \in 1..L : i # j /\ r.log[i].key # NoKey
                             => r.log[i].key # r.log[j].key
    BY <1>1 DEF HistoryOK, KeysOK
  <2>3. \A i \in 1..(L + 1) : i \in 1..L \/ i = L + 1
    BY <1>1
  <2>4. ASSUME NEW i \in 1..(L + 1), NEW j \in 1..(L + 1), i # j,
               s.log[i].key # NoKey
        PROVE  s.log[i].key # s.log[j].key
    <3>1. CASE i = L + 1
      BY <1>3, <2>1, <2>3, <2>4, <3>1
    <3>2. CASE j = L + 1
      BY <1>3, <2>1, <2>3, <2>4, <3>2
    <3>3. CASE i \in 1..L /\ j \in 1..L
      BY <1>3, <2>2, <2>4, <3>3
    <3> QED
      BY <2>3, <3>1, <3>2, <3>3
  <2> QED
    BY <1>3, <2>4 DEF KeysOK
<1>8. ReplayOK(s)
  <2>1. PICK i \in StatusEvents(r) :
          r.log[i].type = r.status /\ \A j \in StatusEvents(r) : j <= i
    BY DEF HistoryOK, ReplayOK
  <2>2. i \in 1..L /\ i < L + 1 /\ i \in StatusEvents(s)
    BY <1>1, <1>5, <2>1
  <2>3. \A j \in StatusEvents(s) : j <= L + 1
    BY <1>1, <1>5
  <2>4. L + 1 \in StatusEvents(s) /\ s.log[L + 1].type = s.status
    BY <1>3, <1>4, <1>5
  <2>5. ASSUME NEW j \in StatusEvents(s), j # 1
        PROVE  /\ CanTransition(s.log[j].from, s.log[j].type)
               /\ \E h \in StatusEvents(s) :
                    /\ h < j
                    /\ s.log[h].type = s.log[j].from
                    /\ \A l \in StatusEvents(s) : ~(h < l /\ l < j)
    <3>1. CASE j = L + 1
      <4>1. \A l \in StatusEvents(s) : ~(i < l /\ l < L + 1)
        BY <1>1, <1>5, <2>1, <2>2
      <4>2. s.log[i].type = r.status
        BY <1>3, <2>1, <2>2
      <4> QED
        BY <1>3, <1>4, <2>2, <3>1, <4>1, <4>2
    <3>2. CASE j # L + 1
      <4>1. j \in StatusEvents(r) /\ j \in 1..L /\ s.log[j] = r.log[j]
        BY <1>3, <1>5, <3>2
      <4>2. CanTransition(r.log[j].from, r.log[j].type)
        BY <2>5, <4>1 DEF HistoryOK, ReplayOK
      <4>3. PICK h \in StatusEvents(r) :
              /\ h < j
              /\ r.log[h].type = r.log[j].from
              /\ \A l \in StatusEvents(r) : ~(h < l /\ l < j)
        BY <2>5, <4>1 DEF HistoryOK, ReplayOK
      <4>4. h \in 1..L /\ h \in StatusEvents(s) /\ s.log[h] = r.log[h]
        BY <1>3, <1>5
      <4>5. \A l \in StatusEvents(s) : ~(h < l /\ l < j)
        BY <1>1, <1>5, <4>1, <4>3
      <4> QED
        BY <4>1, <4>2, <4>3, <4>4, <4>5
    <3> QED
      BY <3>1, <3>2
  <2> QED
    BY <2>3, <2>4, <2>5 DEF ReplayOK
<1>9. TimelineOK(s)
  <2>1. \A i, j \in StatusEvents(r) : i < j =>
          \/ r.log[i].attempt < r.log[j].attempt
          \/ r.log[i].attempt = r.log[j].attempt /\ r.log[i].seq < r.log[j].seq
    BY DEF HistoryOK, TimelineOK
  <2>2. ASSUME NEW i \in 1..L
        PROVE  \/ r.log[i].attempt < k
               \/ r.log[i].attempt = k /\ r.log[i].seq < seq
    <3>1. r.log[i].attempt \in 1..n
      BY <1>6
    <3>2. r.log[i].attempt < k \/ r.log[i].attempt = k
      BY <1>1, <1>4, <3>1
    <3>3. r.log[i].attempt = k => r.log[i].seq < seq
      BY <1>2
    <3> QED
      BY <3>2, <3>3
  <2>3. ASSUME NEW i \in StatusEvents(s), NEW j \in StatusEvents(s), i < j
        PROVE  \/ s.log[i].attempt < s.log[j].attempt
               \/ s.log[i].attempt = s.log[j].attempt /\ s.log[i].seq < s.log[j].seq
    <3>1. i \in StatusEvents(r) /\ i \in 1..L
      BY <1>1, <1>5, <2>3
    <3>2. CASE j = L + 1
      BY <1>3, <2>2, <3>1, <3>2
    <3>3. CASE j # L + 1
      <4>1. j \in StatusEvents(r) /\ j \in 1..L
        BY <1>5, <3>3
      <4> QED
        BY <1>3, <2>1, <2>3, <3>1, <4>1
    <3> QED
      BY <3>2, <3>3
  <2> QED
    BY <2>3 DEF TimelineOK
<1>10. ASSUME \A i \in StatusEvents(r) :
                r.log[i].attempt = k => r.log[i].type # p.to
       PROVE  StatusOncePerAttempt(s)
  <2>1. ASSUME NEW i \in StatusEvents(s), NEW j \in StatusEvents(s), i # j,
               s.log[i].attempt = s.log[j].attempt
        PROVE  s.log[i].type # s.log[j].type
    <3>1. CASE i = L + 1
      <4>1. j \in StatusEvents(r) /\ s.log[j] = r.log[j]
        BY <1>3, <1>5, <2>1, <3>1
      <4> QED
        BY <1>3, <1>10, <2>1, <3>1, <4>1
    <3>2. CASE j = L + 1
      <4>1. i \in StatusEvents(r) /\ s.log[i] = r.log[i]
        BY <1>3, <1>5, <2>1, <3>2
      <4> QED
        BY <1>3, <1>10, <2>1, <3>2, <4>1
    <3>3. CASE i # L + 1 /\ j # L + 1
      <4>1. /\ i \in StatusEvents(r) /\ s.log[i] = r.log[i]
            /\ j \in StatusEvents(r) /\ s.log[j] = r.log[j]
        BY <1>3, <1>5, <3>3
      <4> QED
        BY <2>1, <4>1 DEF HistoryOK, StatusOncePerAttempt
    <3> QED
      BY <3>1, <3>2, <3>3
  <2> QED
    BY <2>1 DEF StatusOncePerAttempt
<1>11. StatusOncePerAttempt(s) /\ RankOK(s)
  <2>1. CASE r.status = "revision_requested" /\ p.to = "queued"
    <3>1. k = n + 1
      BY <1>4, <2>1 DEF EventAttempt
    <3>2. \A i \in 1..L : s.log[i].attempt # k
      <4>1. \A x \in 1..n : x # n + 1
        BY <1>1
      <4> QED
        BY <1>3, <1>6, <3>1, <4>1
    <3>3. \A i \in StatusEvents(s) : \/ i \in StatusEvents(r) /\ i \in 1..L
                                     \/ i = L + 1
      BY <1>5
    <3>4. StatusOncePerAttempt(s)
      BY <1>3, <1>5, <1>10, <3>2
    <3>5. Rank("queued") = 1
      BY DEF Rank
    <3> QED
      BY <1>3, <1>4, <2>1, <3>2, <3>3, <3>4, <3>5 DEF RankOK
  <2>2. CASE ~(r.status = "revision_requested" /\ p.to = "queued")
    <3>1. k = n
      BY <1>4, <2>2 DEF EventAttempt
    <3>2. Rank(r.status) \in Nat /\ Rank(p.to) \in Nat
            /\ Rank(r.status) < Rank(p.to)
      BY <1>4, <2>2, RankGrows
    <3>3. \A i \in StatusEvents(r) : r.log[i].attempt = n =>
            Rank(r.log[i].type) <= Rank(r.status)
      BY DEF HistoryOK, RankOK
    <3>4. \A i \in StatusEvents(r) : Rank(r.log[i].type) \in Nat
      BY DEF Rank
    <3>5. \A i \in StatusEvents(r) : r.log[i].attempt = n =>
            r.log[i].type # p.to /\ Rank(r.log[i].type) <= Rank(p.to)
      BY <3>2, <3>3, <3>4
    <3>6. \A i \in StatusEvents(s) : \/ i \in StatusEvents(r) /\ i \in 1..L
                                     \/ i = L + 1
      BY <1>5
    <3>7. StatusOncePerAttempt(s)
      BY <1>10, <3>1, <3>5
    <3>8. RankOK(s)
      <4>1. ASSUME NEW i \in StatusEvents(s), s.log[i].attempt = k
            PROVE  Rank(s.log[i].type) <= Rank(s.status)
        <5>1. CASE i = L + 1
          BY <1>3, <1>4, <3>2, <5>1
        <5>2. CASE i # L + 1
          <6>1. i \in StatusEvents(r) /\ s.log[i] = r.log[i]
            BY <3>6, <1>3, <5>2
          <6> QED
            BY <1>4, <3>1, <3>5, <4>1, <6>1
        <5> QED
          BY <5>1, <5>2
      <4> QED
        BY <4>1 DEF RankOK
    <3> QED
      BY <3>7, <3>8
  <2> QED
    BY <2>1, <2>2
<1> QED
  BY <1>7, <1>8, <1>9, <1>11 DEF HistoryOK

-----------------------------------------------------------------------------
(* The inductive invariant of a row and what any write may do to it.       *)

LimitOK(r) == Cardinality(RevisionAttempts(r)) < MaxAttempts

RowInv(r) == RowOK(r) /\ HistoryOK(r) /\ LimitOK(r)

\* A write: the row stays well formed, keeps its issue, stays finished once
\* finished, only grows its timeline and never replaces a first writer.
RowStep(r, s) ==
  /\ RowInv(s)
  /\ s.issue = r.issue
  /\ FinishedStays(r, s)
  /\ AppendOnly(r, s)
  /\ FirstWriterWins(r, s)

\* An attempt no comment asked for does not count against the limit.
LEMMA LimitKept ==
  ASSUME NEW r \in Row, LimitOK(r), AttemptsOK(r), NEW s \in Row,
         Len(s.attempts) \in {Len(r.attempts), Len(r.attempts) + 1},
         \A a \in 1..Len(r.attempts) : s.attempts[a].comment = r.attempts[a].comment,
         Len(s.attempts) = Len(r.attempts) + 1
           => s.attempts[Len(s.attempts)].comment = NoValue
  PROVE  LimitOK(s)
<1> DEFINE n == Len(r.attempts)
<1>1. n \in Nat /\ n >= 1 /\ DOMAIN r.attempts = 1..n
        /\ Len(s.attempts) \in Nat /\ DOMAIN s.attempts = 1..Len(s.attempts)
  BY DEF Row, AttemptsOK
<1>3. \A a : a \in 1..Len(s.attempts) /\ s.attempts[a].comment # NoValue
          <=> a \in 1..n /\ r.attempts[a].comment # NoValue
  BY <1>1
<1>4. RevisionAttempts(s) = RevisionAttempts(r)
  BY <1>1, <1>3 DEF RevisionAttempts
<1> QED
  BY <1>4 DEF LimitOK

\* A revision below the limit stays within it.
LEMMA LimitAfterRevision ==
  ASSUME NEW r \in Row, LimitOK(r), AttemptsOK(r), NEW s \in Row,
         Len(r.attempts) < MaxAttempts,
         Len(s.attempts) = Len(r.attempts) + 1,
         \A a \in 1..Len(r.attempts) : s.attempts[a].comment = r.attempts[a].comment
  PROVE  LimitOK(s)
<1> DEFINE n == Len(r.attempts)
<1>1. n \in Nat /\ n >= 1 /\ DOMAIN s.attempts = 1..(n + 1)
  BY DEF Row, AttemptsOK
<1>3. RevisionAttempts(s) \subseteq 2..(n + 1)
  BY <1>1 DEF RevisionAttempts
<1>4. IsFiniteSet(2..(n + 1)) /\ Cardinality(2..(n + 1)) = n
  <2>1. 2 \in Int /\ n + 1 \in Int /\ (2 > n + 1 <=> n = 0) /\ (n + 1) - 2 + 1 = n
    BY <1>1
  <2> QED
    BY <1>1, <2>1, FS_Interval
<1>5. Cardinality(RevisionAttempts(s)) <= n /\ Cardinality(RevisionAttempts(s)) \in Nat
  BY <1>3, <1>4, FS_Subset, FS_CardinalityType
<1> QED
  BY <1>1, <1>5, ConstantsAssumption DEF LimitOK

\* An applied transition that no revise command asked for is a step of the row.
LEMMA TransitionStep ==
  ASSUME NEW r, RowInv(r), NEW p \in TransitionParams,
         TransitionOutcome(r, p) = "applied", p.comment = NoValue,
         NEW s, s = applyTransition(r, p)
  PROVE  RowStep(r, s)
<1>1. RowOK(s) /\ AppliedTo(r, p, s)
  BY ApplyTransitionOK DEF RowInv
<1>2. HistoryOK(s)
  BY <1>1, TransitionKeepsHistory DEF RowInv
<1>3. r \in Row /\ s \in Row /\ AttemptsOK(r) /\ LimitOK(r)
  BY <1>1 DEF RowInv, RowOK
<1>4. LimitOK(s)
  BY <1>1, <1>3, LimitKept DEF AppliedTo
<1>5. ~Terminal(r.status)
  BY <1>1 DEF AppliedTo, CanTransition, Terminal
<1>6. AppendOnly(r, s)
  <2>1. r.log \in Seq(ActivityEvent) /\ r.version \in Nat
    BY <1>3 DEF Row
  <2>2. PICK seq \in Nat :
          s.log = Append(r.log, Event(Len(s.attempts), seq, r.status, p.to, p.key))
    BY <1>1 DEF AppliedTo, LogGains
  <2> QED
    BY <1>1, <2>1, <2>2 DEF AppliedTo, AppendOnly
<1>7. FirstWriterWins(r, s)
  <2>1. DOMAIN r.attempts = 1..Len(r.attempts)
    BY <1>3 DEF Row
  <2> QED
    BY <1>1, <2>1 DEF AppliedTo, SameColumns, FirstWriterWins
<1> QED
  BY <1>1, <1>2, <1>4, <1>5, <1>6, <1>7
  DEF RowStep, RowInv, FinishedStays, AppliedTo, SameColumns

\* The params the store builds are typed.
LEMMA ParamsType ==
  ASSUME NEW to \in AllStatuses, NEW key \in Keys \cup {NoKey}, NEW expect \in Int
  PROVE  Params(to, key, expect) \in TransitionParams
  BY DEF Params, TransitionParams

\* Both transitions of RequestRevision, in one transaction.
LEMMA RevisionStep ==
  ASSUME NEW r, RowInv(r), NEW key \in Keys, NEW comment \in Values,
         NEW base \in Values,
         RevisionOutcome(r, MaxAttempts, key) = "applied",
         NEW s, s = RevisedRow(r, key, comment, base)
  PROVE  RowStep(r, s)
<1> DEFINE p1 == Params("revision_requested", key, 0)
           p2 == RevisionParams(comment, base)
           m == applyTransition(r, p1)
<1>1. "revision_requested" \in AllStatuses /\ "queued" \in AllStatuses
  BY DEF AllStatuses, PhaseReview, PhasePending
<1>2. p1 \in TransitionParams /\ p1.comment = NoValue /\ p1.to = "revision_requested"
  BY <1>1, ParamsType DEF Params
<1>3. p2 \in TransitionParams /\ p2.to = "queued" /\ p2.key = NoKey /\ p2.expect = 0
  BY <1>1 DEF RevisionParams, TransitionParams
<1>4. TransitionOutcome(r, p1) = "applied" /\ ~(Len(r.attempts) >= MaxAttempts)
  BY DEF RevisionOutcome
<1>5. RowStep(r, m) /\ RowOK(m) /\ AppliedTo(r, p1, m)
  BY <1>2, <1>4, TransitionStep, ApplyTransitionOK DEF RowInv
<1> HIDE DEF m, p1, p2
<1>6. RowInv(m) /\ m.status = "revision_requested"
  BY <1>2, <1>5 DEF RowStep, AppliedTo
<1>7. ~Terminal(m.status)
  BY <1>6 DEF Terminal, PhaseTerminal
<1>8. TransitionOutcome(m, p2) = "applied"
  <2>1. ActiveAttempts(m) # {}
    BY <1>5, <1>7, ActiveIsNewest DEF RowOK
  <2>2. CanTransition("revision_requested", "queued")
    BY DEF CanTransition, AllStatuses, PhasePending, PhaseReview, PhaseTerminal,
           happyPath
  <2> QED
    BY <1>3, <1>6, <2>1, <2>2 DEF TransitionOutcome, KeySeen
<1>9. s = applyTransition(m, p2)
  BY DEF RevisedRow, m, p1, p2
<1>10. RowOK(s) /\ AppliedTo(m, p2, s)
  BY <1>3, <1>5, <1>8, <1>9, ApplyTransitionOK
<1>11. HistoryOK(s)
  BY <1>3, <1>6, <1>10, TransitionKeepsHistory DEF RowInv
<1>12. r \in Row /\ AttemptsOK(r) /\ LimitOK(r) /\ m \in Row /\ s \in Row
  BY <1>5, <1>10 DEF RowInv, RowOK
<1>13. /\ DOMAIN r.attempts = 1..Len(r.attempts) /\ Len(r.attempts) \in Nat
       /\ Len(m.attempts) = Len(r.attempts)
       /\ Len(s.attempts) = Len(r.attempts) + 1
  <2>1. Len(m.attempts) = Len(r.attempts)
    BY <1>2, <1>5 DEF AppliedTo, EventAttempt
  <2>2. Len(s.attempts) = Len(m.attempts) + 1
    BY <1>3, <1>6, <1>10 DEF AppliedTo, EventAttempt
  <2> QED
    BY <1>12, <2>1, <2>2 DEF Row
<1>14. \A a \in 1..Len(r.attempts) : s.attempts[a].comment = r.attempts[a].comment
                                    /\ s.attempts[a].base = r.attempts[a].base
                                    /\ s.attempts[a].checkRun = r.attempts[a].checkRun
  BY <1>5, <1>10, <1>13 DEF AppliedTo
<1>15. LimitOK(s)
  BY <1>4, <1>12, <1>13, <1>14, LimitAfterRevision, ConstantsAssumption
<1>16. AppendOnly(r, s)
  <2>1. /\ r.log \in Seq(ActivityEvent) /\ r.version \in Nat
        /\ m.log \in Seq(ActivityEvent) /\ m.version \in Nat
    BY <1>12 DEF Row
  <2>2. PICK seq \in Nat :
          s.log = Append(m.log, Event(Len(s.attempts), seq, m.status, p2.to, p2.key))
    BY <1>10 DEF AppliedTo, LogGains
  <2>3. Len(s.log) > Len(m.log) /\ \A i \in 1..Len(m.log) : s.log[i] = m.log[i]
    BY <2>1, <2>2
  <2>4. AppendOnly(r, m) /\ s.version = m.version + 1 /\ m.version = r.version + 1
    BY <1>5, <1>10 DEF RowStep, AppliedTo
  <2>5. DOMAIN r.log = 1..Len(r.log) /\ Len(m.log) >= Len(r.log)
          /\ \A i \in 1..Len(r.log) : m.log[i] = r.log[i]
    BY <2>1, <2>4 DEF AppendOnly
  <2>6. \A i \in 1..Len(r.log) : i \in 1..Len(m.log)
    BY <2>1, <2>5
  <2> QED
    BY <1>12, <2>1, <2>3, <2>4, <2>5, <2>6 DEF AppendOnly, Row
<1>17. SameColumns(r, s)
  BY <1>5, <1>10 DEF AppliedTo, SameColumns
<1>18. FirstWriterWins(r, s)
  BY <1>13, <1>14, <1>17 DEF SameColumns, FirstWriterWins
<1>19. ~Terminal(r.status)
  BY <1>5 DEF AppliedTo, CanTransition, Terminal
<1> QED
  BY <1>10, <1>11, <1>15, <1>16, <1>17, <1>18, <1>19
  DEF RowStep, RowInv, FinishedStays, SameColumns

\* A write that keeps the timeline, the status and every attempt's number,
\* status and comment keeps the invariant.
LEMMA QuietStep ==
  ASSUME NEW r, RowInv(r), NEW s \in Row, s.log = r.log, s.status = r.status,
         Len(s.attempts) = Len(r.attempts),
         \A a \in 1..Len(r.attempts) :
           /\ s.attempts[a].number = r.attempts[a].number
           /\ s.attempts[a].status = r.attempts[a].status
           /\ s.attempts[a].comment = r.attempts[a].comment
  PROVE  RowInv(s) /\ FinishedStays(r, s) /\ AppendOnly(r, s)
<1> DEFINE n == Len(r.attempts)
<1>1. r \in Row /\ AttemptsOK(r) /\ SequencesOK(r) /\ LimitOK(r) /\ HistoryOK(r)
  BY DEF RowInv, RowOK
<1>2. /\ n \in Nat /\ n >= 1 /\ DOMAIN r.attempts = 1..n /\ DOMAIN s.attempts = 1..n
      /\ r.log \in Seq(ActivityEvent) /\ Len(r.log) \in Nat
  BY <1>1 DEF Row, AttemptsOK
<1>3. AttemptsOK(s)
  <2>1. /\ \A a \in 1..n : r.attempts[a].number = a
        /\ \A a \in 1..(n - 1) : r.attempts[a].status = "superseded"
        /\ r.attempts[n].status = IF Terminal(r.status) THEN r.status ELSE "active"
    BY <1>1 DEF AttemptsOK
  <2>2. n \in 1..n /\ \A a \in 1..(n - 1) : a \in 1..n
    BY <1>2
  <2>3. \A a \in 1..n : s.attempts[a].number = a
    BY <2>1
  <2>4. \A a \in 1..(n - 1) : s.attempts[a].status = "superseded"
    BY <2>1, <2>2
  <2>5. s.attempts[n].status = IF Terminal(s.status) THEN s.status ELSE "active"
    BY <2>1, <2>2
  <2> QED
    BY <1>2, <2>3, <2>4, <2>5 DEF AttemptsOK
<1>4. SequencesOK(s)
  BY <1>1, LogOKIsSequencesOK
<1>5. LimitOK(s)
  BY <1>1, <1>2, LimitKept
<1>6. HistoryOK(s)
  BY <1>1, QuietWriteKeepsHistory
<1>7. FinishedStays(r, s)
  BY <1>2 DEF FinishedStays
<1>8. AppendOnly(r, s)
  BY <1>2 DEF AppendOnly
<1> QED
  BY <1>3, <1>4, <1>5, <1>6, <1>7, <1>8 DEF RowInv, RowOK

\* EnsureGitContext writes only columns that were NULL.
LEMMA EnsureStep ==
  ASSUME NEW r, RowInv(r), NEW base \in Values, NEW branch \in Values
  PROVE  RowStep(r, EnsuredRow(r, base, branch))
<1> DEFINE s == EnsuredRow(r, base, branch)
           b1 == IF r.base = NoValue THEN base ELSE r.base
           b2 == IF r.branch = NoValue THEN branch ELSE r.branch
<1>1. r \in Row
  BY DEF RowInv, RowOK
<1>2. b1 \in Values \cup {NoValue} /\ b2 \in Values \cup {NoValue}
        /\ r.version + 1 \in Nat
  BY <1>1 DEF Row
<1>3. s = [r EXCEPT !.base = b1, !.branch = b2, !.version = r.version + 1]
  BY DEF EnsuredRow
<1>4. (r.base # NoValue => b1 = r.base) /\ (r.branch # NoValue => b2 = r.branch)
  OBVIOUS
<1> HIDE DEF s, b1, b2
<1>5. s \in Row
  BY <1>1, <1>2, <1>3 DEF Row
<1>6. s.log = r.log /\ s.status = r.status /\ s.attempts = r.attempts
        /\ s.issue = r.issue /\ s.base = b1 /\ s.branch = b2
  BY <1>1, <1>3 DEF Row
<1>7. RowInv(s) /\ FinishedStays(r, s) /\ AppendOnly(r, s)
  BY <1>5, <1>6, QuietStep
<1>8. FirstWriterWins(r, s)
  BY <1>4, <1>6 DEF FirstWriterWins
<1> QED
  BY <1>6, <1>7, <1>8 DEF RowStep, s

\* RecordTriggerCheckRun writes only the active attempt's empty check run.
LEMMA CheckRunStep ==
  ASSUME NEW r, RowInv(r), NEW id \in Values
  PROVE  RowStep(r, CheckRunRow(r, id))
<1> DEFINE s == CheckRunRow(r, id)
           n == Len(r.attempts)
           V(a) == IF r.attempts[a].status = "active"
                      /\ r.attempts[a].checkRun = NoValue
                   THEN [r.attempts[a] EXCEPT !.checkRun = id] ELSE r.attempts[a]
           att == [a \in 1..n |-> V(a)]
<1>1. r \in Row
  BY DEF RowInv, RowOK
<1>2. n \in Nat /\ DOMAIN r.attempts = 1..n /\ r.attempts \in Seq(Attempt)
        /\ \A a \in 1..n : r.attempts[a] \in Attempt
  BY <1>1 DEF Row
<1>3. ASSUME NEW a \in 1..n
      PROVE  /\ V(a) \in Attempt
             /\ V(a).number = r.attempts[a].number
             /\ V(a).status = r.attempts[a].status
             /\ V(a).base = r.attempts[a].base
             /\ V(a).comment = r.attempts[a].comment
             /\ r.attempts[a].checkRun # NoValue => V(a) = r.attempts[a]
  <2>1. r.attempts[a] \in Attempt
    BY <1>2
  <2> QED
    BY <2>1 DEF Attempt
<1>4. s = [r EXCEPT !.attempts = att]
  BY <1>2 DEF CheckRunRow
<1> HIDE DEF V
<1>5. att \in Seq(Attempt) /\ Len(att) = n
  BY <1>2, <1>3, IsASeq
<1>6. \A a \in 1..n : att[a] = V(a)
  OBVIOUS
<1> HIDE DEF s, att
<1>7. s \in Row /\ s.attempts = att /\ s.log = r.log /\ s.status = r.status
        /\ s.issue = r.issue /\ s.base = r.base /\ s.branch = r.branch
  BY <1>1, <1>4, <1>5 DEF Row
<1>8. RowInv(s) /\ FinishedStays(r, s) /\ AppendOnly(r, s)
  BY <1>3, <1>5, <1>6, <1>7, QuietStep
<1>9. FirstWriterWins(r, s)
  BY <1>2, <1>3, <1>6, <1>7 DEF FirstWriterWins
<1> QED
  BY <1>7, <1>8, <1>9 DEF RowStep, s

\* MarkTriggerCheckRunCompleted writes only the completion marker.
LEMMA CheckRunDoneStep ==
  ASSUME NEW r, RowInv(r), NEW b \in DOMAIN r.attempts
  PROVE  RowStep(r, CheckRunDoneRow(r, b))
<1> DEFINE s == CheckRunDoneRow(r, b)
           n == Len(r.attempts)
           d == IF r.attempts[b].checkRun # NoValue THEN 1
                ELSE r.attempts[b].checkRunCompletedAt
           v == [r.attempts[b] EXCEPT !.checkRunCompletedAt = d]
           att == [r.attempts EXCEPT ![b] = v]
<1>1. r \in Row
  BY DEF RowInv, RowOK
<1>2. n \in Nat /\ DOMAIN r.attempts = 1..n /\ r.attempts \in Seq(Attempt)
        /\ \A a \in 1..n : r.attempts[a] \in Attempt
  BY <1>1 DEF Row
<1>3. r.attempts[b] \in Attempt
  BY <1>2
<1>4. d \in {0, 1}
  BY <1>3 DEF Attempt
<1>5. s = [r EXCEPT !.attempts = att]
  BY DEF CheckRunDoneRow
<1> HIDE DEF d
<1>6. v \in Attempt /\ v.number = r.attempts[b].number
        /\ v.status = r.attempts[b].status /\ v.base = r.attempts[b].base
        /\ v.comment = r.attempts[b].comment
        /\ v.checkRun = r.attempts[b].checkRun
  BY <1>3, <1>4 DEF Attempt
<1> HIDE DEF v
<1>7. att \in Seq(Attempt) /\ Len(att) = n
        /\ \A a \in 1..n : att[a] = IF a = b THEN v ELSE r.attempts[a]
  BY <1>2, <1>6
<1> HIDE DEF s, att
<1>8. s \in Row /\ s.attempts = att /\ s.log = r.log /\ s.status = r.status
        /\ s.issue = r.issue /\ s.base = r.base /\ s.branch = r.branch
  BY <1>1, <1>5, <1>7 DEF Row
<1>9. RowInv(s) /\ FinishedStays(r, s) /\ AppendOnly(r, s)
  BY <1>6, <1>7, <1>8, QuietStep
<1>10. FirstWriterWins(r, s)
  BY <1>2, <1>6, <1>7, <1>8 DEF FirstWriterWins
<1> QED
  BY <1>8, <1>9, <1>10 DEF RowStep, s

\* RecordAttemptBase writes only an empty base.
LEMMA AttemptBaseStep ==
  ASSUME NEW r, RowInv(r), NEW b \in DOMAIN r.attempts, NEW base \in Values
  PROVE  RowStep(r, AttemptBaseRow(r, b, base))
<1> DEFINE s == AttemptBaseRow(r, b, base)
           n == Len(r.attempts)
           d == IF r.attempts[b].base = NoValue THEN base ELSE r.attempts[b].base
           v == [r.attempts[b] EXCEPT !.base = d]
           att == [r.attempts EXCEPT ![b] = v]
<1>1. r \in Row
  BY DEF RowInv, RowOK
<1>2. n \in Nat /\ DOMAIN r.attempts = 1..n /\ r.attempts \in Seq(Attempt)
        /\ \A a \in 1..n : r.attempts[a] \in Attempt
  BY <1>1 DEF Row
<1>3. r.attempts[b] \in Attempt
  BY <1>2
<1>4. d \in Values \cup {NoValue}
        /\ (r.attempts[b].base # NoValue => d = r.attempts[b].base)
  BY <1>3 DEF Attempt
<1>5. s = [r EXCEPT !.attempts = att]
  BY DEF AttemptBaseRow
<1> HIDE DEF d
<1>6. v \in Attempt /\ v.number = r.attempts[b].number
        /\ v.status = r.attempts[b].status /\ v.base = d
        /\ v.comment = r.attempts[b].comment
        /\ v.checkRun = r.attempts[b].checkRun
  BY <1>3, <1>4 DEF Attempt
<1> HIDE DEF v
<1>7. att \in Seq(Attempt) /\ Len(att) = n
        /\ \A a \in 1..n : att[a] = IF a = b THEN v ELSE r.attempts[a]
  BY <1>2, <1>6
<1> HIDE DEF s, att
<1>8. s \in Row /\ s.attempts = att /\ s.log = r.log /\ s.status = r.status
        /\ s.issue = r.issue /\ s.base = r.base /\ s.branch = r.branch
  BY <1>1, <1>5, <1>7 DEF Row
<1>9. RowInv(s) /\ FinishedStays(r, s) /\ AppendOnly(r, s)
  BY <1>6, <1>7, <1>8, QuietStep
<1>10. FirstWriterWins(r, s)
  BY <1>2, <1>4, <1>6, <1>7, <1>8 DEF FirstWriterWins
<1> QED
  BY <1>8, <1>9, <1>10 DEF RowStep, s

\* AppendEvent and AppendAttemptEvent.
LEMMA NoteStep ==
  ASSUME NEW r, RowInv(r), NEW a \in DOMAIN r.attempts
  PROVE  RowStep(r, insertEvent(r, a, "none", "note", NoKey))
<1> DEFINE s == insertEvent(r, a, "none", "note", NoKey)
           n == Len(r.attempts)
<1>1. r \in Row /\ AttemptsOK(r) /\ SequencesOK(r) /\ LimitOK(r) /\ HistoryOK(r)
        /\ RowOK(r)
  BY DEF RowInv, RowOK
<1>2. n \in Nat /\ DOMAIN r.attempts = 1..n /\ r.log \in Seq(ActivityEvent)
  BY <1>1 DEF Row
<1> HIDE DEF s
<1>3. /\ s \in Row /\ SequencesOK(s) /\ SameColumns(r, s)
      /\ s.status = r.status /\ s.version = r.version
      /\ s.attempts = r.attempts
      /\ LogGains(r.log, s.log, a, "none", "note", NoKey)
  BY <1>1, <1>2, InsertEventOK DEF s
<1>4. AttemptsOK(s)
  BY <1>1, <1>3 DEF AttemptsOK
<1>5. LimitOK(s)
  BY <1>1, <1>3 DEF LimitOK, RevisionAttempts
<1>6. HistoryOK(s)
  BY <1>1, <1>3, NoteKeepsHistory
<1>7. AppendOnly(r, s)
  <2>1. PICK seq \in Nat : s.log = Append(r.log, Event(a, seq, "none", "note", NoKey))
    BY <1>3 DEF LogGains
  <2> QED
    BY <1>2, <1>3, <2>1 DEF AppendOnly
<1>8. FinishedStays(r, s) /\ FirstWriterWins(r, s)
  BY <1>3 DEF FinishedStays, FirstWriterWins, SameColumns
<1> QED
  BY <1>3, <1>4, <1>5, <1>6, <1>7, <1>8 DEF RowStep, RowInv, RowOK, SameColumns, s

\* Create's transaction leaves a well formed queued task of the issue asked for.
LEMMA CreatedRowOK ==
  ASSUME NEW issue \in Issues \cup {NoIssue}, NEW comment \in Values \cup {NoValue}
  PROVE  RowInv(CreatedRow(issue, comment)) /\ CreatedRow(issue, comment).issue = issue
<1> DEFINE att == <<NewAttempt(1, comment, NoValue)>>
           bare == [status |-> "created", version |-> 1, issue |-> issue,
                    base |-> NoValue, branch |-> NoValue, startedAt |-> 0,
                    attempts |-> att, log |-> <<>>]
           m == InsertedRow(issue, comment)
           p == Params("queued", NoKey, 0)
<1>1. "created" \in AllStatuses /\ "queued" \in AllStatuses
  BY DEF AllStatuses, PhasePending
<1>2. NewAttempt(1, comment, NoValue) \in Attempt
  BY DEF NewAttempt, Attempt, AttemptStatuses
<1>3. /\ att \in Seq(Attempt) /\ Len(att) = 1 /\ DOMAIN att = 1..1
      /\ att[1].number = 1 /\ att[1].status = "active"
  BY <1>2 DEF NewAttempt
<1>4. m = insertEvent(bare, 1, "none", "created", NoKey)
  BY DEF InsertedRow
<1> HIDE DEF att, m
<1>5. bare \in Row /\ bare.attempts = att /\ bare.log = <<>>
        /\ bare.status = "created" /\ bare.issue = issue
  BY <1>1, <1>3 DEF Row
<1> HIDE DEF bare
<1>6. SequencesOK(bare)
  <2>1. DOMAIN bare.log = {} /\ Len(bare.log) = 0
    BY <1>5
  <2>2. \A a \in DOMAIN bare.attempts : SequenceNumbers(bare.log, a) = 1..0
    BY <2>1 DEF SequenceNumbers
  <2>3. \A a \in DOMAIN bare.attempts :
          \E k \in 0..Len(bare.log) : SequenceNumbers(bare.log, a) = 1..k
    BY <2>1, <2>2
  <2> QED
    BY <2>1, <2>3 DEF SequencesOK
<1>7. /\ m \in Row /\ SequencesOK(m) /\ SameColumns(bare, m)
      /\ m.status = bare.status /\ m.attempts = bare.attempts
      /\ LogGains(bare.log, m.log, 1, "none", "created", NoKey)
  <2>1. 1 \in 1..Len(bare.attempts)
    <3>1. bare.attempts = att
      BY <1>5
    <3>2. Len(att) = 1
      BY <1>3
    <3> QED
      BY <3>1, <3>2
  <2>2. "none" \in AllStatuses \cup {"none"}
    OBVIOUS
  <2>3. "created" \in AllStatuses \cup {"note"}
    BY <1>1
  <2>4. NoKey \in Keys \cup {NoKey}
    OBVIOUS
  <2>5. bare \in Row
    BY <1>5
  <2>6. PICK a \in 1..Len(bare.attempts), from \in AllStatuses \cup {"none"},
             type \in AllStatuses \cup {"note"} :
          a = 1 /\ from = "none" /\ type = "created"
    BY <2>1, <2>2, <2>3
  <2>7. m = insertEvent(bare, a, from, type, NoKey)
    BY <1>4, <2>6
  <2>8. /\ m \in Row /\ SequencesOK(m) /\ SameColumns(bare, m)
        /\ m.status = bare.status /\ m.version = bare.version
        /\ m.attempts = bare.attempts
        /\ LogGains(bare.log, m.log, a, from, type, NoKey)
    BY <1>6, <2>4, <2>5, <2>7, InsertEventOK
  <2> QED
    BY <2>6, <2>8
<1>8. ~Terminal("created")
  BY DEF Terminal, PhaseTerminal
<1>9. AttemptsOK(m)
  <2>1. m.attempts = att /\ m.status = "created"
    BY <1>5, <1>7
  <2>2. Len(att) = 1
    BY <1>3
  <2>3. att[1].number = 1 /\ att[1].status = "active"
    BY <1>3
  <2>4. \A a \in 1..Len(att) : att[a].number = a
    BY <2>2, <2>3
  <2>5. \A a \in 1..(Len(att) - 1) : att[a].status = "superseded"
    BY <2>2
  <2> QED
    BY <1>8, <2>1, <2>2, <2>3, <2>4, <2>5 DEF AttemptsOK
<1>10. LimitOK(m)
  <2>1. RevisionAttempts(m) = {}
    BY <1>3, <1>5, <1>7 DEF RevisionAttempts
  <2> QED
    BY <1>3, <1>5, <1>7, <2>1, FS_EmptySet, ConstantsAssumption DEF LimitOK
<1>11. HistoryOK(m)
  <2>1. PICK seq \in Nat : m.log = Append(<<>>, Event(1, seq, "none", "created", NoKey))
    BY <1>5, <1>7 DEF LogGains
  <2>2. /\ DOMAIN m.log = {1} /\ m.log[1].type = "created"
        /\ m.log[1].key = NoKey
    BY <2>1 DEF Event
  <2>3. StatusEvents(m) = {1}
    BY <1>1, <2>2 DEF StatusEvents
  <2>4. KeysOK(m) /\ TimelineOK(m) /\ StatusOncePerAttempt(m)
    BY <2>2, <2>3 DEF KeysOK, TimelineOK, StatusOncePerAttempt
  <2>5. ReplayOK(m)
    BY <1>5, <1>7, <2>2, <2>3 DEF ReplayOK
  <2>6. RankOK(m)
    BY <1>5, <1>7, <2>2, <2>3 DEF RankOK, Rank
  <2> QED
    BY <2>4, <2>5, <2>6 DEF HistoryOK
<1>12. RowInv(m)
  BY <1>7, <1>9, <1>10, <1>11 DEF RowInv, RowOK
<1>13. p \in TransitionParams /\ p.comment = NoValue /\ p.key = NoKey
         /\ p.expect = 0 /\ p.to = "queued"
  BY <1>1, ParamsType DEF Params
<1>14. TransitionOutcome(m, p) = "applied"
  <2>1. ActiveAttempts(m) # {}
    BY <1>5, <1>7, <1>8, <1>9, ActiveIsNewest
  <2>2. CanTransition("created", "queued")
    BY DEF CanTransition, AllStatuses, PhasePending, PhaseTerminal, happyPath
  <2> QED
    BY <1>5, <1>7, <1>13, <2>1, <2>2 DEF TransitionOutcome, KeySeen
<1>15. CreatedRow(issue, comment) = applyTransition(m, p)
  BY DEF CreatedRow, m
<1> HIDE DEF p
<1>16. RowStep(m, CreatedRow(issue, comment))
  BY <1>12, <1>13, <1>14, <1>15, TransitionStep
<1> QED
  BY <1>5, <1>7, <1>16 DEF RowStep, SameColumns

-----------------------------------------------------------------------------
(* The inductive invariant of the store.                                   *)

StoreInv ==
  /\ DOMAIN tasks \subseteq TaskIds
  /\ tasks = [t \in DOMAIN tasks |-> tasks[t]]
  /\ \A t \in DOMAIN tasks : RowInv(tasks[t])
  /\ OneActiveTaskPerIssue

\* What every step does to every task that exists.
StepOK ==
  \A t \in DOMAIN tasks : t \in DOMAIN tasks' /\ RowStep(tasks[t], tasks'[t])

\* A row that is not written takes a step too.
LEMMA RowStepRefl ==
  ASSUME NEW r, RowInv(r)
  PROVE  RowStep(r, r)
<1>1. r.log \in Seq(ActivityEvent) /\ Len(r.log) \in Nat
  BY DEF RowInv, RowOK, Row
<1> QED
  BY <1>1 DEF RowStep, FinishedStays, AppendOnly, FirstWriterWins

\* Writing one existing row.
LEMMA PutStep ==
  ASSUME StoreInv, NEW t \in DOMAIN tasks, NEW s, RowStep(tasks[t], s), Put(t, s)
  PROVE  StoreInv' /\ StepOK
<1>1. DOMAIN tasks' = DOMAIN tasks
  BY DEF Put
<1>2. \A u \in DOMAIN tasks : tasks'[u] = IF u = t THEN s ELSE tasks[u]
  BY DEF Put
<1>3. \A u \in DOMAIN tasks : RowStep(tasks[u], tasks'[u])
  BY <1>2, RowStepRefl DEF StoreInv
<1>4. \A u \in DOMAIN tasks' : RowInv(tasks'[u])
  BY <1>1, <1>3 DEF RowStep
<1>5. OneActiveTaskPerIssue'
  <2>1. \A u \in DOMAIN tasks :
          /\ tasks'[u].issue = tasks[u].issue
          /\ Terminal(tasks[u].status) => Terminal(tasks'[u].status)
    BY <1>3 DEF RowStep, FinishedStays
  <2> QED
    BY <1>1, <2>1 DEF StoreInv, OneActiveTaskPerIssue
<1>6. tasks' = [u \in DOMAIN tasks' |-> tasks'[u]]
  BY DEF Put
<1> QED
  BY <1>1, <1>3, <1>4, <1>5, <1>6 DEF StoreInv, StepOK

\* Inserting a row for an issue the unique index finds free.
LEMMA CreateStep ==
  ASSUME StoreInv, NEW t \in TaskIds, NEW issue \in Issues \cup {NoIssue},
         NEW comment \in Values \cup {NoValue}, Create(t, issue, comment)
  PROVE  StoreInv' /\ StepOK
<1> DEFINE s == CreatedRow(issue, comment)
<1>1. t \notin DOMAIN tasks /\ IssueFree(issue) /\ Put(t, s)
  BY DEF Create
<1>2. RowInv(s) /\ s.issue = issue
  BY CreatedRowOK
<1> HIDE DEF s
<1>3. /\ DOMAIN tasks' = DOMAIN tasks \cup {t}
      /\ tasks'[t] = s
      /\ \A u \in DOMAIN tasks : tasks'[u] = tasks[u]
      /\ tasks' = [u \in DOMAIN tasks' |-> tasks'[u]]
  BY <1>1 DEF Put
<1>4. \A u \in DOMAIN tasks' : RowInv(tasks'[u])
  BY <1>2, <1>3 DEF StoreInv
<1>5. StepOK
  BY <1>3, RowStepRefl DEF StoreInv, StepOK
<1>6. OneActiveTaskPerIssue'
  BY <1>1, <1>2, <1>3 DEF StoreInv, OneActiveTaskPerIssue, IssueFree
<1> QED
  BY <1>3, <1>4, <1>5, <1>6 DEF StoreInv

\* Every operation keeps the invariant, and no operation undoes anything.
LEMMA NextStep ==
  ASSUME StoreInv, Next
  PROVE  StoreInv' /\ StepOK
<1>1. ASSUME NEW t \in TaskIds, NEW issue \in Issues \cup {NoIssue},
             NEW comment \in Values \cup {NoValue}, Create(t, issue, comment)
      PROVE  StoreInv' /\ StepOK
  BY <1>1, CreateStep
<1>2. ASSUME NEW t \in DOMAIN tasks
      PROVE  RowInv(tasks[t]) /\ tasks[t].version \in Nat
               /\ DOMAIN tasks[t].attempts = 1..Len(tasks[t].attempts)
  BY DEF StoreInv, RowInv, RowOK, Row
<1>3. ASSUME NEW t \in DOMAIN tasks, NEW to \in AllStatuses,
             NEW key \in Keys \cup {NoKey},
             NEW expect \in {0, tasks[t].version, tasks[t].version - 1},
             Transition(t, to, key, expect)
      PROVE  StoreInv' /\ StepOK
  <2> DEFINE p == Params(to, key, expect)
  <2>1. expect \in Int
    BY <1>2
  <2>2. p \in TransitionParams /\ p.comment = NoValue
    BY <2>1, ParamsType DEF Params
  <2>3. TransitionOutcome(tasks[t], p) = "applied"
          /\ Put(t, applyTransition(tasks[t], p))
    BY <1>3 DEF Transition
  <2> HIDE DEF p
  <2> QED
    BY <1>2, <2>2, <2>3, TransitionStep, PutStep
<1>4. ASSUME NEW t \in DOMAIN tasks, NEW key \in Keys, NEW comment \in Values,
             NEW base \in Values, RequestRevision(t, key, comment, base)
      PROVE  StoreInv' /\ StepOK
  BY <1>2, <1>4, RevisionStep, PutStep DEF RequestRevision
<1>5. ASSUME NEW t \in DOMAIN tasks, Cancel(t)
      PROVE  StoreInv' /\ StepOK
  <2> DEFINE p == Params("cancelled", NoKey, 0)
  <2>1. "cancelled" \in AllStatuses
    BY DEF AllStatuses, PhaseTerminal
  <2>2. p \in TransitionParams /\ p.comment = NoValue
    BY <2>1, ParamsType DEF Params
  <2>3. TransitionOutcome(tasks[t], p) = "applied"
          /\ Put(t, applyTransition(tasks[t], p))
    BY <1>5 DEF Cancel
  <2> HIDE DEF p
  <2> QED
    BY <1>2, <2>2, <2>3, TransitionStep, PutStep
<1>6. ASSUME NEW t \in DOMAIN tasks, NEW base \in Values, NEW branch \in Values,
             EnsureGitContext(t, base, branch)
      PROVE  StoreInv' /\ StepOK
  BY <1>2, <1>6, EnsureStep, PutStep DEF EnsureGitContext
<1>7. ASSUME NEW t \in DOMAIN tasks, NEW a \in DOMAIN tasks[t].attempts,
             AppendAttemptEvent(t, a)
      PROVE  StoreInv' /\ StepOK
  BY <1>2, <1>7, NoteStep, PutStep DEF AppendAttemptEvent
<1>8. ASSUME NEW t \in DOMAIN tasks, AppendEvent(t)
      PROVE  StoreInv' /\ StepOK
  <2>1. ActiveAttempt(tasks[t]) \in DOMAIN tasks[t].attempts
    BY <1>8 DEF AppendEvent, ActiveAttempt, ActiveAttempts
  <2> QED
    BY <1>2, <1>8, <2>1, NoteStep, PutStep DEF AppendEvent
<1>9. ASSUME NEW t \in DOMAIN tasks, NEW id \in Values,
             RecordTriggerCheckRun(t, id)
      PROVE  StoreInv' /\ StepOK
  BY <1>2, <1>9, CheckRunStep, PutStep DEF RecordTriggerCheckRun
<1>10. ASSUME NEW t \in DOMAIN tasks, NEW a \in DOMAIN tasks[t].attempts,
              MarkTriggerCheckRunCompleted(t, a)
       PROVE  StoreInv' /\ StepOK
  BY <1>2, <1>10, CheckRunDoneStep, PutStep DEF MarkTriggerCheckRunCompleted
<1>11. ASSUME NEW t \in DOMAIN tasks, NEW a \in DOMAIN tasks[t].attempts,
              NEW base \in Values, RecordAttemptBase(t, a, base)
       PROVE  StoreInv' /\ StepOK
  BY <1>2, <1>11, AttemptBaseStep, PutStep DEF RecordAttemptBase
<1> QED
  BY <1>1, <1>3, <1>4, <1>5, <1>6, <1>7, <1>8, <1>9, <1>10, <1>11 DEF Next

\* StoreInv is an invariant of the store.
THEOREM StoreInvariant == Spec => []StoreInv
<1>1. Init => StoreInv
  BY DEF Init, StoreInv, OneActiveTaskPerIssue
<1>2. StoreInv /\ [Next]_vars => StoreInv'
  <2>1. StoreInv /\ UNCHANGED vars => StoreInv'
    BY DEF StoreInv, OneActiveTaskPerIssue, vars
  <2> QED
    BY <2>1, NextStep
<1> QED
  BY <1>1, <1>2, PTL DEF Spec

\* Every row the store ever holds has the columns the migrations declare.
THEOREM TypeCorrect == Spec => []TypeOK
<1>1. StoreInv => TypeOK
  BY DEF StoreInv, TypeOK, RowInv, RowOK
<1> QED
  BY <1>1, StoreInvariant, PTL

\* At all times the newest attempt of a live task is its one active attempt, and
\* a finished task has none (task/store.go, applyTransition).
THEOREM ExactlyOneActiveAttempt == Spec => []OneActiveAttempt
<1>1. StoreInv => OneActiveAttempt
  BY DEF StoreInv, OneActiveAttempt, RowInv, RowOK
<1> QED
  BY <1>1, StoreInvariant, PTL

\* The events of every attempt are numbered 1, 2, 3 ... (task/store.go,
\* insertEvent), whoever appends and whenever.
THEOREM EventsNumbered == Spec => []SequencesContiguous
<1>1. StoreInv => SequencesContiguous
  BY DEF StoreInv, SequencesContiguous, RowInv, RowOK
<1> QED
  BY <1>1, StoreInvariant, PTL

\* Keys are applied once, the timeline replays to the row, reads back in the
\* order it happened, and no attempt enters a status twice.
THEOREM HistoryCorrect ==
  Spec => [](KeysAppliedOnce /\ TimelineReplays /\ TimelineChronological /\ StatusOnce)
<1>1. StoreInv => KeysAppliedOnce /\ TimelineReplays /\ TimelineChronological
                    /\ StatusOnce
  BY DEF StoreInv, KeysAppliedOnce, TimelineReplays, TimelineChronological,
         StatusOnce, RowInv, HistoryOK
<1> QED
  BY <1>1, StoreInvariant, PTL

\* An issue never has two unfinished tasks (tasks_one_active_per_issue_idx).
THEOREM IssueExclusive == Spec => []OneActiveTaskPerIssue
<1>1. StoreInv => OneActiveTaskPerIssue
  BY DEF StoreInv
<1> QED
  BY <1>1, StoreInvariant, PTL

\* Revise commands never take a task past the limit (RequestRevision).
THEOREM RevisionsBounded == Spec => []RevisionLimit
<1>1. StoreInv => RevisionLimit
  BY DEF StoreInv, RevisionLimit, RowInv, LimitOK
<1> QED
  BY <1>1, StoreInvariant, PTL

\* A finished task stays finished with the same outcome for every attempt
\* (task/status.go, CanTransition).
THEOREM FinishedIsFinal == Spec => TerminalFinal
<1>1. StoreInv /\ [Next]_vars =>
        [\A t \in DOMAIN tasks :
           t \in DOMAIN tasks' /\ FinishedStays(tasks[t], tasks'[t])]_vars
  BY NextStep DEF StepOK, RowStep
<1> QED
  BY <1>1, StoreInvariant, PTL DEF Spec, TerminalFinal

\* The timeline is append-only and no status change is silent (applyTransition
\* updates the row and inserts the event in one transaction).
THEOREM TimelineGrows == Spec => TimelineAppendOnly
<1>1. StoreInv /\ [Next]_vars =>
        [\A t \in DOMAIN tasks : AppendOnly(tasks[t], tasks'[t])]_vars
  BY NextStep DEF StepOK, RowStep
<1> QED
  BY <1>1, StoreInvariant, PTL DEF Spec, TimelineAppendOnly

\* The first branch, base, attempt base and check run recorded stay
\* (EnsureGitContext, RecordAttemptBase, RecordTriggerCheckRun).
THEOREM FirstWriterStays == Spec => GitContextStable
<1>1. StoreInv /\ [Next]_vars =>
        [\A t \in DOMAIN tasks : FirstWriterWins(tasks[t], tasks'[t])]_vars
  BY NextStep DEF StepOK, RowStep
<1> QED
  BY <1>1, StoreInvariant, PTL DEF Spec, GitContextStable
-----------------------------------------------------------------------------
(* TaskStream.  The invariant, of the task's timeline, its status, the     *)
(* request, the frames under way and the page.                             *)

Positions == Nat \X Nat

Sources == {"connecting", "open", "gave_up", "closed"}

Requests ==
  [pc : {"none", "drain", "drained", "wait", "returned"}, cursor : Positions,
   status : AllStatuses, wrote : BOOLEAN]

Frames == [at : Positions, done : AllStatuses \cup {"none"}]

Pages ==
  [source : Sources, url : Positions, header : Positions,
   shown : SUBSET Positions, final : AllStatuses \cup {"none"}]

\* Position(i), where attempts are numbered as AttemptsOK says.
PositionIn(log, i) == <<log[i].attempt, log[i].seq>>

LateIn(log, i) == \E j \in 1..(i - 1) : log[j].attempt > log[i].attempt

\* A status event is filed under the newest attempt there is.
StatusInOrder(log) ==
  \A i \in 1..Len(log) : log[i].type \in AllStatuses => ~LateIn(log, i)

LastOf(pg) == IF pg.header # Start THEN pg.header ELSE pg.url

Known(log, p) == p = Start \/ \E i \in 1..Len(log) : p = PositionIn(log, i)

\* The request and its frames are gone unless the page is connected; its cursor
\* is at an event, and no page is ahead of it.
ConnectionOK(log, h, w, pg) ==
  /\ pg.source = "open" <=> h.pc # "none"
  /\ h.pc = "none" => w = << >>
  /\ Known(log, LastOf(pg)) /\ Known(log, h.cursor)
  /\ h.pc # "none" => ~Before(h.cursor, LastOf(pg))
  /\ \A k \in 1..Len(w) : w[k].done = "none" => Known(log, w[k].at)

\* The frames under way are in order and lie between the page and the cursor.
WireOK(h, w, pg) ==
  \A k \in 1..Len(w) : w[k].done = "none" =>
    /\ Before(LastOf(pg), w[k].at) /\ ~Before(h.cursor, w[k].at)
    /\ \A j \in 1..(k - 1) : Before(w[j].at, w[k].at)

\* An event is shown, under way or still to be read, unless it came late.
CoverageOK(log, h, w, pg) ==
  \A i \in 1..Len(log) :
    \/ LateIn(log, i)
    \/ PositionIn(log, i) \in pg.shown
    \/ /\ Before(LastOf(pg), PositionIn(log, i))
       /\ h.pc # "none" =>
            \/ Before(h.cursor, PositionIn(log, i))
            \/ \E k \in 1..Len(w) : w[k] = Frame(PositionIn(log, i))

\* A round that read a terminal status and found nothing has read every status
\* event.
RoundOK(log, status, h) ==
  /\ h.pc # "none" /\ Terminal(h.status) => status = h.status
  /\ h.pc \in {"drained", "returned"} /\ Terminal(h.status) /\ ~h.wrote =>
       \A i \in 1..Len(log) :
         log[i].type \in AllStatuses => ~Before(h.cursor, PositionIn(log, i))

\* Only such a round writes done, and done is the last frame.
DoneOK(h, w) ==
  \A k \in 1..Len(w) : w[k].done # "none" =>
    /\ k = Len(w) /\ h.pc = "returned" /\ ~h.wrote
    /\ Terminal(h.status) /\ w[k].done = h.status

EndOK(log, status, pg) ==
  pg.source = "closed" =>
    /\ Terminal(status) /\ pg.final = status
    /\ \A i \in 1..Len(log) :
         log[i].type \in AllStatuses => PositionIn(log, i) \in pg.shown

StreamOK(r, h, w, pg) ==
  /\ h \in Requests /\ w \in Seq(Frames) /\ pg \in Pages
  /\ ConnectionOK(r.log, h, w, pg) /\ WireOK(h, w, pg)
  /\ CoverageOK(r.log, h, w, pg) /\ RoundOK(r.log, r.status, h)
  /\ DoneOK(h, w) /\ EndOK(r.log, r.status, pg)-----------------------------------------------------------------------------
(* The order of the timeline.                                              *)

LEMMA BeforeIsOrder ==
  ASSUME NEW p \in Positions, NEW q \in Positions
  PROVE  /\ ~Before(p, p)
         /\ Before(p, q) => ~Before(q, p)
         /\ ~Before(p, q) /\ ~Before(q, p) => p = q
         /\ ~Before(p, Start)
BY DEF Before, Positions, Start

LEMMA BeforeTransitive ==
  ASSUME NEW p \in Positions, NEW q \in Positions, NEW x \in Positions
  PROVE  /\ Before(p, q) /\ Before(q, x) => Before(p, x)
         /\ ~Before(q, p) /\ Before(q, x) => Before(p, x)
         /\ Before(p, q) /\ ~Before(x, q) => Before(p, x)
         /\ ~Before(q, p) /\ ~Before(x, q) => ~Before(x, p)
BY DEF Before, Positions

\* The positions of a row are those of its timeline, and attempts count from 1.
LEMMA PositionsOf ==
  ASSUME NEW r, RowOK(r)
  PROVE  /\ r.log \in Seq(ActivityEvent) /\ Len(r.log) \in Nat
         /\ DOMAIN r.log = 1..Len(r.log)
         /\ \A i \in 1..Len(r.log) :
              /\ PositionIn(r.log, i) \in Positions
              /\ PositionIn(r.log, i) # Start /\ Before(Start, PositionIn(r.log, i))
              /\ <<r.attempts[r.log[i].attempt].number, r.log[i].seq>> =
                   PositionIn(r.log, i)
              /\ r.log[i].attempt \in Nat /\ r.log[i].attempt \in 1..Len(r.attempts)
<1>1. /\ r.log \in Seq(ActivityEvent) /\ r.attempts \in Seq(Attempt)
      /\ \A a \in 1..Len(r.attempts) : r.attempts[a].number = a
      /\ \A i \in DOMAIN r.log : r.log[i].attempt \in DOMAIN r.attempts
  BY DEF RowOK, Row, AttemptsOK, SequencesOK
<1>2. /\ Len(r.log) \in Nat /\ DOMAIN r.log = 1..Len(r.log)
      /\ Len(r.attempts) \in Nat /\ DOMAIN r.attempts = 1..Len(r.attempts)
  BY <1>1
<1>3. ASSUME NEW i \in 1..Len(r.log)
      PROVE  /\ r.log[i].attempt \in 1..Len(r.attempts) /\ r.log[i].seq \in Nat
             /\ r.attempts[r.log[i].attempt].number = r.log[i].attempt
  <2>1. r.log[i] \in ActivityEvent
    BY <1>1, <1>2
  <2> QED
    BY <1>1, <1>2, <2>1 DEF ActivityEvent
<1> QED
  BY <1>1, <1>2, <1>3 DEF PositionIn, Positions, Start, Before

\* An event that is not late comes after all that were there before it.
LEMMA NotLateIsNewest ==
  ASSUME NEW r, RowOK(r), NEW i \in 1..Len(r.log), ~LateIn(r.log, i),
         NEW j \in 1..(i - 1)
  PROVE  Before(PositionIn(r.log, j), PositionIn(r.log, i))
<1>1. /\ Len(r.log) \in Nat /\ DOMAIN r.log = 1..Len(r.log)
      /\ j \in 1..Len(r.log) /\ j < i
  BY PositionsOf
<1>2. /\ r.log[i].attempt \in Nat /\ r.log[j].attempt \in Nat
      /\ PositionIn(r.log, i) \in Positions /\ PositionIn(r.log, j) \in Positions
  BY <1>1, PositionsOf
<1>3. r.log[j].attempt = r.log[i].attempt => r.log[j].seq < r.log[i].seq
  BY <1>1 DEF RowOK, SequencesOK
<1> QED
  BY <1>2, <1>3 DEF LateIn, Before, PositionIn

-----------------------------------------------------------------------------
(* What the store does to a timeline that is being read.                   *)

\* A write under the eyes of a reader: it only adds events, a status event under
\* the newest attempt, and none to a finished task.
ReadStep(r, s) ==
  /\ RowStep(r, s)
  /\ StatusInOrder(s.log)
  /\ Terminal(r.status) =>
       \A i \in (Len(r.log) + 1)..Len(s.log) : s.log[i].type \notin AllStatuses

LEMMA NoteIsNoStatus == "note" \notin AllStatuses
BY DEF AllStatuses, PhasePending, PhaseRunning, PhaseReview, PhaseTerminal

LEMMA GainInOrder ==
  ASSUME NEW r, RowOK(r), StatusInOrder(r.log), NEW s, NEW n \in Nat, NEW from, NEW type, NEW key,
         LogGains(r.log, s.log, n, from, type, key),
         type \in AllStatuses => \A i \in 1..Len(r.log) : r.log[i].attempt <= n
  PROVE  /\ StatusInOrder(s.log)
         /\ Len(s.log) = Len(r.log) + 1 /\ s.log[Len(s.log)].type = type
<1>1. /\ r.log \in Seq(ActivityEvent) /\ Len(r.log) \in Nat
      /\ \A i \in 1..Len(r.log) : r.log[i].attempt \in Nat
  BY PositionsOf
<1>2. PICK seq \in Nat : s.log = Append(r.log, Event(n, seq, from, type, key))
  BY DEF LogGains
<1> DEFINE L == Len(r.log)
<1>3. /\ Len(s.log) = L + 1 /\ s.log[L + 1] = Event(n, seq, from, type, key)
      /\ \A i \in 1..L : s.log[i] = r.log[i]
  BY <1>1, <1>2
<1>4. s.log[L + 1].type = type /\ s.log[L + 1].attempt = n
  BY <1>3 DEF Event
<1>5. ASSUME NEW i \in 1..(L + 1), s.log[i].type \in AllStatuses, LateIn(s.log, i)
      PROVE  FALSE
  <2>1. PICK j \in 1..(i - 1) : s.log[j].attempt > s.log[i].attempt
    BY <1>5 DEF LateIn
  <2>2. j \in 1..L /\ s.log[j] = r.log[j]
    BY <1>1, <1>3
  <2>3. CASE i = L + 1
    BY <1>1, <1>4, <1>5, <2>1, <2>2, <2>3
  <2>4. CASE i \in 1..L
    BY <1>3, <1>5, <2>1, <2>2, <2>4 DEF StatusInOrder, LateIn
  <2> QED
    BY <1>1, <2>3, <2>4
<1> QED
  BY <1>3, <1>4, <1>5 DEF StatusInOrder

LEMMA ReadTransition ==
  ASSUME NEW r, RowInv(r), StatusInOrder(r.log), NEW p \in TransitionParams,
         TransitionOutcome(r, p) = "applied", NEW s, s = applyTransition(r, p)
  PROVE  /\ StatusInOrder(s.log) /\ ~Terminal(r.status)
<1>1. RowOK(s) /\ AppliedTo(r, p, s) /\ RowOK(r)
  BY ApplyTransitionOK DEF RowInv
<1>2. ~Terminal(r.status)
  BY <1>1 DEF AppliedTo, CanTransition, Terminal
<1>3. /\ r.attempts \in Seq(Attempt) /\ s.attempts \in Seq(Attempt)
      /\ Len(s.attempts) \in Nat /\ Len(r.attempts) \in Nat
  BY <1>1 DEF RowOK, Row
<1>4. \A i \in 1..Len(r.log) : r.log[i].attempt <= Len(s.attempts)
  BY <1>1, <1>3, PositionsOf DEF AppliedTo
<1>5. LogGains(r.log, s.log, Len(s.attempts), r.status, p.to, p.key)
  BY <1>1 DEF AppliedTo
<1> QED
  BY <1>1, <1>2, <1>3, <1>4, <1>5, GainInOrder
LEMMA TransitionRead ==
  ASSUME NEW r, RowInv(r), StatusInOrder(r.log), NEW to \in AllStatuses,
         NEW p, p = Params(to, NoKey, 0),
         TransitionOutcome(r, p) = "applied", NEW s, s = applyTransition(r, p)
  PROVE  ReadStep(r, s)
<1>1. p \in TransitionParams /\ p.comment = NoValue
  BY ParamsType DEF Params
<1> QED
  BY <1>1, TransitionStep, ReadTransition DEF ReadStep

LEMMA RevisionRead ==
  ASSUME NEW r, RowInv(r), StatusInOrder(r.log), NEW key \in Keys, NEW comment \in Values,
         NEW base \in Values, RevisionOutcome(r, MaxAttempts, key) = "applied",
         NEW s, s = RevisedRow(r, key, comment, base)
  PROVE  ReadStep(r, s)
<1> DEFINE p1 == Params("revision_requested", key, 0)
           p2 == RevisionParams(comment, base)
           m == applyTransition(r, p1)
<1>1. "revision_requested" \in AllStatuses /\ "queued" \in AllStatuses
  BY DEF AllStatuses, PhaseReview, PhasePending
<1>2. p1 \in TransitionParams /\ p1.comment = NoValue /\ p1.to = "revision_requested"
  BY <1>1, ParamsType DEF Params
<1>3. p2 \in TransitionParams /\ p2.to = "queued" /\ p2.key = NoKey /\ p2.expect = 0
  BY <1>1 DEF RevisionParams, TransitionParams
<1>4. TransitionOutcome(r, p1) = "applied"
  BY DEF RevisionOutcome
<1>5. /\ RowStep(r, m) /\ AppliedTo(r, p1, m)
      /\ StatusInOrder(m.log) /\ ~Terminal(r.status)
  BY <1>2, <1>4, TransitionStep, ApplyTransitionOK, ReadTransition DEF RowInv
<1> HIDE DEF m, p1, p2
<1>6. RowInv(m) /\ m.status = "revision_requested"
  BY <1>2, <1>5 DEF RowStep, AppliedTo
<1>7. TransitionOutcome(m, p2) = "applied"
  <2>1. ActiveAttempts(m) # {}
    BY <1>6, ActiveIsNewest DEF RowInv, RowOK, Terminal, PhaseTerminal
  <2>2. CanTransition("revision_requested", "queued")
    BY DEF CanTransition, AllStatuses, PhasePending, PhaseReview, PhaseTerminal,
           happyPath
  <2> QED
    BY <1>3, <1>6, <2>1, <2>2 DEF TransitionOutcome, KeySeen
<1>8. s = applyTransition(m, p2)
  BY DEF RevisedRow, m, p1, p2
<1>9. StatusInOrder(s.log)
  BY <1>3, <1>5, <1>6, <1>7, <1>8, ReadTransition
<1> QED
  BY <1>5, <1>9, RevisionStep DEF ReadStep

LEMMA NoteRead ==
  ASSUME NEW r, RowInv(r), StatusInOrder(r.log), NEW a \in DOMAIN r.attempts,
         NEW s, s = insertEvent(r, a, "none", "note", NoKey)
  PROVE  ReadStep(r, s)
<1>1. r \in Row /\ SequencesOK(r) /\ RowOK(r) /\ a \in 1..Len(r.attempts)
  BY DEF RowInv, RowOK, Row
<1>2. a \in Nat
  BY <1>1 DEF Row
<1>3. LogGains(r.log, s.log, a, "none", "note", NoKey)
  BY <1>1, InsertEventOK
<1>4. /\ StatusInOrder(s.log)
      /\ Len(s.log) = Len(r.log) + 1 /\ s.log[Len(s.log)].type = "note"
  BY <1>1, <1>2, <1>3, GainInOrder, NoteIsNoStatus
<1>5. Len(r.log) \in Nat
  BY <1>1, PositionsOf
<1>6. \A i \in (Len(r.log) + 1)..Len(s.log) : i = Len(s.log)
  BY <1>4, <1>5
<1> QED
  BY <1>4, <1>6, NoteStep, NoteIsNoStatus DEF ReadStep

-----------------------------------------------------------------------------
(* The row on which the page is opened.                                    *)

\* Induction over numbers, by the least counterexample.
LEMMA LeastOf ==
  ASSUME NEW T \in SUBSET Nat, T # {}
  PROVE  \E m \in T : \A k \in T : m <= k
<1> DEFINE R == OpToRel(<, Nat)
<1>1. IsWellFoundedOn(R, Nat)
  BY NatLessThanWellFounded
<1>2. \A k, m \in Nat : k < m => <<k, m>> \in R
  BY DEF OpToRel
<1> HIDE DEF R
<1>3. PICK m \in T : \A y \in T : ~ (<<y, m>> \in R)
  BY <1>1, WFMin
<1>4. \A k \in T : k \in Nat /\ m \in Nat
  OBVIOUS
<1>5. ASSUME NEW k \in T PROVE m <= k
  <2>1. ~ (k < m)
    BY <1>2, <1>3, <1>4
  <2> QED
    BY <2>1, <1>4
<1> QED
  BY <1>5

\* f is Advanced up to n.
AdvancesTo(f, n) ==
  f = [i \in 0..n |-> IF i = 0 THEN CreatedRow(NoIssue, NoValue)
                      ELSE applyTransition(f[i - 1], Params(Passed[i], NoKey, 0))]

LEMMA AdvancedIs == AdvancesTo(Advanced, Len(Passed))
<1> DEFINE N == Len(Passed)
           bad == {n \in Nat : ~ \E f : AdvancesTo(f, n)}
<1>1. bad = {}
  <2> SUFFICES ASSUME bad # {} PROVE FALSE
    OBVIOUS
  <2>1. PICK m \in bad : \A k \in bad : m <= k
    BY LeastOf
  <2>2. m \in Nat /\ ~ \E f : AdvancesTo(f, m)
    OBVIOUS
  <2>3. CASE m = 0
    <3> DEFINE f == [i \in 0..0 |-> CreatedRow(NoIssue, NoValue)]
    <3>1. AdvancesTo(f, 0)
      BY DEF AdvancesTo
    <3> QED
      BY <2>2, <2>3, <3>1
  <2>4. CASE m # 0
    <3>1. m - 1 \in Nat /\ m - 1 \notin bad
      BY <2>1, <2>2, <2>4
    <3>2. PICK f : AdvancesTo(f, m - 1)
      BY <3>1
    <3> DEFINE step(x, i) == applyTransition(x, Params(Passed[i], NoKey, 0))
               g == [i \in 0..m |-> IF i = m THEN step(f[m - 1], m) ELSE f[i]]
    <3>3. ASSUME NEW i \in 0..m
          PROVE  g[i] = IF i = 0 THEN CreatedRow(NoIssue, NoValue) ELSE step(g[i - 1], i)
      <4>1. CASE i = 0
        BY <2>2, <2>4, <3>2, <4>1 DEF AdvancesTo
      <4>2. CASE i = m
        <5>1. g[m - 1] = f[m - 1] /\ g[m] = step(f[m - 1], m)
          BY <2>2, <2>4, <3>1
        <5> QED
          BY <2>4, <4>2, <5>1
      <4>3. CASE i # 0 /\ i # m
        <5>1. /\ i \in 0..(m - 1) /\ i - 1 \in 0..m /\ i - 1 # m
              /\ g[i] = f[i] /\ g[i - 1] = f[i - 1]
          BY <2>2, <4>3
        <5>2. f[i] = step(f[i - 1], i)
          BY <3>2, <4>3, <5>1 DEF AdvancesTo
        <5> QED
          BY <4>3, <5>1, <5>2
      <4> QED
        BY <4>1, <4>2, <4>3
    <3> HIDE DEF step
    <3>4. g = [i \in 0..m |-> IF i = 0 THEN CreatedRow(NoIssue, NoValue)
                              ELSE step(g[i - 1], i)]
      <4>1. DOMAIN g = 0..m /\ g = [i \in 0..m |-> g[i]]
        OBVIOUS
      <4> HIDE DEF g
      <4> QED
        BY <3>3, <4>1
    <3> HIDE DEF g
    <3>5. AdvancesTo(g, m)
      BY <3>4 DEF AdvancesTo, step
    <3> QED
      BY <2>2, <3>5
  <2> QED
    BY <2>3, <2>4
<1>2. N \in Nat
  BY StreamAssumption
<1>3. \E f : AdvancesTo(f, N)
  BY <1>1, <1>2
<1> QED
  BY <1>3 DEF Advanced, AdvancesTo
\* What the page finds is what a task may look like that has gone through Passed.
LEMMA OpenedRowOK ==
  /\ RowInv(Advanced[Len(Passed)])
  /\ StatusInOrder(Advanced[Len(Passed)].log)
<1> DEFINE N == Len(Passed)
           first == CreatedRow(NoIssue, NoValue)
           good(r, n) == /\ RowInv(r) /\ StatusInOrder(r.log)
                         /\ r.status = IF n = 0 THEN "queued" ELSE Passed[n]
           bad == {n \in 0..N : ~good(Advanced[n], n)}
<1>1. /\ Passed \in Seq(AllStatuses) /\ N \in Nat
      /\ \A n \in 1..N :
           CanTransition(IF n = 1 THEN "queued" ELSE Passed[n - 1], Passed[n])
  BY StreamAssumption
<1>2. good(first, 0)
  <2>1. RowInv(first)
    BY CreatedRowOK
  <2> DEFINE r == InsertedRow(NoIssue, NoValue)
             p == Params("queued", NoKey, 0)
  <2>2. first.status = "queued"
    BY DEF CreatedRow, applyTransition, insertEvent, Params
  <2>3. \A i \in 1..Len(first.log) : first.log[i].attempt = 1
    <3>1. /\ first.log \in Seq(ActivityEvent) /\ first.attempts \in Seq(Attempt)
          /\ Len(first.attempts) = 1
      <4>1. Len(first.attempts) = 1
        BY DEF CreatedRow, applyTransition, insertEvent, InsertedRow, Params, MoveAttempts,
               Terminal, PhaseTerminal, NewAttempt
      <4> QED
        BY <2>1, <4>1 DEF RowInv, RowOK, Row
    <3> QED
      BY <2>1, <3>1, PositionsOf DEF RowInv
  <2>4. Len(first.log) \in Nat
    BY <2>1, PositionsOf DEF RowInv
  <2> HIDE DEF first
  <2>5. StatusInOrder(first.log)
    BY <2>3, <2>4 DEF StatusInOrder, LateIn
  <2> QED
    BY <2>1, <2>2, <2>5
<1>3. ASSUME NEW n \in 1..N, good(Advanced[n - 1], n - 1)
      PROVE  good(Advanced[n], n)
  <2> DEFINE r == Advanced[n - 1]
             p == Params(Passed[n], NoKey, 0)
  <2>1. Advanced[n] = applyTransition(r, p)
    BY <1>1, AdvancedIs DEF AdvancesTo
  <2>2. CanTransition(r.status, Passed[n]) /\ Passed[n] \in AllStatuses
    BY <1>1, <1>3
  <2>3. TransitionOutcome(r, p) = "applied"
    <3>1. ~Terminal(r.status)
      BY <2>2 DEF CanTransition, Terminal
    <3>2. ActiveAttempts(r) # {}
      BY <1>3, <3>1, ActiveIsNewest DEF RowInv, RowOK
    <3> QED
      BY <2>2, <3>2 DEF TransitionOutcome, KeySeen, Params
  <2> HIDE DEF r
  <2>4. RowInv(r) /\ StatusInOrder(r.log)
    BY <1>3 DEF r
  <2>5. ReadStep(r, Advanced[n])
    BY <2>1, <2>2, <2>3, <2>4, TransitionRead
  <2>6. p \in TransitionParams /\ p.to = Passed[n]
    <3>1. p.to = Passed[n]
      BY DEF Params
    <3>2. Passed[n] \in AllStatuses /\ NoKey \in Keys \cup {NoKey} /\ 0 \in Int
      BY <2>2
    <3>3. p \in TransitionParams
      BY <3>2, ParamsType
    <3> QED
      BY <3>1, <3>3
  <2> HIDE DEF p
  <2>7. AppliedTo(r, p, Advanced[n])
    BY <2>1, <2>3, <2>4, <2>6, ApplyTransitionOK DEF RowInv
  <2> QED
    BY <2>5, <2>6, <2>7 DEF ReadStep, RowStep, AppliedTo
<1>4. Advanced[0] = first
  BY <1>1, AdvancedIs DEF AdvancesTo
<1> HIDE DEF good, first
<1>5. bad = {}
  <2> SUFFICES ASSUME bad # {} PROVE FALSE
    OBVIOUS
  <2>0. bad \in SUBSET Nat
    BY <1>1
  <2> HIDE DEF bad
  <2>1. PICK m \in bad : \A k \in bad : m <= k
    BY <2>0, LeastOf
  <2> USE DEF bad
  <2>2. m \in 0..N /\ ~good(Advanced[m], m)
    OBVIOUS
  <2>3. m # 0
    BY <1>2, <1>4, <2>2
  <2>4. m - 1 \in 0..N /\ m - 1 \notin bad
    BY <1>1, <2>1, <2>2, <2>3
  <2> QED
    BY <1>1, <1>3, <2>2, <2>3, <2>4
<1> QED
  BY <1>1, <1>5 DEF good

LEMMA StreamInitOK ==
  ASSUME StreamInit
  PROVE  /\ DOMAIN tasks = {Streamed} /\ RowInv(Row1) /\ StatusInOrder(Row1.log)
         /\ StreamOK(Row1, handler, wire, page)
<1> DEFINE r == Advanced[Len(Passed)]
<1>1. DOMAIN tasks = {Streamed} /\ Row1 = r
  BY DEF StreamInit, Row1
<1>2. RowInv(r) /\ StatusInOrder(r.log) /\ RowOK(r)
  BY OpenedRowOK DEF RowInv
<1> HIDE DEF r
<1>3. /\ handler = NoRequest /\ wire = << >>
      /\ page = [source |-> "connecting", url |-> Start, header |-> Start,
                 shown |-> {}, final |-> "none"]
  BY DEF StreamInit
<1>4. handler \in Requests /\ wire \in Seq(Frames) /\ page \in Pages /\ Len(wire) = 0
  BY <1>3 DEF NoRequest, Requests, Pages, Start, Positions, AllStatuses, PhasePending, Sources
<1>5. LastOf(page) = Start /\ handler.cursor = Start /\ handler.pc = "none"
      /\ page.source = "connecting"
  BY <1>3 DEF LastOf, NoRequest
<1>6. ConnectionOK(r.log, handler, wire, page)
  BY <1>3, <1>5 DEF ConnectionOK, Known
<1>7. CoverageOK(r.log, handler, wire, page)
  BY <1>2, <1>5, PositionsOf DEF CoverageOK
<1>8. WireOK(handler, wire, page) /\ DoneOK(handler, wire)
  BY <1>4 DEF WireOK, DoneOK
<1>9. RoundOK(r.log, r.status, handler) /\ EndOK(r.log, r.status, page)
  BY <1>5 DEF RoundOK, EndOK
<1> QED
  BY <1>1, <1>2, <1>4, <1>6, <1>7, <1>8, <1>9 DEF StreamOK
-----------------------------------------------------------------------------
(* The steps of the stream.                                                *)

\* The parts of StreamOK, with the types their proofs need.
LEMMA StreamTypes ==
  ASSUME NEW r, NEW h, NEW w, NEW pg, RowInv(r), StreamOK(r, h, w, pg)
  PROVE  /\ RowOK(r) /\ h \in Requests /\ w \in Seq(Frames) /\ pg \in Pages
         /\ h.cursor \in Positions /\ LastOf(pg) \in Positions /\ h.wrote \in BOOLEAN
         /\ Len(w) \in Nat /\ DOMAIN w = 1..Len(w)
         /\ \A k \in 1..Len(w) : w[k] \in Frames /\ w[k].at \in Positions
         /\ DOMAIN h = {"pc", "cursor", "status", "wrote"}
         /\ DOMAIN pg = {"source", "url", "header", "shown", "final"}
<1>1. RowOK(r) /\ h \in Requests /\ w \in Seq(Frames) /\ pg \in Pages
  BY DEF RowInv, StreamOK
<1>2. \A k \in 1..Len(w) : w[k] \in Frames
  BY <1>1
<1> QED
  BY <1>1, <1>2 DEF Requests, Pages, LastOf, Frames

\* The store writes while the page is being served.
LEMMA WriteKeepsStream ==
  ASSUME NEW r, NEW s, NEW h, NEW w, NEW pg, RowInv(r),
         StreamOK(r, h, w, pg), ReadStep(r, s)
  PROVE  StreamOK(s, h, w, pg)
<1>1. /\ RowOK(r) /\ RowOK(s) /\ StatusInOrder(s.log)
      /\ FinishedStays(r, s) /\ AppendOnly(r, s)
  BY DEF RowInv, ReadStep, RowStep
<1> DEFINE L == Len(r.log)
           M == Len(s.log)
<1>2. /\ L \in Nat /\ M \in Nat /\ L <= M
      /\ \A i \in 1..L : s.log[i] = r.log[i]
  BY <1>1, PositionsOf DEF AppendOnly
<1>3. \A i \in 1..L : /\ PositionIn(s.log, i) = PositionIn(r.log, i)
                      /\ LateIn(s.log, i) <=> LateIn(r.log, i)
  <2>1. \A i \in 1..L, j \in 1..L : j \in 1..(i - 1) => s.log[j] = r.log[j]
    BY <1>2
  <2>2. \A i \in 1..L : \A j \in 1..(i - 1) : j \in 1..L
    BY <1>2
  <2> QED
    BY <1>2, <2>1, <2>2 DEF PositionIn, LateIn
\* A new event that is not late lies beyond everything that was known.
<1>4. ASSUME NEW i \in (L + 1)..M, ~LateIn(s.log, i), NEW p, Known(r.log, p)
      PROVE  Before(p, PositionIn(s.log, i))
  <2>1. i \in 1..M
    BY <1>2
  <2>2. CASE p = Start
    BY <1>1, <2>1, <2>2, PositionsOf
  <2>3. ASSUME NEW j \in 1..L, p = PositionIn(r.log, j) PROVE Before(p, PositionIn(s.log, i))
    <3>1. j \in 1..(i - 1) /\ p = PositionIn(s.log, j)
      BY <1>2, <1>3, <2>3
    <3> QED
      BY <1>1, <1>4, <2>1, <3>1, NotLateIsNewest
  <2> QED
    BY <1>4, <2>2, <2>3 DEF Known
<1>5. \A i \in 1..M : i \in 1..L \/ i \in (L + 1)..M
  BY <1>2
<1>6. /\ ConnectionOK(r.log, h, w, pg) /\ WireOK(h, w, pg)
      /\ CoverageOK(r.log, h, w, pg) /\ RoundOK(r.log, r.status, h)
      /\ DoneOK(h, w) /\ EndOK(r.log, r.status, pg)
      /\ h \in Requests /\ w \in Seq(Frames) /\ pg \in Pages
  BY DEF StreamOK
<1>7. ConnectionOK(s.log, h, w, pg)
  <2>1. ASSUME NEW p, Known(r.log, p) PROVE Known(s.log, p)
    BY <1>2, <1>3, <2>1 DEF Known
  <2> QED
    BY <1>6, <2>1 DEF ConnectionOK
<1>8. CoverageOK(s.log, h, w, pg)
  <2> SUFFICES ASSUME NEW i \in 1..M, ~LateIn(s.log, i)
               PROVE  \/ PositionIn(s.log, i) \in pg.shown
                      \/ /\ Before(LastOf(pg), PositionIn(s.log, i))
                         /\ h.pc # "none" =>
                              \/ Before(h.cursor, PositionIn(s.log, i))
                              \/ \E k \in 1..Len(w) : w[k] = Frame(PositionIn(s.log, i))
    BY DEF CoverageOK
  <2>1. CASE i \in 1..L
    BY <1>3, <1>6, <2>1 DEF CoverageOK
  <2>2. CASE i \in (L + 1)..M
    BY <1>4, <1>6, <2>2 DEF ConnectionOK
  <2> QED
    BY <1>5, <2>1, <2>2
<1>9. RoundOK(s.log, s.status, h)
  <2>1. h.pc # "none" /\ Terminal(h.status) => s.status = h.status /\ r.status = h.status
    BY <1>1, <1>6 DEF RoundOK, FinishedStays
  <2>2. ASSUME h.pc \in {"drained", "returned"}, Terminal(h.status), ~h.wrote,
               NEW i \in 1..M, s.log[i].type \in AllStatuses
        PROVE  ~Before(h.cursor, PositionIn(s.log, i))
    <3>1. i \notin (L + 1)..M
      BY <2>1, <2>2 DEF ReadStep
    <3>2. i \in 1..L /\ s.log[i] = r.log[i]
      BY <1>2, <1>5, <3>1
    <3> QED
      BY <1>3, <1>6, <2>2, <3>2 DEF RoundOK
  <2> QED
    BY <2>1, <2>2 DEF RoundOK
<1>10. EndOK(s.log, s.status, pg)
  <2> SUFFICES ASSUME pg.source = "closed"
               PROVE  /\ Terminal(s.status) /\ pg.final = s.status
                      /\ \A i \in 1..M : s.log[i].type \in AllStatuses =>
                           PositionIn(s.log, i) \in pg.shown
    BY DEF EndOK
  <2>1. Terminal(r.status) /\ s.status = r.status /\ pg.final = r.status
    BY <1>1, <1>6 DEF EndOK, FinishedStays
  <2>2. ASSUME NEW i \in 1..M, s.log[i].type \in AllStatuses
        PROVE  PositionIn(s.log, i) \in pg.shown
    <3>1. i \notin (L + 1)..M
      BY <2>1, <2>2 DEF ReadStep
    <3>2. i \in 1..L /\ s.log[i] = r.log[i]
      BY <1>2, <1>5, <3>1
    <3> QED
      BY <1>3, <1>6, <2>2, <3>2 DEF EndOK
  <2> QED
    BY <2>1, <2>2
<1> QED
  BY <1>6, <1>7, <1>8, <1>9, <1>10 DEF StreamOK
\* The handler starts from the cursor of the page.
LEMMA ConnectKeeps ==
  ASSUME NEW r, NEW h, NEW w, NEW pg, RowInv(r), StreamOK(r, h, w, pg),
         pg.source = "connecting", h.pc = "none",
         NEW g, g = [pc |-> "drain", cursor |-> LastOf(pg),
                     status |-> r.status, wrote |-> FALSE],
         NEW q, q = [pg EXCEPT !.source = "open"]
  PROVE  StreamOK(r, g, w, q)
<1>1. /\ RowOK(r) /\ h \in Requests /\ w \in Seq(Frames) /\ pg \in Pages
      /\ LastOf(pg) \in Positions
  BY StreamTypes
<1>2. /\ g \in Requests /\ q \in Pages
      /\ q.source = "open" /\ q.shown = pg.shown /\ LastOf(q) = LastOf(pg)
      /\ g.pc = "drain" /\ g.cursor = LastOf(pg) /\ g.status = r.status
  BY <1>1 DEF Requests, Pages, Sources, LastOf, RowOK, Row
<1>3. /\ ConnectionOK(r.log, h, w, pg) /\ CoverageOK(r.log, h, w, pg)
  BY DEF StreamOK
<1>4. w = << >> /\ Len(w) = 0
  BY <1>3 DEF ConnectionOK
<1>5. ConnectionOK(r.log, g, w, q)
  BY <1>1, <1>2, <1>3, BeforeIsOrder DEF ConnectionOK
<1>6. CoverageOK(r.log, g, w, q)
  BY <1>2, <1>3 DEF CoverageOK
<1>7. RoundOK(r.log, r.status, g) /\ EndOK(r.log, r.status, q)
  BY <1>2 DEF RoundOK, EndOK
<1>8. WireOK(g, w, q) /\ DoneOK(g, w)
  BY <1>4 DEF WireOK, DoneOK
<1> QED
  BY <1>1, <1>2, <1>5, <1>6, <1>7, <1>8 DEF StreamOK

\* A tick starts a round.
LEMMA TickKeeps ==
  ASSUME NEW r, NEW h, NEW w, NEW pg, RowInv(r), StreamOK(r, h, w, pg), h.pc = "wait",
         NEW g, g = [h EXCEPT !.pc = "drain", !.status = r.status, !.wrote = FALSE]
  PROVE  StreamOK(r, g, w, pg)
<1>1. /\ RowOK(r) /\ h \in Requests /\ w \in Seq(Frames) /\ pg \in Pages
  BY StreamTypes
<1>2. /\ g \in Requests /\ g.pc = "drain" /\ g.cursor = h.cursor /\ g.status = r.status
  BY <1>1 DEF Requests, RowOK, Row
<1>3. /\ ConnectionOK(r.log, h, w, pg) /\ CoverageOK(r.log, h, w, pg)
      /\ WireOK(h, w, pg) /\ DoneOK(h, w) /\ EndOK(r.log, r.status, pg)
  BY DEF StreamOK
<1>4. ConnectionOK(r.log, g, w, pg)
  BY <1>2, <1>3 DEF ConnectionOK
<1>5. CoverageOK(r.log, g, w, pg)
  BY <1>2, <1>3 DEF CoverageOK
<1>6. RoundOK(r.log, r.status, g)
  BY <1>2 DEF RoundOK
<1>7. WireOK(g, w, pg)
  BY <1>2, <1>3 DEF WireOK
<1>8. DoneOK(g, w)
  BY <1>3 DEF DoneOK
<1> QED
  BY <1>1, <1>2, <1>3, <1>4, <1>5, <1>6, <1>7, <1>8 DEF StreamOK

\* A round that wrote something waits for a tick.
LEMMA WaitKeeps ==
  ASSUME NEW r, NEW h, NEW w, NEW pg, RowInv(r), StreamOK(r, h, w, pg), h.pc = "drained",
         NEW g, g = [h EXCEPT !.pc = "wait"]
  PROVE  StreamOK(r, g, w, pg)
<1>1. /\ RowOK(r) /\ h \in Requests /\ w \in Seq(Frames) /\ pg \in Pages
  BY StreamTypes
<1>2. /\ g \in Requests /\ g.pc = "wait" /\ g.cursor = h.cursor /\ g.status = h.status
  BY <1>1 DEF Requests
<1>3. /\ ConnectionOK(r.log, h, w, pg) /\ CoverageOK(r.log, h, w, pg)
      /\ WireOK(h, w, pg) /\ DoneOK(h, w) /\ EndOK(r.log, r.status, pg)
      /\ RoundOK(r.log, r.status, h)
  BY DEF StreamOK
<1>4. ConnectionOK(r.log, g, w, pg)
  BY <1>2, <1>3 DEF ConnectionOK
<1>5. CoverageOK(r.log, g, w, pg)
  BY <1>2, <1>3 DEF CoverageOK
<1>6. RoundOK(r.log, r.status, g)
  BY <1>2, <1>3 DEF RoundOK
<1>7. WireOK(g, w, pg)
  BY <1>2, <1>3 DEF WireOK
<1>8. DoneOK(g, w)
  BY <1>3 DEF DoneOK
<1> QED
  BY <1>1, <1>2, <1>3, <1>4, <1>5, <1>6, <1>7, <1>8 DEF StreamOK

\* A connection breaks, or the page closes it, and what was under way is lost.
LEMMA DropKeeps ==
  ASSUME NEW r, NEW h, NEW w, NEW pg, RowInv(r), StreamOK(r, h, w, pg),
         NEW src \in {"connecting", "gave_up"},
         NEW q, q = [pg EXCEPT !.source = src]
  PROVE  StreamOK(r, NoRequest, << >>, q)
<1>1. /\ RowOK(r) /\ h \in Requests /\ w \in Seq(Frames) /\ pg \in Pages
  BY StreamTypes
<1>2. /\ q \in Pages /\ q.source = src /\ q.shown = pg.shown /\ LastOf(q) = LastOf(pg)
      /\ src # "open" /\ src # "closed"
  BY <1>1 DEF Pages, Sources, LastOf
<1>3. /\ NoRequest \in Requests /\ NoRequest.pc = "none" /\ NoRequest.cursor = Start
  BY DEF NoRequest, Requests, Start, Positions, AllStatuses, PhasePending
<1>4. /\ ConnectionOK(r.log, h, w, pg) /\ CoverageOK(r.log, h, w, pg)
  BY DEF StreamOK
<1>5. << >> \in Seq(Frames) /\ Len(<< >>) = 0
  OBVIOUS
<1>6. ConnectionOK(r.log, NoRequest, << >>, q)
  BY <1>2, <1>3, <1>4 DEF ConnectionOK, Known
<1>7. CoverageOK(r.log, NoRequest, << >>, q)
  BY <1>2, <1>3, <1>4 DEF CoverageOK
<1>8. RoundOK(r.log, r.status, NoRequest) /\ EndOK(r.log, r.status, q)
  BY <1>2, <1>3 DEF RoundOK, EndOK
<1>9. WireOK(NoRequest, << >>, q) /\ DoneOK(NoRequest, << >>)
  BY <1>5 DEF WireOK, DoneOK
<1> QED
  BY <1>2, <1>3, <1>5, <1>6, <1>7, <1>8, <1>9 DEF StreamOK

\* The page opens a new EventSource from its own cursor.
LEMMA ReopenKeeps ==
  ASSUME NEW r, NEW h, NEW w, NEW pg, RowInv(r), StreamOK(r, h, w, pg),
         pg.source = "gave_up",
         NEW q, q = [pg EXCEPT !.source = "connecting", !.url = LastOf(pg), !.header = Start]
  PROVE  StreamOK(r, h, w, q)
<1>1. /\ RowOK(r) /\ h \in Requests /\ w \in Seq(Frames) /\ pg \in Pages
      /\ LastOf(pg) \in Positions
  BY StreamTypes
<1>2. /\ q \in Pages /\ q.source = "connecting" /\ q.shown = pg.shown
      /\ LastOf(q) = LastOf(pg)
  BY <1>1 DEF Pages, Sources, LastOf, Start, Positions
<1>3. /\ ConnectionOK(r.log, h, w, pg) /\ CoverageOK(r.log, h, w, pg)
      /\ WireOK(h, w, pg) /\ DoneOK(h, w) /\ RoundOK(r.log, r.status, h)
  BY DEF StreamOK
<1>4. ConnectionOK(r.log, h, w, q)
  BY <1>2, <1>3 DEF ConnectionOK
<1>5. CoverageOK(r.log, h, w, q)
  BY <1>2, <1>3 DEF CoverageOK
<1>6. WireOK(h, w, q) /\ EndOK(r.log, r.status, q)
  BY <1>2, <1>3 DEF WireOK, EndOK
<1> QED
  BY <1>1, <1>2, <1>3, <1>4, <1>5, <1>6 DEF StreamOK
\* A terminal task whose round wrote nothing is done.
LEMMA DoneKeeps ==
  ASSUME NEW r, NEW h, NEW w, NEW pg, RowInv(r), StreamOK(r, h, w, pg), h.pc = "drained",
         Terminal(h.status), ~h.wrote,
         NEW g, g = [h EXCEPT !.pc = "returned"],
         NEW v, v = Append(w, DoneFrame(h.status))
  PROVE  StreamOK(r, g, v, pg)
<1>1. /\ RowOK(r) /\ h \in Requests /\ w \in Seq(Frames) /\ pg \in Pages
      /\ Len(w) \in Nat
  BY StreamTypes
<1>2. /\ g \in Requests /\ g.pc = "returned" /\ g.cursor = h.cursor
      /\ g.status = h.status /\ g.wrote = h.wrote
  BY <1>1 DEF Requests
<1>3. /\ ConnectionOK(r.log, h, w, pg) /\ CoverageOK(r.log, h, w, pg)
      /\ WireOK(h, w, pg) /\ DoneOK(h, w) /\ EndOK(r.log, r.status, pg)
      /\ RoundOK(r.log, r.status, h)
  BY DEF StreamOK
<1>4. DoneFrame(h.status) \in Frames /\ DoneFrame(h.status).done = h.status
  BY <1>1 DEF DoneFrame, Frames, Requests, Start, Positions
<1>5. h.status # "none"
  BY DEF Terminal, PhaseTerminal
<1>6. /\ v \in Seq(Frames) /\ Len(v) = Len(w) + 1 /\ v[Len(w) + 1].done = h.status
      /\ \A k \in 1..Len(w) : v[k] = w[k]
  BY <1>1, <1>4
<1>7. ConnectionOK(r.log, g, v, pg)
  <2>1. \A k \in 1..Len(v) :
          v[k].done = "none" => k \in 1..Len(w) /\ v[k] = w[k]
    BY <1>1, <1>5, <1>6
  <2> QED
    BY <1>2, <1>3, <2>1 DEF ConnectionOK
<1>8. CoverageOK(r.log, g, v, pg)
  <2>1. \A f : (\E k \in 1..Len(w) : w[k] = f) => \E k \in 1..Len(v) : v[k] = f
    BY <1>1, <1>6
  <2> QED
    BY <1>2, <1>3, <2>1 DEF CoverageOK
<1>9. RoundOK(r.log, r.status, g)
  BY <1>2, <1>3 DEF RoundOK
<1>10. WireOK(g, v, pg)
  <2>1. ASSUME NEW k \in 1..Len(v), v[k].done = "none"
        PROVE  k \in 1..Len(w) /\ v[k] = w[k] /\ \A j \in 1..(k - 1) : v[j] = w[j]
    BY <1>1, <1>5, <1>6, <2>1
  <2> QED
    BY <1>2, <1>3, <2>1 DEF WireOK
<1>11. DoneOK(g, v)
  <2>1. ASSUME NEW k \in 1..Len(w) PROVE w[k].done = "none"
    BY <1>3 DEF DoneOK
  <2> QED
    BY <1>1, <1>2, <1>6, <2>1 DEF DoneOK
<1> QED
  BY <1>1, <1>2, <1>3, <1>6, <1>7, <1>8, <1>9, <1>10, <1>11 DEF StreamOK

\* What a batch is: in order, after the cursor, and without a gap.
IsBatch(log, cursor, limit, events) ==
  /\ Len(events) \in Nat /\ DOMAIN events = 1..Len(events)
  /\ \A k \in 1..Len(events) :
       /\ Before(cursor, events[k])
       /\ \E i \in 1..Len(log) : events[k] = PositionIn(log, i)
       /\ \A j \in 1..(k - 1) : Before(events[j], events[k])
  /\ \A i \in 1..Len(log) :
       Before(cursor, PositionIn(log, i)) =>
         \/ \E k \in 1..Len(events) : events[k] = PositionIn(log, i)
         \/ /\ Len(events) = limit
            /\ \A k \in 1..Len(events) : Before(events[k], PositionIn(log, i))

LEMMA BatchIs ==
  ASSUME NEW cursor, NEW limit \in Nat \ {0}, NEW events \in EventsAfter(cursor, limit),
         NEW r, r = Row1, RowOK(r)
  PROVE  IsBatch(r.log, cursor, limit, events)
<1> DEFINE later == {p \in {Position(i) : i \in DOMAIN Row1.log} : Before(cursor, p)}
<1>1. /\ DOMAIN Row1.log = 1..Len(r.log)
      /\ \A i \in 1..Len(r.log) : Position(i) = PositionIn(r.log, i)
  BY PositionsOf DEF Position
<1>2. \A p : p \in later <=> /\ Before(cursor, p)
                             /\ \E i \in 1..Len(r.log) : p = PositionIn(r.log, i)
  BY <1>1
<1>3. PICK n \in 0..limit : events \in [1..n -> later]
  BY DEF EventsAfter
<1>4. /\ \A i, j \in DOMAIN events : i < j => Before(events[i], events[j])
      /\ \A p \in later :
           \/ \E i \in DOMAIN events : events[i] = p
           \/ Len(events) = limit /\ \A i \in DOMAIN events : Before(events[i], p)
  BY DEF EventsAfter, TimelineOrder
<1> HIDE DEF later
<1>5. Len(events) = n /\ DOMAIN events = 1..n /\ n \in Nat
  BY <1>3
<1>6. \A k \in 1..n : events[k] \in later
  BY <1>3
<1>7. ASSUME NEW k \in 1..n
      PROVE  /\ Before(cursor, events[k])
             /\ \E i \in 1..Len(r.log) : events[k] = PositionIn(r.log, i)
             /\ \A j \in 1..(k - 1) : Before(events[j], events[k])
  <2>1. \A j \in 1..(k - 1) : j \in 1..n /\ j < k
    BY <1>5
  <2> QED
    BY <1>2, <1>4, <1>5, <1>6, <2>1
<1>8. ASSUME NEW i \in 1..Len(r.log), Before(cursor, PositionIn(r.log, i))
      PROVE  \/ \E k \in 1..n : events[k] = PositionIn(r.log, i)
             \/ /\ n = limit
                /\ \A k \in 1..n : Before(events[k], PositionIn(r.log, i))
  <2>1. PositionIn(r.log, i) \in later
    BY <1>2, <1>8
  <2> QED
    BY <1>4, <1>5, <2>1
<1> QED
  BY <1>5, <1>7, <1>8 DEF IsBatch
BatchWritten(w, events) == w \o [k \in 1..Len(events) |-> Frame(events[k])]

CursorMoved(h, events) ==
  [h EXCEPT !.cursor = IF Len(events) = 0 THEN @ ELSE events[Len(events)],
            !.wrote = @ \/ Len(events) > 0,
            !.pc = IF Len(events) < BatchLimit THEN "drained" ELSE "drain"]

\* One batch is written; the cursor goes to its last event.
LEMMA DrainKeeps ==
  ASSUME NEW h, NEW w, NEW pg, NEW r, r = Row1, RowInv(r), StreamOK(r, h, w, pg),
         h.pc = "drain", NEW events \in EventsAfter(h.cursor, BatchLimit),
         NEW v, v = BatchWritten(w, events), NEW g, g = CursorMoved(h, events)
  PROVE  StreamOK(r, g, v, pg)
<1> DEFINE n == Len(events)
           at(i) == PositionIn(r.log, i)
           c == IF n = 0 THEN h.cursor ELSE events[n]
<1>1. /\ RowOK(r) /\ h \in Requests /\ w \in Seq(Frames) /\ pg \in Pages
      /\ Len(w) \in Nat /\ h.cursor \in Positions /\ LastOf(pg) \in Positions
      /\ \A k \in 1..Len(w) : w[k].at \in Positions
  BY StreamTypes
<1>2. BatchLimit \in Nat \ {0}
  BY StreamAssumption
<1>3. /\ n \in Nat /\ DOMAIN events = 1..n
      /\ \A k \in 1..n :
           /\ Before(h.cursor, events[k])
           /\ \E i \in 1..Len(r.log) : events[k] = at(i)
           /\ \A j \in 1..(k - 1) : Before(events[j], events[k])
      /\ \A i \in 1..Len(r.log) :
           Before(h.cursor, at(i)) =>
             \/ \E k \in 1..n : events[k] = at(i)
             \/ n = BatchLimit /\ \A k \in 1..n : Before(events[k], at(i))
  <2>1. IsBatch(r.log, h.cursor, BatchLimit, events)
    BY <1>1, <1>2, BatchIs
  <2> QED
    BY <2>1 DEF IsBatch
<1>4. \A i \in 1..Len(r.log) : at(i) \in Positions
  BY <1>1, PositionsOf
<1> HIDE DEF at
<1>5. \A k \in 1..n : events[k] \in Positions
  BY <1>3, <1>4
<1>6. /\ g.pc \in {"drained", "drain"}
      /\ g.pc = "drained" => n < BatchLimit
      /\ g.cursor = c /\ g.status = h.status /\ g \in Requests
      /\ ~g.wrote => n = 0 /\ ~h.wrote
  <2>1. c \in Positions
    BY <1>1, <1>3, <1>5
  <2> QED
    <3>1. /\ g.pc = (IF n < BatchLimit THEN "drained" ELSE "drain") /\ g.cursor = c
          /\ g.status = h.status /\ h.status \in AllStatuses /\ h.wrote \in BOOLEAN
          /\ g.wrote = (h.wrote \/ n > 0)
      BY <1>1 DEF Requests, CursorMoved
    <3>2. g.wrote \in BOOLEAN /\ (~g.wrote => n = 0 /\ ~h.wrote)
      <4>1. n > 0 <=> n # 0
        BY <1>3
      <4> QED
        BY <3>1, <4>1, Zenon
    <3>3. g.pc \in {"drained", "drain"} /\ (g.pc = "drained" => n < BatchLimit)
      BY <3>1
    <3>4. g = [pc |-> g.pc, cursor |-> g.cursor, status |-> g.status, wrote |-> g.wrote]
      BY <1>1 DEF Requests, CursorMoved
    <3> HIDE DEF c
    <3> QED
      BY <2>1, <3>1, <3>2, <3>3, <3>4 DEF Requests
<1>7. /\ n = 0 => c = h.cursor
      /\ n # 0 => c = events[n] /\ n \in 1..n /\ c \in Positions /\ Before(h.cursor, c)
      /\ c \in Positions
  BY <1>1, <1>3, <1>5
<1>8. /\ v \in Seq(Frames) /\ Len(v) = Len(w) + n
      /\ \A k \in 1..Len(w) : v[k] = w[k]
      /\ \A k \in 1..n : v[Len(w) + k] = Frame(events[k])
  <2>1. \A k \in 1..n : Frame(events[k]) \in Frames
    BY <1>5 DEF Frame, Frames
  <2>2. [k \in 1..n |-> Frame(events[k])] \in Seq(Frames)
    BY <1>3, <2>1
  <2> QED
    BY <1>1, <1>3, <2>2 DEF BatchWritten
<1> HIDE DEF c, n
<1>9. /\ ConnectionOK(r.log, h, w, pg) /\ CoverageOK(r.log, h, w, pg)
      /\ WireOK(h, w, pg) /\ DoneOK(h, w) /\ EndOK(r.log, r.status, pg)
      /\ RoundOK(r.log, r.status, h)
  BY DEF StreamOK
<1>10. \A p \in Positions : Before(c, p) => Before(h.cursor, p)
  BY <1>1, <1>7, BeforeTransitive
<1>11. ~Before(c, LastOf(pg)) /\ ~Before(h.cursor, LastOf(pg))
  BY <1>1, <1>9, <1>10 DEF ConnectionOK
<1>12. ConnectionOK(r.log, g, v, pg)
  <2>1. Known(r.log, c)
    BY <1>3, <1>7, <1>9 DEF ConnectionOK, Known, at
  <2>2. ASSUME NEW k \in 1..Len(v), v[k].done = "none"
        PROVE  Known(r.log, v[k].at)
    <3>1. CASE k \in 1..Len(w)
      BY <1>8, <1>9, <2>2, <3>1 DEF ConnectionOK
    <3>2. CASE k \notin 1..Len(w)
      <4>1. k - Len(w) \in 1..n /\ k = Len(w) + (k - Len(w))
        BY <1>1, <1>3, <1>8, <3>2
      <4>2. v[k].at = events[k - Len(w)]
        <5>1. v[Len(w) + (k - Len(w))] = Frame(events[k - Len(w)])
          BY <1>8, <4>1
        <5> QED
          BY <4>1, <5>1 DEF Frame
      <4> QED
        BY <1>3, <4>1, <4>2 DEF Known, at
    <3> QED
      BY <3>1, <3>2
  <2>3. /\ pg.source = "open" /\ g.pc # "none"
        /\ Known(r.log, LastOf(pg)) /\ Known(r.log, g.cursor)
        /\ ~Before(g.cursor, LastOf(pg))
    BY <1>6, <1>9, <1>11, <2>1 DEF ConnectionOK
  <2> QED
    BY <2>2, <2>3 DEF ConnectionOK
<1>13. CoverageOK(r.log, g, v, pg)
  <2> SUFFICES ASSUME NEW i \in 1..Len(r.log), ~LateIn(r.log, i), at(i) \notin pg.shown
               PROVE  /\ Before(LastOf(pg), at(i))
                      /\ \/ Before(c, at(i))
                         \/ \E k \in 1..Len(v) : v[k] = Frame(at(i))
    BY <1>6 DEF CoverageOK, at
  <2>1. /\ Before(LastOf(pg), at(i))
        /\ \/ Before(h.cursor, at(i))
           \/ \E k \in 1..Len(w) : w[k] = Frame(at(i))
    BY <1>9 DEF CoverageOK, at
  <2>2. ASSUME NEW k \in 1..Len(w), w[k] = Frame(at(i))
        PROVE  \E l \in 1..Len(v) : v[l] = Frame(at(i))
    BY <1>1, <1>3, <1>8, <2>2
  <2>3. ASSUME Before(h.cursor, at(i)), ~Before(c, at(i))
        PROVE  \E l \in 1..Len(v) : v[l] = Frame(at(i))
    <3>1. n # 0
      BY <1>7, <2>3
    <3>2. ~ \A k \in 1..n : Before(events[k], at(i))
      BY <1>7, <2>3, <3>1
    <3>3. PICK k \in 1..n : events[k] = at(i)
      BY <1>3, <2>3, <3>2
    <3>4. Len(w) + k \in 1..Len(v)
      BY <1>1, <1>3, <1>8
    <3> QED
      BY <1>8, <3>3, <3>4
  <2> QED
    BY <2>1, <2>2, <2>3
<1>14. RoundOK(r.log, r.status, g)
  <2>1. g.pc = "drained" /\ ~g.wrote => \A i \in 1..Len(r.log) : ~Before(c, at(i))
    BY <1>2, <1>3, <1>6, <1>7
  <2> QED
    BY <1>6, <1>9, <2>1 DEF RoundOK, at
<1>15. WireOK(g, v, pg)
  <2>1. \A k \in 1..Len(w) : w[k].done = "none"
    BY <1>9 DEF DoneOK
  <2>2. ASSUME NEW k \in 1..Len(w)
        PROVE  /\ Before(LastOf(pg), v[k].at) /\ ~Before(c, v[k].at)
               /\ ~Before(h.cursor, v[k].at)
               /\ \A j \in 1..(k - 1) : Before(v[j].at, v[k].at)
    <3>1. \A j \in 1..(k - 1) : j \in 1..Len(w)
      BY <1>1
    <3> QED
      BY <1>1, <1>8, <1>9, <1>10, <2>1, <3>1 DEF WireOK
  <2>3. ASSUME NEW l \in 1..n
        PROVE  /\ Before(LastOf(pg), events[l]) /\ ~Before(c, events[l])
               /\ \A j \in 1..(Len(w) + l - 1) : Before(v[j].at, events[l])
    <3>1. Before(LastOf(pg), events[l])
      BY <1>1, <1>3, <1>5, <1>11, BeforeTransitive
    <3>2. ~Before(c, events[l])
      <4>1. CASE l = n
        BY <1>5, <1>7, <4>1, BeforeIsOrder
      <4>2. CASE l # n
        <5>1. n \in 1..n /\ l \in 1..(n - 1) /\ c = events[n]
          BY <1>3, <1>7, <4>2
        <5> QED
          BY <1>3, <1>5, <5>1, BeforeIsOrder
      <4> QED
        BY <4>1, <4>2
    <3>3. ASSUME NEW j \in 1..(Len(w) + l - 1) PROVE Before(v[j].at, events[l])
      <4>1. CASE j \in 1..Len(w)
        <5>1. v[j].at \in Positions /\ ~Before(h.cursor, v[j].at)
          BY <1>1, <1>8, <2>2, <4>1
        <5> QED
          BY <1>1, <1>3, <1>5, <5>1, BeforeTransitive
      <4>2. CASE j \notin 1..Len(w)
        <5>1. j - Len(w) \in 1..(l - 1) /\ j - Len(w) \in 1..n
              /\ v[j] = v[Len(w) + (j - Len(w))]
          BY <1>1, <1>3, <4>2
        <5>2. v[j] = Frame(events[j - Len(w)])
          BY <1>8, <5>1
        <5> QED
          BY <1>3, <5>1, <5>2 DEF Frame
      <4> QED
        BY <4>1, <4>2
    <3> QED
      BY <3>1, <3>2, <3>3
  <2>4. ASSUME NEW k \in 1..Len(v)
        PROVE  /\ Before(LastOf(pg), v[k].at) /\ ~Before(c, v[k].at)
               /\ \A j \in 1..(k - 1) : Before(v[j].at, v[k].at)
    <3>1. CASE k \in 1..Len(w)
      BY <2>2, <3>1
    <3>2. CASE k \notin 1..Len(w)
      <4>1. k - Len(w) \in 1..n /\ k = Len(w) + (k - Len(w))
        BY <1>1, <1>3, <1>8, <3>2
      <4>2. PICK l \in 1..n : k = Len(w) + l
        BY <4>1
      <4>3. v[k].at = events[l]
        <5>1. v[Len(w) + l] = Frame(events[l])
          BY <1>8
        <5> QED
          BY <4>2, <5>1 DEF Frame
      <4>4. k - 1 = Len(w) + l - 1
        BY <1>1, <1>3, <4>2
      <4> QED
        BY <2>3, <4>3, <4>4
    <3> QED
      BY <3>1, <3>2
  <2> QED
    BY <1>6, <2>4 DEF WireOK
<1>16. DoneOK(g, v)
  <2>1. ASSUME NEW k \in 1..Len(v) PROVE v[k].done = "none"
    <3>1. CASE k \in 1..Len(w)
      BY <1>8, <1>9, <3>1 DEF DoneOK
    <3>2. CASE k \notin 1..Len(w)
      <4>1. k - Len(w) \in 1..n /\ k = Len(w) + (k - Len(w))
        BY <1>1, <1>3, <1>8, <3>2
      <4>2. v[k] = Frame(events[k - Len(w)])
        BY <1>8, <4>1
      <4> QED
        BY <4>2 DEF Frame
    <3> QED
      BY <3>1, <3>2
  <2> QED
    BY <2>1 DEF DoneOK
<1> QED
  BY <1>1, <1>6, <1>8, <1>9, <1>12, <1>13, <1>14, <1>15, <1>16 DEF StreamOK
\* The page is given the next event.
LEMMA ReceiveEventKeeps ==
  ASSUME NEW r, NEW h, NEW w, NEW pg, RowInv(r), StreamOK(r, h, w, pg),
         pg.source = "open", w # << >>, w[1].done = "none",
         NEW q, q = [pg EXCEPT !.header = w[1].at, !.shown = @ \cup {w[1].at}]
  PROVE  StreamOK(r, h, Tail(w), q)
<1> DEFINE at(i) == PositionIn(r.log, i)
           new == w[1].at
           v == Tail(w)
<1>1. /\ RowOK(r) /\ h \in Requests /\ w \in Seq(Frames) /\ pg \in Pages
      /\ Len(w) \in Nat /\ h.cursor \in Positions /\ LastOf(pg) \in Positions
      /\ \A k \in 1..Len(w) : w[k].at \in Positions
  BY StreamTypes
<1>2. /\ Len(w) >= 1 /\ new \in Positions
      /\ v \in Seq(Frames) /\ Len(v) = Len(w) - 1
      /\ \A k \in 1..(Len(w) - 1) : v[k] = w[k + 1]
  BY <1>1
<1>3. /\ ConnectionOK(r.log, h, w, pg) /\ CoverageOK(r.log, h, w, pg)
      /\ WireOK(h, w, pg) /\ DoneOK(h, w) /\ EndOK(r.log, r.status, pg)
      /\ RoundOK(r.log, r.status, h)
  BY DEF StreamOK
<1>4. h.pc # "none"
  BY <1>3 DEF ConnectionOK
<1>5. Before(LastOf(pg), new) /\ ~Before(h.cursor, new)
  BY <1>2, <1>3 DEF WireOK
<1>6. new # Start
  BY <1>1, <1>5, BeforeIsOrder
<1>7. /\ q \in Pages /\ q.source = "open" /\ q.shown = pg.shown \cup {new}
      /\ LastOf(q) = new
  BY <1>1, <1>2, <1>6 DEF Pages, LastOf
<1>8. \A i \in 1..Len(r.log) : at(i) \in Positions
  BY <1>1, PositionsOf
<1>9. /\ DoneOK(h, v) /\ EndOK(r.log, r.status, q)
  BY <1>2, <1>3, <1>7 DEF DoneOK, EndOK
<1>10. WireOK(h, v, q)
  <2> SUFFICES ASSUME NEW k \in 1..Len(v), v[k].done = "none"
               PROVE  /\ Before(new, v[k].at) /\ ~Before(h.cursor, v[k].at)
                      /\ \A j \in 1..(k - 1) : Before(v[j].at, v[k].at)
    BY <1>7 DEF WireOK
  <2>1. k + 1 \in 1..Len(w) /\ v[k] = w[k + 1] /\ 1 \in 1..(k + 1 - 1)
    BY <1>1, <1>2
  <2>2. /\ ~Before(h.cursor, w[k + 1].at)
        /\ \A j \in 1..(k + 1 - 1) : Before(w[j].at, w[k + 1].at)
    BY <1>3, <2>1 DEF WireOK
  <2>3. \A j \in 1..(k - 1) : j + 1 \in 1..(k + 1 - 1) /\ v[j] = w[j + 1]
    BY <1>1, <1>2
  <2> QED
    BY <2>1, <2>2, <2>3
<1>11. ConnectionOK(r.log, h, v, q)
  <2>1. \A k \in 1..Len(v) : k + 1 \in 1..Len(w) /\ v[k] = w[k + 1]
    BY <1>1, <1>2
  <2>2. Known(r.log, new) /\ Known(r.log, h.cursor)
    BY <1>2, <1>3 DEF ConnectionOK
  <2> QED
    BY <1>3, <1>4, <1>5, <1>7, <2>1, <2>2 DEF ConnectionOK
<1>12. CoverageOK(r.log, h, v, q)
  <2> SUFFICES ASSUME NEW i \in 1..Len(r.log), ~LateIn(r.log, i), at(i) \notin q.shown
               PROVE  /\ Before(new, at(i))
                      /\ \/ Before(h.cursor, at(i))
                         \/ \E k \in 1..Len(v) : v[k] = Frame(at(i))
    BY <1>4, <1>7 DEF CoverageOK
  <2>1. /\ at(i) # new
        /\ \/ Before(h.cursor, at(i))
           \/ \E k \in 1..Len(w) : w[k] = Frame(at(i))
    BY <1>3, <1>4, <1>7 DEF CoverageOK
  <2>2. CASE Before(h.cursor, at(i))
    BY <1>1, <1>2, <1>5, <1>8, <2>2, BeforeTransitive
  <2>3. ASSUME NEW k \in 1..Len(w), w[k] = Frame(at(i))
        PROVE  Before(new, at(i)) /\ \E l \in 1..Len(v) : v[l] = Frame(at(i))
    <3>1. w[k].at = at(i) /\ w[k].done = "none"
      BY <2>3 DEF Frame
    <3>2. k # 1
      BY <2>1, <3>1
    <3>3. 1 \in 1..(k - 1) /\ k - 1 \in 1..Len(v) /\ v[k - 1] = w[k - 1 + 1] /\ k - 1 + 1 = k
      BY <1>1, <1>2, <3>2
    <3> QED
      BY <1>3, <2>3, <3>1, <3>3 DEF WireOK
  <2> QED
    BY <2>1, <2>2, <2>3
<1> QED
  BY <1>1, <1>2, <1>3, <1>7, <1>9, <1>10, <1>11, <1>12 DEF StreamOK

\* The page is told that the task is done: it closes.
LEMMA ReceiveDoneKeeps ==
  ASSUME NEW r, NEW h, NEW w, NEW pg, RowInv(r), StatusInOrder(r.log),
         StreamOK(r, h, w, pg), pg.source = "open", w # << >>, w[1].done # "none",
         NEW q, q = [pg EXCEPT !.source = "closed", !.final = w[1].done]
  PROVE  StreamOK(r, NoRequest, << >>, q)
<1> DEFINE at(i) == PositionIn(r.log, i)
<1>1. /\ RowOK(r) /\ h \in Requests /\ w \in Seq(Frames) /\ pg \in Pages
      /\ Len(w) \in Nat /\ w[1] \in Frames /\ Len(w) >= 1 /\ 1 \in 1..Len(w)
  BY StreamTypes
<1>2. /\ ConnectionOK(r.log, h, w, pg) /\ CoverageOK(r.log, h, w, pg)
      /\ DoneOK(h, w) /\ RoundOK(r.log, r.status, h)
  BY DEF StreamOK
<1>3. /\ Len(w) = 1 /\ h.pc = "returned" /\ ~h.wrote
      /\ Terminal(h.status) /\ w[1].done = h.status
  BY <1>1, <1>2 DEF DoneOK
<1>4. /\ q \in Pages /\ q.source = "closed" /\ q.final = h.status
      /\ q.shown = pg.shown /\ LastOf(q) = LastOf(pg)
  BY <1>1, <1>3 DEF Pages, Sources, LastOf, Requests
<1>5. /\ NoRequest \in Requests /\ NoRequest.pc = "none" /\ NoRequest.cursor = Start
  BY DEF NoRequest, Requests, Start, Positions, AllStatuses, PhasePending
<1>6. << >> \in Seq(Frames) /\ Len(<< >>) = 0
  OBVIOUS
<1>7. ConnectionOK(r.log, NoRequest, << >>, q)
  BY <1>2, <1>4, <1>5, <1>6 DEF ConnectionOK, Known
<1>8. CoverageOK(r.log, NoRequest, << >>, q)
  BY <1>2, <1>4, <1>5 DEF CoverageOK
<1>9. RoundOK(r.log, r.status, NoRequest)
  BY <1>5 DEF RoundOK
<1>10. WireOK(NoRequest, << >>, q) /\ DoneOK(NoRequest, << >>)
  BY <1>6 DEF WireOK, DoneOK
<1>11. EndOK(r.log, r.status, q)
  <2>1. r.status = h.status
    BY <1>2, <1>3 DEF RoundOK
  <2>2. ASSUME NEW i \in 1..Len(r.log), r.log[i].type \in AllStatuses
        PROVE  at(i) \in pg.shown
    <3>1. ~LateIn(r.log, i)
      BY <2>2 DEF StatusInOrder
    <3>2. ~Before(h.cursor, at(i))
      BY <1>2, <1>3, <2>2 DEF RoundOK
    <3>3. \A k \in 1..Len(w) : w[k] # Frame(at(i))
      BY <1>3 DEF Frame
    <3> QED
      BY <1>2, <1>3, <3>1, <3>2, <3>3 DEF CoverageOK
  <2> QED
    BY <1>3, <1>4, <2>1, <2>2 DEF EndOK
<1> QED
  BY <1>4, <1>5, <1>6, <1>7, <1>8, <1>9, <1>10, <1>11 DEF StreamOK
\* The store writes nothing but what a reader may see written.
LEMMA StoreReadStep ==
  ASSUME DOMAIN tasks = {Streamed}, RowInv(Row1), StatusInOrder(Row1.log),
         StatusChanges \/ EventAppended
  PROVE  DOMAIN tasks' = {Streamed} /\ ReadStep(Row1, Row1')
<1>1. ASSUME NEW s, Put(Streamed, s), ReadStep(Row1, s)
      PROVE  DOMAIN tasks' = {Streamed} /\ ReadStep(Row1, Row1')
  <2>1. tasks' = [u \in {Streamed} |-> s]
    BY <1>1 DEF Put
  <2>2. DOMAIN tasks' = {Streamed} /\ tasks'[Streamed] = s
    BY <2>1
  <2>3. Row1' = s
    BY <2>2 DEF Row1
  <2> QED
    BY <1>1, <2>2, <2>3
<1>2. Row1 = tasks[Streamed]
  BY DEF Row1
<1>3. ASSUME NEW to \in Targets, Transition(Streamed, to, NoKey, 0)
      PROVE  DOMAIN tasks' = {Streamed} /\ ReadStep(Row1, Row1')
  <2>1. to \in AllStatuses
    BY StreamAssumption
  <2> QED
    BY <1>1, <1>2, <1>3, <2>1, TransitionRead DEF Transition
<1>4. ASSUME NEW key \in Keys, NEW comment \in Values, NEW base \in Values,
             RequestRevision(Streamed, key, comment, base)
      PROVE  DOMAIN tasks' = {Streamed} /\ ReadStep(Row1, Row1')
  BY <1>1, <1>2, <1>4, RevisionRead DEF RequestRevision
<1>5. ASSUME Cancel(Streamed)
      PROVE  DOMAIN tasks' = {Streamed} /\ ReadStep(Row1, Row1')
  <2>1. "cancelled" \in AllStatuses
    BY DEF AllStatuses, PhaseTerminal
  <2> QED
    BY <1>1, <1>2, <1>5, <2>1, TransitionRead DEF Cancel
<1>6. ASSUME NEW a \in DOMAIN Row1.attempts, AppendAttemptEvent(Streamed, a)
      PROVE  DOMAIN tasks' = {Streamed} /\ ReadStep(Row1, Row1')
  BY <1>1, <1>2, <1>6, NoteRead DEF AppendAttemptEvent
<1>7. ASSUME AppendEvent(Streamed)
      PROVE  DOMAIN tasks' = {Streamed} /\ ReadStep(Row1, Row1')
  <2>1. ActiveAttempt(Row1) \in DOMAIN Row1.attempts
    BY <1>2, <1>7 DEF AppendEvent, ActiveAttempt, ActiveAttempts
  <2> QED
    BY <1>1, <1>2, <1>7, <2>1, NoteRead DEF AppendEvent
<1> QED
  BY <1>3, <1>4, <1>5, <1>6, <1>7 DEF StatusChanges, EventAppended

StreamInv ==
  /\ DOMAIN tasks = {Streamed} /\ RowInv(Row1) /\ StatusInOrder(Row1.log)
  /\ StreamOK(Row1, handler, wire, page)

LEMMA StreamStep ==
  ASSUME StreamInv, StreamNext
  PROVE  StreamInv'
<1> DEFINE r == Row1
<1>1. /\ DOMAIN tasks = {Streamed} /\ RowInv(r) /\ StatusInOrder(r.log)
      /\ StreamOK(r, handler, wire, page)
  BY DEF StreamInv
<1>2. CASE StatusChanges \/ EventAppended
  <2>1. DOMAIN tasks' = {Streamed} /\ ReadStep(r, r')
    BY <1>1, <1>2, StoreReadStep
  <2>2. handler' = handler /\ wire' = wire /\ page' = page
    BY <1>2 DEF StatusChanges, EventAppended, streamVars
  <2>3. StreamOK(r', handler', wire', page')
    BY <1>1, <2>1, <2>2, WriteKeepsStream
  <2> QED
    BY <2>1, <2>3 DEF StreamInv, ReadStep, RowStep
<1>3. ASSUME tasks' = tasks, StreamOK(r, handler', wire', page')
      PROVE  StreamInv'
  <2>1. r' = r
    BY <1>3 DEF Row1
  <2> QED
    BY <1>1, <1>3, <2>1 DEF StreamInv
<1> HIDE DEF r
<1>4. CASE Connect
  <2>1. /\ page.source = "connecting" /\ handler.pc = "none" /\ tasks' = tasks /\ wire' = wire
        /\ handler' = [pc |-> "drain", cursor |-> LastOf(page), status |-> r.status, wrote |-> FALSE]
        /\ page' = [page EXCEPT !.source = "open"]
    BY <1>4 DEF Connect, requestCursor, LastOf, r
  <2> QED
    BY <1>1, <1>3, <2>1, ConnectKeeps
<1>5. CASE Drain
  <2>1. PICK events \in EventsAfter(handler.cursor, BatchLimit) :
          wire' = BatchWritten(wire, events) /\ handler' = CursorMoved(handler, events)
    BY <1>5 DEF Drain, BatchWritten, CursorMoved
  <2>2. handler.pc = "drain" /\ tasks' = tasks /\ page' = page
    BY <1>5 DEF Drain
  <2>3. StreamOK(r, handler', wire', page)
    BY <1>1, <2>1, <2>2, DrainKeeps DEF r
  <2> QED
    BY <1>3, <2>2, <2>3
<1>6. CASE RoundEnds
  <2>1. handler.pc = "drained" /\ tasks' = tasks /\ page' = page
    BY <1>6 DEF RoundEnds
  <2>2. CASE Terminal(handler.status) /\ ~handler.wrote
    <3>1. /\ wire' = Append(wire, DoneFrame(handler.status))
          /\ handler' = [handler EXCEPT !.pc = "returned"]
      BY <1>6, <2>2 DEF RoundEnds
    <3> QED
      BY <1>1, <1>3, <2>1, <2>2, <3>1, DoneKeeps
  <2>3. CASE ~(Terminal(handler.status) /\ ~handler.wrote)
    <3>1. wire' = wire /\ handler' = [handler EXCEPT !.pc = "wait"]
      BY <1>6, <2>3 DEF RoundEnds
    <3> QED
      BY <1>1, <1>3, <2>1, <3>1, WaitKeeps
  <2> QED
    BY <2>2, <2>3
<1>7. CASE Tick
  <2>1. /\ handler.pc = "wait" /\ tasks' = tasks /\ wire' = wire /\ page' = page
        /\ handler' = [handler EXCEPT !.pc = "drain", !.status = r.status, !.wrote = FALSE]
    BY <1>7 DEF Tick, r
  <2> QED
    BY <1>1, <1>3, <2>1, TickKeeps
<1>8. CASE Drop
  <2>1. tasks' = tasks /\ handler' = NoRequest /\ wire' = << >>
    BY <1>8 DEF Drop
  <2>2. PICK src \in {"connecting", "gave_up"} : page' = [page EXCEPT !.source = src]
    BY <1>8 DEF Drop
  <2> QED
    BY <1>1, <1>3, <2>1, <2>2, DropKeeps
<1>9. CASE Receive
  <2>1. page.source = "open" /\ wire # << >> /\ tasks' = tasks
    BY <1>9 DEF Receive
  <2>0. Head(wire) = wire[1]
    BY <1>1, <2>1, StreamTypes
  <2>2. CASE wire[1].done # "none"
    <3>1. /\ page' = [page EXCEPT !.source = "closed", !.final = wire[1].done]
          /\ handler' = NoRequest /\ wire' = << >>
      BY <1>9, <2>0, <2>2 DEF Receive
    <3> QED
      BY <1>1, <1>3, <2>1, <2>2, <3>1, ReceiveDoneKeeps
  <2>3. CASE wire[1].done = "none"
    <3>1. /\ page' = [page EXCEPT !.header = wire[1].at, !.shown = @ \cup {wire[1].at}]
          /\ handler' = handler /\ wire' = Tail(wire)
      BY <1>9, <2>0, <2>3 DEF Receive
    <3> QED
      BY <1>1, <1>3, <2>1, <2>3, <3>1, ReceiveEventKeeps
  <2> QED
    BY <2>2, <2>3
<1>10. CASE Reopen
  <2>1. /\ page.source = "gave_up" /\ tasks' = tasks /\ handler' = handler /\ wire' = wire
        /\ page' = [page EXCEPT !.source = "connecting", !.url = LastOf(page), !.header = Start]
    BY <1>10 DEF Reopen, LastCursor, LastOf
  <2> QED
    BY <1>1, <1>3, <2>1, ReopenKeeps
<1> QED
  BY <1>2, <1>4, <1>5, <1>6, <1>7, <1>8, <1>9, <1>10 DEF StreamNext

\* Connected or not, the page, the request and the frames between them account
\* for every event that did not come late.
THEOREM StreamInvariant == StreamSpec => []StreamInv
<1>1. StreamInit => StreamInv
  BY StreamInitOK DEF StreamInv
<1>2. StreamInv /\ [StreamNext]_allVars => StreamInv'
  <2>1. StreamInv /\ UNCHANGED allVars => StreamInv'
    BY DEF StreamInv, allVars, Row1
  <2> QED
    BY <2>1, StreamStep
<1> QED
  BY <1>1, <1>2, PTL DEF StreamSpec

\* EventsAfter, streamDrain and useTaskStream.ts: whatever the page was shown
\* last, it was shown every event up to there that did not come late, across
\* batches, broken connections and revisions.
THEOREM NothingIsSkipped == StreamSpec => []NothingSkipped
<1>1. StreamInv => NothingSkipped
  <2> SUFFICES ASSUME StreamInv, NEW i \in DOMAIN Row1.log
               PROVE  \/ Position(i) \in page.shown
                      \/ Before(LastCursor, Position(i))
                      \/ Late(i)
    BY DEF NothingSkipped
  <2> DEFINE r == Row1
  <2>1. RowOK(r) /\ CoverageOK(r.log, handler, wire, page)
    BY DEF StreamInv, StreamOK, RowInv
  <2>2. /\ DOMAIN r.log = 1..Len(r.log) /\ Len(r.log) \in Nat
        /\ \A j \in 1..Len(r.log) : Position(j) = PositionIn(r.log, j)
    BY <2>1, PositionsOf DEF Position
  <2>3. LateIn(r.log, i) => Late(i)
    <3> SUFFICES ASSUME LateIn(r.log, i) PROVE Late(i)
      OBVIOUS
    <3>1. PICK j \in 1..(i - 1) : r.log[j].attempt > r.log[i].attempt
      BY DEF LateIn
    <3>2. j \in 1..Len(r.log) /\ i \in 1..Len(r.log)
      BY <2>2
    <3> QED
      BY <2>2, <3>1, <3>2 DEF Late, PositionIn
  <2> HIDE DEF r
  <2>4. LastOf(page) = LastCursor
    BY DEF LastOf, LastCursor
  <2> QED
    BY <2>1, <2>2, <2>3, <2>4 DEF CoverageOK, r
<1> QED
  BY <1>1, StreamInvariant, PTL

\* handleTaskStream: a page that was told the task is done shows every status
\* change of it and the status it ended in.
THEOREM DoneIsComplete == StreamSpec => []DoneMeansComplete
<1>1. StreamInv => DoneMeansComplete
  <2> SUFFICES ASSUME StreamInv, page.source = "closed"
               PROVE  /\ page.final = Row1.status
                      /\ \A i \in DOMAIN Row1.log :
                           Row1.log[i].type \in AllStatuses => Position(i) \in page.shown
    BY DEF DoneMeansComplete
  <2> DEFINE r == Row1
  <2>1. RowOK(r) /\ EndOK(r.log, r.status, page)
    BY DEF StreamInv, StreamOK, RowInv
  <2>2. /\ DOMAIN r.log = 1..Len(r.log)
        /\ \A j \in 1..Len(r.log) : Position(j) = PositionIn(r.log, j)
    BY <2>1, PositionsOf DEF Position
  <2> QED
    BY <2>1, <2>2 DEF EndOK
<1> QED
  BY <1>1, StreamInvariant, PTL
=============================================================================
