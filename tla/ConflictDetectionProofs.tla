----------------------- MODULE ConflictDetectionProofs ------------------------
(***************************************************************************)
(* Proofs about ConflictDetection, for every set of tasks, owners, diffs   *)
(* and answers, and for every number of commits and faults.                *)
(***************************************************************************)
EXTENDS ConflictDetection, TLAPS

-----------------------------------------------------------------------------
(* The inductive invariant.                                                *)

CommitsOf == Tasks \X (Nat \ {0})

\* The commit of the newest attempt of a task.
Current(t) == <<t, task[t].attempt>>

InWindow == {"push", "list", "fetch", "lock", "reconcile", "append", "publish"}

Detecting == {"fetch", "lock", "reconcile", "append"}

Stages == {"idle", "record"} \cup InWindow

Fields == {"pc", "commit", "siblings", "dets", "existing"}

TypeOK ==
  /\ task \in [Tasks -> [status : {"publishing", "awaiting_review", "terminal"},
                         attempt : Nat \ {0}, lease : Owners \cup {NoOwner}]]
  /\ DOMAIN own = Owners
  /\ \A o \in Owners : DOMAIN own[o] = Fields /\ own[o].pc \in Stages
  /\ raced \in BOOLEAN

\* Every attempt before the newest left a commit, and a task that waits for its
\* review has one of its newest attempt and no owner.
CommitsOK ==
  /\ final = DOMAIN diff
  /\ \A c \in final : c \in CommitsOf /\ c[2] <= task[c[1]].attempt
  /\ \A t \in Tasks : \A n \in 1..(task[t].attempt - 1) : <<t, n>> \in final
  /\ \A t \in Tasks : task[t].status = "awaiting_review" =>
       Current(t) \in final /\ task[t].lease = NoOwner
  /\ checked \subseteq final \cap pushed

\* The holder of a lease works on the newest attempt; an owner that detects has
\* recorded and pushed its commit.
OwnersOK ==
  /\ \A t \in Tasks : task[t].lease # NoOwner =>
       own[task[t].lease].pc # "idle" /\ own[task[t].lease].commit = Current(t)
  /\ \A o \in Owners : own[o].pc # "idle" =>
       own[o].commit \in CommitsOf /\ own[o].commit[2] <= task[own[o].commit[1]].attempt
  /\ \A o \in Owners : own[o].pc \in InWindow => own[o].commit \in final
  /\ \A o \in Owners : own[o].pc \in InWindow \ {"push"} => own[o].commit \in pushed

\* The listed siblings are recorded commits of other tasks, one of each.
SiblingsOK ==
  \A o \in Owners : own[o].pc = "fetch" =>
    /\ \A e \in own[o].siblings : e \in final /\ e[1] # own[o].commit[1]
    /\ \A e, x \in own[o].siblings : e[1] = x[1] => e = x

CoreInv == TypeOK /\ CommitsOK /\ OwnersOK /\ SiblingsOK

\* The detection that owner o runs will not, or does not any more, warn of e.
Overlooks(o, e) ==
  \/ own[o].pc = "fetch" /\ e \notin own[o].siblings
  \/ /\ own[o].pc \in {"lock", "reconcile", "append"}
     /\ e[1] \in DOMAIN own[o].dets => own[o].dets[e[1]].at # {own[o].commit, e}

\* A detection for c that is under way, or was the last one, says nothing of e.
Blind(c, e) ==
  \/ \E o \in Owners : own[o].commit = c /\ own[o].pc \in Detecting /\ Overlooks(o, e)
  \/ c \in checked /\ <<c, e>> \notin events

\* A commit of the newest attempt of an unfinished task.
Live(c) == task[c[1]].status # "terminal" /\ c[2] = task[c[1]].attempt

\* Of two commits in conflict, never are the detections of both blind.
NeverBothBlind ==
  \A c, e \in final :
    c[1] # e[1] /\ Live(c) /\ Live(e) /\ Expected(c, e) # {} =>
      ~(Blind(c, e) /\ Blind(e, c))

WarnInv == CoreInv /\ NeverBothBlind
-----------------------------------------------------------------------------
(* The parts of the steps.                                                 *)

\* An owner that has pushed, or pushes, its commit goes on with it.
Advances(o) ==
  /\ task' = task /\ diff' = diff /\ final' = final /\ raced' = raced
  /\ pushed \subseteq pushed' /\ own[o].commit \in pushed'
  /\ events \subseteq events'
  /\ checked \subseteq checked' /\ checked' \subseteq checked \cup {own[o].commit}
  /\ DOMAIN own' = Owners /\ DOMAIN own'[o] = Fields
  /\ own[o].pc \in InWindow /\ own'[o].pc \in InWindow \ {"push"}
  /\ own'[o].commit = own[o].commit
  /\ \A p \in Owners \ {o} : own'[p] = own[p]

\* What an owner keeps when it settles at a stage.
LEMMA SettledIs ==
  ASSUME NEW c, NEW pc
  PROVE  /\ DOMAIN Settled(c, pc) = Fields
         /\ Settled(c, pc).pc = pc /\ Settled(c, pc).commit = c
         /\ Settled(c, pc).existing = {} /\ Settled(c, pc).siblings = {}
         /\ \A ds : LET s == [Settled(c, pc) EXCEPT !.dets = ds]
                    IN /\ DOMAIN s = Fields /\ s.pc = pc /\ s.commit = c
                       /\ s.dets = ds /\ s.existing = {}
BY DEF Settled, Idle, Fields

LEMMA PushAdvances ==
  ASSUME CoreInv, NEW o \in Owners, Push(o)
  PROVE  Advances(o) /\ own'[o].pc = "list"
BY DEF Push, At, GoTo, Advances, CoreInv, TypeOK, InWindow, Fields

LEMMA ActiveSiblingsAdvances ==
  ASSUME CoreInv, NEW o \in Owners, ActiveSiblings(o)
  PROVE  Advances(o)
<1>1. own[o].commit \in pushed
  BY DEF ActiveSiblings, At, CoreInv, OwnersOK, InWindow
<1> QED
  BY <1>1 DEF ActiveSiblings, At, Advances, CoreInv, TypeOK, InWindow, Fields

LEMMA CompareAdvances ==
  ASSUME CoreInv, NEW o \in Owners, Compare(o)
  PROVE  Advances(o) /\ own'[o].pc \in {"publish", "lock"}
<1>1. own[o].commit \in pushed /\ own[o].pc = "fetch"
  BY DEF Compare, At, CoreInv, OwnersOK, InWindow
<1>2. UNCHANGED <<task, diff, final, pushed, rows, events, checked, raced, faults>>
  BY DEF Compare
<1>3. \/ own' = [own EXCEPT ![o] = Settled(own[o].commit, "publish")]
      \/ \E ds : own' = [own EXCEPT ![o] = [Settled(own[o].commit, "lock") EXCEPT !.dets = ds]]
  BY Zenon DEF Compare
<1>4. CASE own' = [own EXCEPT ![o] = Settled(own[o].commit, "publish")]
  BY <1>1, <1>2, <1>4, SettledIs DEF Advances, CoreInv, TypeOK, InWindow
<1>5. ASSUME NEW ds,
             own' = [own EXCEPT ![o] = [Settled(own[o].commit, "lock") EXCEPT !.dets = ds]]
      PROVE  Advances(o) /\ own'[o].pc \in {"publish", "lock"}
  BY <1>1, <1>2, <1>5, SettledIs DEF Advances, CoreInv, TypeOK, InWindow
<1> QED
  BY <1>3, <1>4, <1>5

LEMMA LockPairsAdvances ==
  ASSUME CoreInv, NEW o \in Owners, LockPairs(o)
  PROVE  Advances(o) /\ own'[o].pc = "reconcile" /\ own'[o].dets = own[o].dets
<1>1. own[o].commit \in pushed
  BY DEF LockPairs, At, CoreInv, OwnersOK, InWindow
<1> QED
  BY <1>1 DEF LockPairs, At, Advances, CoreInv, TypeOK, InWindow, Fields

LEMMA ReconcileAdvances ==
  ASSUME CoreInv, NEW o \in Owners, Reconcile(o)
  PROVE  /\ Advances(o)
         /\ \/ own'[o].pc = "append" /\ own'[o].dets = own[o].dets
            \/ own'[o].pc = "publish"
<1>1. own[o].commit \in pushed /\ own[o].pc = "reconcile"
  BY DEF Reconcile, At, CoreInv, OwnersOK, InWindow
<1>2. UNCHANGED <<task, diff, final, pushed, events, checked, raced, faults>>
  BY DEF Reconcile
<1>3. \/ own' = [own EXCEPT ![o] = Settled(own[o].commit, "publish")]
      \/ own' = [own EXCEPT ![o].pc = "append", ![o].existing = {}]
  BY Zenon DEF Reconcile
<1>4. CASE own' = [own EXCEPT ![o] = Settled(own[o].commit, "publish")]
  BY <1>1, <1>2, <1>4, SettledIs DEF Advances, CoreInv, TypeOK, InWindow
<1>5. CASE own' = [own EXCEPT ![o].pc = "append", ![o].existing = {}]
  BY <1>1, <1>2, <1>5 DEF Advances, CoreInv, TypeOK, InWindow, Fields
<1> QED
  BY <1>3, <1>4, <1>5

LEMMA CallFailsAdvances ==
  ASSUME CoreInv, NEW o \in Owners, CallFails(o)
  PROVE  Advances(o) /\ own'[o].pc = "publish"
<1>1. own[o].commit \in pushed
  BY DEF CallFails, CoreInv, OwnersOK, InWindow
<1> QED
  BY <1>1, SettledIs DEF CallFails, Advances, CoreInv, TypeOK, InWindow

LEMMA AppendDetectedAdvances ==
  ASSUME CoreInv, NEW o \in Owners, AppendDetected(o)
  PROVE  /\ Advances(o) /\ own[o].pc = "append"
         /\ \/ own'[o].pc = "publish"
            \/ own' = own /\ checked' = checked
<1>1. own[o].commit \in pushed /\ own[o].pc = "append"
  BY DEF AppendDetected, At, CoreInv, OwnersOK, InWindow
<1>2. UNCHANGED <<task, diff, final, pushed, rows, raced, faults>> /\ events \subseteq events'
  BY DEF AppendDetected
<1>3. \/ /\ own' = [own EXCEPT ![o] = Settled(own[o].commit, "publish")]
         /\ checked' = checked \cup {own[o].commit}
      \/ own' = own /\ checked' = checked
  BY Zenon DEF AppendDetected
<1> QED
  BY <1>1, <1>2, <1>3, SettledIs DEF Advances, CoreInv, TypeOK, InWindow
-----------------------------------------------------------------------------
(* CoreInv is inductive.                                                   *)

LEMMA InitCore == Init => CoreInv
<1> SUFFICES ASSUME Init PROVE CoreInv
  OBVIOUS
<1>1. TypeOK
  <2>1. DOMAIN Idle = Fields /\ Idle.pc = "idle"
    BY DEF Idle, Fields
  <2>2. /\ raced = FALSE /\ own = [o \in Owners |-> Idle]
        /\ task = [t \in Tasks |-> [status |-> "publishing", attempt |-> 1, lease |-> NoOwner]]
    BY DEF Init
  <2>3. task \in [Tasks -> [status : {"publishing", "awaiting_review", "terminal"},
                            attempt : Nat \ {0}, lease : Owners \cup {NoOwner}]]
    BY <2>2
  <2>4. /\ DOMAIN own = Owners /\ raced \in BOOLEAN
        /\ \A o \in Owners : DOMAIN own[o] = Fields /\ own[o].pc \in Stages
    BY <2>1, <2>2 DEF Stages
  <2> QED
    BY <2>3, <2>4 DEF TypeOK
<1>2. DOMAIN << >> = {}
  OBVIOUS
<1>3. CommitsOK
  BY <1>2 DEF Init, CommitsOK
<1>4. OwnersOK /\ SiblingsOK
  BY DEF Init, OwnersOK, SiblingsOK, Idle, InWindow
<1> QED
  BY <1>1, <1>3, <1>4 DEF CoreInv

\* An owner that goes on keeps the invariant, if what it lists is in order.
LEMMA AdvancesCore ==
  ASSUME CoreInv, NEW o \in Owners, Advances(o),
         own'[o].pc = "fetch" =>
           /\ \A e \in own'[o].siblings : e \in final /\ e[1] # own[o].commit[1]
           /\ \A e, x \in own'[o].siblings : e[1] = x[1] => e = x
  PROVE  CoreInv'
<1>1. own[o].commit \in final /\ own[o].commit \in CommitsOf
  BY DEF CoreInv, OwnersOK, CommitsOK, Advances
<1>2. TypeOK'
  BY DEF CoreInv, TypeOK, Advances, Stages
<1>3. CommitsOK'
  BY <1>1 DEF CoreInv, CommitsOK, Advances, Current
<1>4. OwnersOK'
  <2>1. own[o].pc # "idle" /\ own'[o].pc # "idle"
    BY DEF Advances, InWindow
  <2>2. \A p \in Owners : own'[p].commit = own[p].commit
    BY DEF Advances
  <2>3. \A p \in Owners : own'[p].pc # "idle" <=> own[p].pc # "idle"
    BY <2>1 DEF Advances
  <2>4. \A p \in Owners : own'[p].pc \in InWindow => own[p].pc \in InWindow
    BY DEF Advances
  <2>5. \A p \in Owners : own'[p].pc \in InWindow \ {"push"} => own'[p].commit \in pushed'
    BY DEF CoreInv, OwnersOK, Advances
  <2>6. \A t \in Tasks : task[t].lease # NoOwner => task[t].lease \in Owners
    BY DEF CoreInv, TypeOK
  <2> QED
    BY <2>2, <2>3, <2>4, <2>5, <2>6 DEF CoreInv, OwnersOK, Advances, Current
<1>5. SiblingsOK'
  BY DEF CoreInv, SiblingsOK, Advances
<1> QED
  BY <1>2, <1>3, <1>4, <1>5 DEF CoreInv

LEMMA ClaimCore ==
  ASSUME CoreInv, NEW o \in Owners, NEW t \in Tasks, Claim(o, t)
  PROVE  CoreInv'
<1>1. /\ own[o].pc = "idle" /\ own' = [own EXCEPT ![o] =
           [Idle EXCEPT !.pc = "record", !.commit = <<t, task[t].attempt>>]]
      /\ task' = [task EXCEPT ![t].lease = o]
      /\ task[t].status = "publishing" /\ task[t].lease = NoOwner
      /\ UNCHANGED <<diff, final, pushed, rows, events, checked, raced, faults>>
  BY DEF Claim, At
<1>2. /\ DOMAIN own' = Owners /\ DOMAIN own'[o] = Fields
      /\ own'[o].pc = "record" /\ own'[o].commit = Current(t)
      /\ \A p \in Owners \ {o} : own'[p] = own[p]
  BY <1>1 DEF CoreInv, TypeOK, Idle, Fields, Current
<1>3. /\ \A u \in Tasks : task'[u].attempt = task[u].attempt /\ task'[u].status = task[u].status
      /\ task'[t].lease = o /\ \A u \in Tasks \ {t} : task'[u] = task[u]
  BY <1>1 DEF CoreInv, TypeOK
<1>4. TypeOK'
  BY <1>1, <1>2 DEF CoreInv, TypeOK, Stages
<1>5. \A u \in Tasks : Current(u)' = Current(u)
  BY <1>3 DEF Current
<1>6. CommitsOK'
  BY <1>1, <1>3, <1>5 DEF CoreInv, CommitsOK
<1>7. \A u \in Tasks \ {t} : task[u].lease # o
  BY <1>1, ConflictAssumption DEF CoreInv, OwnersOK
<1>8. Current(t) \in CommitsOf /\ Current(t)[1] = t /\ Current(t)[2] = task[t].attempt
  BY DEF CoreInv, TypeOK, Current, CommitsOf
<1>9. \A u \in Tasks : task'[u].lease # NoOwner =>
        own'[task'[u].lease].pc # "idle" /\ own'[task'[u].lease].commit = Current(u)
  BY <1>2, <1>3, <1>7 DEF CoreInv, TypeOK, OwnersOK
<1>10. OwnersOK'
  <2>1. \A p \in Owners : own'[p].pc # "idle" =>
          own'[p].commit \in CommitsOf /\ own'[p].commit[2] <= task[own'[p].commit[1]].attempt
    BY <1>2, <1>8 DEF CoreInv, TypeOK, OwnersOK
  <2>2. \A p \in Owners : own'[p].pc # "idle" => own'[p].commit[1] \in Tasks
    BY <2>1 DEF CommitsOf
  <2>3. \A p \in Owners : own'[p].pc \in InWindow =>
          own'[p].commit \in final /\ (own'[p].pc # "push" => own'[p].commit \in pushed)
    BY <1>2 DEF CoreInv, OwnersOK, InWindow
  <2> QED
    BY <1>1, <1>3, <1>5, <1>9, <2>1, <2>2, <2>3 DEF OwnersOK
<1>11. SiblingsOK'
  BY <1>1, <1>2 DEF CoreInv, SiblingsOK
<1> QED
  BY <1>4, <1>6, <1>10, <1>11 DEF CoreInv

LEMMA LeaseLapsesCore ==
  ASSUME CoreInv, NEW t \in Tasks, LeaseLapses(t)
  PROVE  CoreInv'
<1>1. /\ task' = [task EXCEPT ![t].lease = NoOwner]
      /\ UNCHANGED <<diff, final, pushed, own, rows, events, checked, raced>>
  BY DEF LeaseLapses
<1>2. /\ \A u \in Tasks : task'[u].attempt = task[u].attempt /\ task'[u].status = task[u].status
      /\ task'[t].lease = NoOwner /\ \A u \in Tasks \ {t} : task'[u] = task[u]
  BY <1>1 DEF CoreInv, TypeOK
<1>3. \A u \in Tasks : Current(u)' = Current(u)
  BY <1>2 DEF Current
<1>4. TypeOK'
  BY <1>1 DEF CoreInv, TypeOK
<1>5. CommitsOK'
  BY <1>1, <1>2, <1>3 DEF CoreInv, CommitsOK
<1>6. OwnersOK'
  <2>1. \A o \in Owners : own[o].pc # "idle" => own[o].commit[1] \in Tasks
    BY DEF CoreInv, OwnersOK, CommitsOf
  <2> QED
    BY <1>1, <1>2, <1>3, <2>1 DEF CoreInv, OwnersOK
<1>7. SiblingsOK'
  BY <1>1 DEF CoreInv, SiblingsOK
<1> QED
  BY <1>4, <1>5, <1>6, <1>7 DEF CoreInv

\* Only the leases of the owner end, and only its own work is forgotten.
LEMMA StopsEffect ==
  ASSUME CoreInv, NEW o \in Owners, Stops(o)
  PROVE  /\ \A u \in Tasks : /\ task'[u].attempt = task[u].attempt
                             /\ task'[u].status = task[u].status
                             /\ task[u].lease = o => task'[u].lease = NoOwner
                             /\ task[u].lease # o => task'[u] = task[u]
         /\ task' \in [Tasks -> [status : {"publishing", "awaiting_review", "terminal"},
                                 attempt : Nat \ {0}, lease : Owners \cup {NoOwner}]]
         /\ DOMAIN own' = Owners /\ DOMAIN own'[o] = Fields /\ own'[o].pc = "idle"
         /\ \A p \in Owners \ {o} : own'[p] = own[p]
         /\ UNCHANGED <<diff, final, pushed, rows, events, checked, raced>>
<1>1. /\ task' = [t \in Tasks |-> IF task[t].lease = o
                                  THEN [task[t] EXCEPT !.lease = NoOwner] ELSE task[t]]
      /\ own' = [own EXCEPT ![o] = Idle]
      /\ UNCHANGED <<diff, final, pushed, rows, events, checked, raced>>
  BY DEF Stops
<1>2. DOMAIN Idle = Fields /\ Idle.pc = "idle"
  BY DEF Idle, Fields
<1> QED
  BY <1>1, <1>2 DEF CoreInv, TypeOK

LEMMA StopsCore ==
  ASSUME CoreInv, NEW o \in Owners, Stops(o)
  PROVE  CoreInv'
<1>1. \A u \in Tasks : Current(u)' = Current(u)
  BY StopsEffect DEF Current
<1>2. TypeOK'
  BY StopsEffect DEF CoreInv, TypeOK, Stages
<1>3. CommitsOK'
  <2>1. \A u \in Tasks : task[u].lease = NoOwner => task'[u].lease = NoOwner
    BY StopsEffect
  <2> QED
    BY StopsEffect, <1>1, <2>1 DEF CoreInv, CommitsOK, CommitsOf
<1>4. OwnersOK'
  <2>1. \A p \in Owners : own[p].pc # "idle" => own[p].commit[1] \in Tasks
    BY DEF CoreInv, OwnersOK, CommitsOf
  <2>2. \A u \in Tasks : task'[u].lease # NoOwner =>
          task'[u].lease = task[u].lease /\ task[u].lease # o /\ task[u].lease \in Owners
    BY StopsEffect DEF CoreInv, TypeOK
  <2> QED
    BY StopsEffect, <1>1, <2>1, <2>2 DEF CoreInv, OwnersOK, InWindow
<1>5. SiblingsOK'
  BY StopsEffect DEF CoreInv, SiblingsOK
<1> QED
  BY <1>2, <1>3, <1>4, <1>5 DEF CoreInv

LEMMA ReviseCore ==
  ASSUME CoreInv, NEW t \in Tasks, Revise(t)
  PROVE  CoreInv'
<1>1. /\ task[t].status = "awaiting_review"
      /\ task' = [task EXCEPT ![t].status = "publishing", ![t].attempt = @ + 1]
      /\ UNCHANGED <<diff, final, pushed, own, rows, events, checked, raced, faults>>
  BY DEF Revise
<1>2. /\ task'[t].attempt = task[t].attempt + 1 /\ task'[t].status = "publishing"
      /\ task'[t].lease = task[t].lease
      /\ \A u \in Tasks \ {t} : task'[u] = task[u]
  BY <1>1 DEF CoreInv, TypeOK
<1>3. task[t].lease = NoOwner /\ Current(t) \in final
  BY <1>1 DEF CoreInv, CommitsOK
<1>4. \A u \in Tasks \ {t} : Current(u)' = Current(u)
  BY <1>2 DEF Current
<1>5. TypeOK'
  BY <1>1 DEF CoreInv, TypeOK
<1>6. \A u \in Tasks : task[u].attempt \in Nat \ {0} /\ task[u].attempt <= task'[u].attempt
                       /\ task'[u].attempt \in Nat
  BY <1>2 DEF CoreInv, TypeOK
<1>7. CommitsOK'
  <2>1. \A c \in final : c \in CommitsOf /\ c[2] <= task'[c[1]].attempt
    BY <1>6 DEF CoreInv, CommitsOK, CommitsOf
  <2>2. \A n \in 1..(task'[t].attempt - 1) : <<t, n>> \in final
    BY <1>2, <1>3, <1>6 DEF CoreInv, CommitsOK, Current
  <2>3. \A u \in Tasks : \A n \in 1..(task'[u].attempt - 1) : <<u, n>> \in final
    BY <1>2, <2>2 DEF CoreInv, CommitsOK
  <2>4. \A u \in Tasks : task'[u].status = "awaiting_review" =>
          Current(u)' \in final /\ task'[u].lease = NoOwner
    BY <1>2, <1>4 DEF CoreInv, CommitsOK
  <2> QED
    BY <1>1, <2>1, <2>3, <2>4 DEF CoreInv, CommitsOK
<1>8. OwnersOK'
  <2>1. \A p \in Owners : own[p].pc # "idle" =>
          own[p].commit \in CommitsOf /\ own[p].commit[2] <= task'[own[p].commit[1]].attempt
    BY <1>6 DEF CoreInv, OwnersOK, CommitsOf
  <2>2. \A u \in Tasks : task'[u].lease = task[u].lease
    BY <1>2
  <2> QED
    BY <1>1, <1>3, <1>4, <2>1, <2>2 DEF CoreInv, OwnersOK
<1>9. SiblingsOK'
  BY <1>1 DEF CoreInv, SiblingsOK
<1> QED
  BY <1>5, <1>7, <1>8, <1>9 DEF CoreInv

LEMMA FinishCore ==
  ASSUME CoreInv, NEW t \in Tasks, Finish(t)
  PROVE  CoreInv'
<1>1. /\ task' = [task EXCEPT ![t].status = "terminal"]
      /\ UNCHANGED <<diff, final, pushed, own, rows, events, checked, raced, faults>>
  BY DEF Finish
<1>2. /\ \A u \in Tasks : task'[u].attempt = task[u].attempt /\ task'[u].lease = task[u].lease
      /\ task'[t].status = "terminal" /\ \A u \in Tasks \ {t} : task'[u] = task[u]
  BY <1>1 DEF CoreInv, TypeOK
<1>3. \A u \in Tasks : Current(u)' = Current(u)
  BY <1>2 DEF Current
<1>4. TypeOK'
  BY <1>1 DEF CoreInv, TypeOK
<1>5. CommitsOK'
  BY <1>1, <1>2, <1>3 DEF CoreInv, CommitsOK, CommitsOf
<1>6. OwnersOK'
  <2>1. \A o \in Owners : own[o].pc # "idle" => own[o].commit[1] \in Tasks
    BY DEF CoreInv, OwnersOK, CommitsOf
  <2> QED
    BY <1>1, <1>2, <1>3, <2>1 DEF CoreInv, OwnersOK
<1>7. SiblingsOK'
  BY <1>1 DEF CoreInv, SiblingsOK
<1> QED
  BY <1>4, <1>5, <1>6, <1>7 DEF CoreInv

\* Recording a commit fixes the diff of that commit and of no other.
LEMMA RecordEffect ==
  ASSUME CoreInv, NEW o \in Owners, RecordFinalCommit(o)
  PROVE  /\ own[o].pc = "record" /\ own'[o].pc = "push" /\ DOMAIN own' = Owners
         /\ DOMAIN own'[o] = Fields /\ own'[o].commit = own[o].commit
         /\ \A p \in Owners \ {o} : own'[p] = own[p]
         /\ \A c \in DOMAIN diff : diff'[c] = diff[c]
         /\ DOMAIN diff' = DOMAIN diff \cup {own[o].commit}
         /\ final' = final \cup {own[o].commit}
         /\ UNCHANGED <<task, pushed, rows, events, checked, faults>>
BY DEF RecordFinalCommit, At, GoTo, CoreInv, TypeOK, Fields

\* It is remembered if the window was open.
LEMMA RecordRaces ==
  ASSUME CoreInv, NEW o \in Owners, RecordFinalCommit(o)
  PROVE  raced' \in BOOLEAN /\ (~raced' => ~raced /\ ~WindowOpen(o))
<1>1. raced' = (raced \/ WindowOpen(o))
  BY DEF RecordFinalCommit
<1>2. raced \in BOOLEAN
  BY DEF CoreInv, TypeOK
<1> QED
  BY <1>1, <1>2, Zenon

LEMMA RecordCore ==
  ASSUME CoreInv, NEW o \in Owners, RecordFinalCommit(o)
  PROVE  CoreInv'
<1>1. own[o].commit \in CommitsOf /\ own[o].commit[2] <= task[own[o].commit[1]].attempt
  BY RecordEffect DEF CoreInv, OwnersOK
<1>a. /\ own[o].pc = "record" /\ own'[o].pc = "push" /\ own'[o].commit = own[o].commit
      /\ \A p \in Owners \ {o} : own'[p] = own[p]
  BY RecordEffect
<1>b. task' = task /\ pushed' = pushed /\ checked' = checked
  BY RecordEffect
<1>c. final' = final \cup {own[o].commit} /\ DOMAIN diff' = DOMAIN diff \cup {own[o].commit}
  BY RecordEffect
<1>2. TypeOK'
  BY RecordEffect, RecordRaces DEF CoreInv, TypeOK, Stages, InWindow
<1>3. CommitsOK'
  BY <1>b, <1>c, <1>1 DEF CoreInv, CommitsOK, Current
<1>4. OwnersOK'
  <2>1. \A p \in Owners : own'[p].commit = own[p].commit
                          /\ (own'[p].pc # "idle" <=> own[p].pc # "idle")
    BY RecordEffect
  <2>2. \A p \in Owners : own'[p].pc \in InWindow => own'[p].commit \in final'
    BY <1>a, <1>c DEF CoreInv, OwnersOK
  <2>3. \A p \in Owners : own'[p].pc \in InWindow \ {"push"} => own'[p].commit \in pushed
    BY <1>a, <1>b DEF CoreInv, OwnersOK
  <2>4. \A t \in Tasks : task[t].lease # NoOwner => task[t].lease \in Owners
    BY DEF CoreInv, TypeOK
  <2> QED
    BY <1>b, <2>1, <2>2, <2>3, <2>4 DEF CoreInv, OwnersOK, Current
<1>5. SiblingsOK'
  BY <1>a, <1>c DEF CoreInv, SiblingsOK
<1> QED
  BY <1>2, <1>3, <1>4, <1>5 DEF CoreInv

\* The owner that publishes holds the lease, so its commit is the newest.
LEMMA PublishEffect ==
  ASSUME CoreInv, NEW o \in Owners, Publish(o)
  PROVE  \E t \in Tasks :
           /\ own[o].commit = Current(t) /\ Current(t) \in final /\ task[t].lease = o
           /\ own[o].pc = "publish"
           /\ task'[t].attempt = task[t].attempt /\ task'[t].lease = NoOwner
           /\ task'[t].status = IF task[t].status = "publishing" THEN "awaiting_review"
                                ELSE task[t].status
           /\ \A u \in Tasks \ {t} : task'[u] = task[u]
           /\ DOMAIN task' = Tasks
           /\ task' \in [Tasks -> [status : {"publishing", "awaiting_review", "terminal"},
                                   attempt : Nat \ {0}, lease : Owners \cup {NoOwner}]]
           /\ DOMAIN own' = Owners /\ DOMAIN own'[o] = Fields /\ own'[o].pc = "idle"
           /\ \A p \in Owners \ {o} : own'[p] = own[p]
           /\ UNCHANGED <<diff, final, pushed, rows, events, checked, raced, faults>>
<1> DEFINE t == own[o].commit[1]
<1>1. /\ own[o].pc = "publish" /\ task[t].lease = o
      /\ task' = [task EXCEPT ![t].lease = NoOwner,
                    ![t].status = IF @ = "publishing" THEN "awaiting_review" ELSE @]
      /\ own' = [own EXCEPT ![o] = Idle]
      /\ UNCHANGED <<diff, final, pushed, rows, events, checked, raced, faults>>
  BY DEF Publish, At
<1>2. t \in Tasks /\ own[o].commit \in final
  BY <1>1 DEF CoreInv, OwnersOK, CommitsOf, InWindow
<1>3. own[o].commit = Current(t)
  BY <1>1, <1>2, ConflictAssumption DEF CoreInv, OwnersOK
<1>4. DOMAIN Idle = Fields /\ Idle.pc = "idle"
  BY DEF Idle, Fields
<1>5. DOMAIN own' = Owners /\ own'[o] = Idle /\ \A p \in Owners \ {o} : own'[p] = own[p]
  BY <1>1 DEF CoreInv, TypeOK
<1>6. /\ task'[t].attempt = task[t].attempt /\ task'[t].lease = NoOwner
      /\ task'[t].status = IF task[t].status = "publishing" THEN "awaiting_review"
                           ELSE task[t].status
      /\ \A u \in Tasks \ {t} : task'[u] = task[u]
      /\ DOMAIN task' = Tasks
      /\ task' \in [Tasks -> [status : {"publishing", "awaiting_review", "terminal"},
                              attempt : Nat \ {0}, lease : Owners \cup {NoOwner}]]
  BY <1>1, <1>2 DEF CoreInv, TypeOK
<1>7. Current(t) \in final
  BY <1>2, <1>3
<1> HIDE DEF t
<1> QED
  BY <1>1, <1>2, <1>3, <1>4, <1>5, <1>6, <1>7

LEMMA PublishCore ==
  ASSUME CoreInv, NEW o \in Owners, Publish(o)
  PROVE  CoreInv'
<1>1. PICK t \in Tasks :
           /\ own[o].commit = Current(t) /\ Current(t) \in final /\ task[t].lease = o
           /\ own[o].pc = "publish"
           /\ task'[t].attempt = task[t].attempt /\ task'[t].lease = NoOwner
           /\ task'[t].status = IF task[t].status = "publishing" THEN "awaiting_review"
                                ELSE task[t].status
           /\ \A u \in Tasks \ {t} : task'[u] = task[u]
           /\ DOMAIN task' = Tasks
           /\ task' \in [Tasks -> [status : {"publishing", "awaiting_review", "terminal"},
                                   attempt : Nat \ {0}, lease : Owners \cup {NoOwner}]]
           /\ DOMAIN own' = Owners /\ DOMAIN own'[o] = Fields /\ own'[o].pc = "idle"
           /\ \A p \in Owners \ {o} : own'[p] = own[p]
           /\ UNCHANGED <<diff, final, pushed, rows, events, checked, raced, faults>>
  BY PublishEffect
<1>2. \A u \in Tasks : Current(u)' = Current(u) /\ task'[u].attempt = task[u].attempt
  BY <1>1 DEF Current
<1>3. TypeOK'
  BY <1>1 DEF CoreInv, TypeOK, Stages
<1>4. CommitsOK'
  <2>1. \A u \in Tasks : task'[u].status = "awaiting_review" =>
          Current(u) \in final /\ task'[u].lease = NoOwner
    BY <1>1 DEF CoreInv, CommitsOK
  <2> QED
    BY <1>1, <1>2, <2>1 DEF CoreInv, CommitsOK, CommitsOf
<1>5. OwnersOK'
  <2>1. \A p \in Owners : own[p].pc # "idle" => own[p].commit[1] \in Tasks
    BY DEF CoreInv, OwnersOK, CommitsOf
  <2>2. \A u \in Tasks \ {t} : task[u].lease # o
    <3> SUFFICES ASSUME NEW u \in Tasks \ {t}, task[u].lease = o PROVE FALSE
      OBVIOUS
    <3>1. own[o].commit = Current(u)
      BY ConflictAssumption DEF CoreInv, OwnersOK
    <3> QED
      BY <1>1, <3>1 DEF Current
  <2>3. \A u \in Tasks : task'[u].lease # NoOwner =>
          u # t /\ task'[u].lease = task[u].lease /\ task[u].lease \in Owners \ {o}
    BY <1>1, <2>2 DEF CoreInv, TypeOK
  <2> QED
    BY <1>1, <1>2, <2>1, <2>3 DEF CoreInv, OwnersOK, InWindow
<1>6. SiblingsOK'
  BY <1>1 DEF CoreInv, SiblingsOK
<1> QED
  BY <1>3, <1>4, <1>5, <1>6 DEF CoreInv

-----------------------------------------------------------------------------
(* What a detection lists.                                                 *)

\* The newest recorded commit of a task is that of its newest attempt, once that
\* is recorded.
LEMMA NewestIs ==
  ASSUME CoreInv, NEW u \in Tasks, NEW c \in final, c[1] = u
  PROVE  /\ Newest(u) \in final /\ Newest(u)[1] = u
         /\ Current(u) \in final => Newest(u) = Current(u)
<1> DEFINE Top(x) == x[1] = u /\ \A e \in final : e[1] = u => e[2] <= x[2]
<1>1. \A e \in final : e[1] = u => e = <<u, e[2]>> /\ e[2] \in Nat \ {0} /\ e[2] <= task[u].attempt
  BY DEF CoreInv, CommitsOK, CommitsOf
<1>2. task[u].attempt \in Nat \ {0}
  BY DEF CoreInv, TypeOK
<1>3. Current(u)[1] = u /\ Current(u)[2] = task[u].attempt /\ Current(u) = <<u, task[u].attempt>>
  BY DEF Current
<1>4. \E x \in final : Top(x)
  <2>1. CASE Current(u) \in final
    BY <2>1, <1>1, <1>3
  <2>2. CASE Current(u) \notin final
    <3>1. \A e \in final : e[1] = u => e[2] <= task[u].attempt - 1
      BY <1>1, <1>2, <1>3, <2>2
    <3>2. task[u].attempt - 1 \in 1..(task[u].attempt - 1)
      BY <3>1, <1>1, <1>2
    <3>3. <<u, task[u].attempt - 1>> \in final
      BY <3>2 DEF CoreInv, CommitsOK
    <3> QED
      BY <3>1, <3>3
  <2> QED
    BY <2>1, <2>2
<1>5. Newest(u) \in final /\ Top(Newest(u))
  BY <1>4 DEF Newest
<1> QED
  BY <1>1, <1>2, <1>3, <1>5

LEMMA ListedSiblings ==
  ASSUME CoreInv, NEW o \in Owners, ActiveSiblings(o), own'[o].pc = "fetch"
  PROVE  /\ \A e \in own'[o].siblings : e \in final /\ e[1] # own[o].commit[1]
         /\ \A e, x \in own'[o].siblings : e[1] = x[1] => e = x
         /\ \A u \in Tasks \ {own[o].commit[1]} :
              task[u].status # "terminal" /\ Current(u) \in final =>
                Current(u) \in own'[o].siblings
<1> DEFINE t == own[o].commit[1]
           active == {v \in Tasks \ {t} : /\ task[v].status # "terminal"
                                          /\ \E c \in final : c[1] = v}
<1>1. own'[o].siblings = {Newest(u) : u \in active}
  BY DEF ActiveSiblings, CoreInv, TypeOK, Fields
<1>2. \A u \in active : Newest(u) \in final /\ Newest(u)[1] = u
  BY NewestIs
<1>3. \A u \in Tasks \ {t} : task[u].status # "terminal" /\ Current(u) \in final =>
        u \in active /\ Newest(u) = Current(u)
  BY NewestIs DEF Current
<1> QED
  BY <1>1, <1>2, <1>3

\* With nothing listed, no other unfinished task has recorded its newest commit.
LEMMA ListedNone ==
  ASSUME CoreInv, NEW o \in Owners, ActiveSiblings(o), own'[o].pc # "fetch"
  PROVE  /\ own'[o].pc = "publish"
         /\ \A u \in Tasks \ {own[o].commit[1]} :
              task[u].status # "terminal" => Current(u) \notin final
<1> DEFINE t == own[o].commit[1]
           active == {v \in Tasks \ {t} : /\ task[v].status # "terminal"
                                          /\ \E c \in final : c[1] = v}
<1>1. own'[o].pc = IF {Newest(u) : u \in active} = {} THEN "publish" ELSE "fetch"
  BY DEF ActiveSiblings, CoreInv, TypeOK, Fields
<1>2. active = {} /\ own'[o].pc = "publish"
  BY <1>1
<1>3. \A u \in Tasks \ {t} : task[u].status # "terminal" /\ Current(u) \in final => u \in active
  BY DEF Current
<1> QED
  BY <1>2, <1>3

\* The core invariant is kept by every step.
LEMMA StepCore == CoreInv /\ [Next]_vars => CoreInv'
<1> SUFFICES ASSUME CoreInv, [Next]_vars PROVE CoreInv'
  OBVIOUS
<1>1. CASE UNCHANGED vars
  BY <1>1 DEF vars, CoreInv, TypeOK, CommitsOK, OwnersOK, SiblingsOK, Current
<1>2. ASSUME NEW t \in Tasks, LeaseLapses(t) \/ Revise(t) \/ Finish(t)
      PROVE  CoreInv'
  BY <1>2, LeaseLapsesCore, ReviseCore, FinishCore
<1>3. ASSUME NEW o \in Owners, NEW t \in Tasks, Claim(o, t)
      PROVE  CoreInv'
  BY <1>3, ClaimCore
<1>4. ASSUME NEW o \in Owners, Stops(o) \/ RecordFinalCommit(o)
      PROVE  CoreInv'
  BY <1>4, StopsCore, RecordCore
<1>5. ASSUME NEW o \in Owners,
             \/ Push(o) \/ Compare(o) \/ LockPairs(o)
             \/ Reconcile(o) \/ CallFails(o) \/ AppendDetected(o)
      PROVE  CoreInv'
  <2>1. Advances(o) /\ own'[o].pc # "fetch"
    BY <1>5, PushAdvances, CompareAdvances, LockPairsAdvances, ReconcileAdvances,
       CallFailsAdvances, AppendDetectedAdvances
  <2> QED
    BY <2>1, AdvancesCore
<1>6. ASSUME NEW o \in Owners, ActiveSiblings(o)
      PROVE  CoreInv'
  BY <1>6, ActiveSiblingsAdvances, ListedSiblings, AdvancesCore
<1>7. ASSUME NEW o \in Owners, Publish(o)
      PROVE  CoreInv'
  BY <1>7, PublishCore
<1> QED
  BY <1>1, <1>2, <1>3, <1>4, <1>5, <1>6, <1>7 DEF Next
-----------------------------------------------------------------------------
(* What two commits call for does not change once both are recorded.       *)

LEMMA PastRecorded ==
  ASSUME CoreInv, NEW c \in final, NEW n \in 1..c[2]
  PROVE  <<c[1], n>> \in final
<1>1. c[1] \in Tasks /\ c[2] \in Nat \ {0} /\ c = <<c[1], c[2]>> /\ c[2] <= task[c[1]].attempt
  BY DEF CoreInv, CommitsOK, CommitsOf
<1>2. task[c[1]].attempt \in Nat \ {0}
  BY <1>1 DEF CoreInv, TypeOK
<1>3. CASE n = c[2]
  BY <1>1, <1>3
<1>4. CASE n # c[2]
  BY <1>1, <1>2, <1>4 DEF CoreInv, CommitsOK
<1> QED
  BY <1>3, <1>4

LEMMA LinesStable ==
  ASSUME CoreInv, \A x \in final : diff'[x] = diff[x], NEW c \in final, NEW f
  PROVE  ChangedLines(c, f)' = ChangedLines(c, f)
<1> DEFINE At1(d) == IF f \in DOMAIN d
                     THEN UNION {LineRange(d[f][i])[1]..LineRange(d[f][i])[2] : i \in DOMAIN d[f]}
                     ELSE {}
<1>1. ChangedLines(c, f) = UNION {At1(diff[<<c[1], n>>]) : n \in 1..c[2]}
  BY DEF ChangedLines
<1>2. ChangedLines(c, f)' = UNION {At1(diff'[<<c[1], n>>]) : n \in 1..c[2]}
  BY DEF ChangedLines
<1>3. \A n \in 1..c[2] : diff'[<<c[1], n>>] = diff[<<c[1], n>>]
  BY PastRecorded
<1> HIDE DEF At1
<1>4. {At1(diff'[<<c[1], n>>]) : n \in 1..c[2]} = {At1(diff[<<c[1], n>>]) : n \in 1..c[2]}
  BY <1>3
<1> QED
  BY <1>1, <1>2, <1>4

LEMMA ExpectedStable ==
  ASSUME CoreInv, \A x \in final : diff'[x] = diff[x], NEW c \in final, NEW e \in final
  PROVE  Expected(c, e)' = Expected(c, e)
<1>1. \A x \in {c, e} : \A n \in 1..x[2] : diff'[<<x[1], n>>] = diff[<<x[1], n>>]
  BY PastRecorded
<1>2. \A x \in {c, e} : \A f : ChangedLines(x, f)' = ChangedLines(x, f)
  BY LinesStable
<1>3. MergeTree(c, e)' = MergeTree(c, e)
  <2>1. \A x \in {c, e} : UNION {DOMAIN diff'[<<x[1], n>>] : n \in 1..x[2]}
                          = UNION {DOMAIN diff[<<x[1], n>>] : n \in 1..x[2]}
    BY <1>1
  <2> QED
    BY <1>2, <2>1 DEF MergeTree
<1>4. diff'[c] = diff[c] /\ diff'[e] = diff[e]
  OBVIOUS
<1> QED
  BY <1>3, <1>4 DEF Expected

LEMMA MergeTreeSymmetric ==
  ASSUME NEW c, NEW e
  PROVE  MergeTree(c, e) = MergeTree(e, c)
BY DEF MergeTree

LEMMA ExpectedSymmetric ==
  ASSUME NEW c, NEW e
  PROVE  Expected(c, e) = Expected(e, c)
<1>1. \A f : LinesNear(diff[c], diff[e], f) <=> LinesNear(diff[e], diff[c], f)
  <2>1. \A d, f : Lines(d, f) \subseteq Int
    BY DEF Lines
  <2>2. \A x, y \in Int : x - y \in (-3)..3 <=> y - x \in (-3)..3
    OBVIOUS
  <2> QED
    BY <2>1, <2>2 DEF LinesNear
<1>2. (\E f \in DOMAIN diff[c], g \in DOMAIN diff[e] : {f, g} \subseteq Migrations)
      <=> (\E f \in DOMAIN diff[e], g \in DOMAIN diff[c] : {f, g} \subseteq Migrations)
  OBVIOUS
<1>3. DOMAIN diff[c] \cap DOMAIN diff[e] = DOMAIN diff[e] \cap DOMAIN diff[c]
  OBVIOUS
<1> QED
  BY <1>1, <1>2, <1>3, MergeTreeSymmetric DEF Expected

\* Whatever is called for, a comparison of the two finds some kind of conflict.
LEMMA SomethingFound ==
  ASSUME NEW c, NEW e, NEW answer, Expected(c, e) # {}
  PROVE  Detected(c, e, answer).kinds # {}
<1>1. \/ DOMAIN diff[c] \cap DOMAIN diff[e] # {}
      \/ MergeTree(c, e) # {}
      \/ \E f \in DOMAIN diff[c], g \in DOMAIN diff[e] : {f, g} \subseteq Migrations
  BY DEF Expected
<1>2. CASE DOMAIN diff[c] \cap DOMAIN diff[e] # {}
  <2>1. "file_overlap" \in Overlap(diff[c], diff[e]).kinds
    BY <1>2 DEF Overlap
  <2> QED
    BY <2>1 DEF Detected
<1>3. CASE MergeTree(c, e) # {}
  BY <1>3 DEF Detected
<1>4. CASE \E f \in DOMAIN diff[c], g \in DOMAIN diff[e] : {f, g} \subseteq Migrations
  <2>1. DOMAIN diff[c] \cap Migrations # {} /\ DOMAIN diff[e] \cap Migrations # {}
    BY <1>4
  <2>2. "migration" \in Overlap(diff[c], diff[e]).kinds
    BY <2>1 DEF Overlap
  <2> QED
    BY <2>2 DEF Detected
<1> QED
  BY <1>1, <1>2, <1>3, <1>4
-----------------------------------------------------------------------------
(* Never are both blind.                                                   *)

\* Only a commit that was recorded and pushed is blind to another.
LEMMA BlindIsOut ==
  ASSUME CoreInv, NEW c, NEW e, Blind(c, e)
  PROVE  c \in final \cap pushed
BY DEF Blind, CoreInv, OwnersOK, CommitsOK, Detecting, InWindow

\* A step keeps the invariant if it revives no commit, keeps what is recorded, and
\* makes neither of two live commits blind while the other stays so.
LEMMA WarnStep ==
  ASSUME CoreInv, NeverBothBlind,
         \A c \in final : Live(c)' => Live(c),
         \A x \in final : diff'[x] = diff[x],
         \A c, e : Blind(c, e)' => c \in final,
         \A c, e \in final :
           /\ c[1] # e[1] /\ Live(c) /\ Live(e) /\ Expected(c, e) # {}
           /\ Blind(c, e)' /\ Blind(e, c)'
           => Blind(c, e)
  PROVE  NeverBothBlind'
<1> SUFFICES ASSUME NEW c \in final', NEW e \in final', c[1] # e[1], Live(c)', Live(e)',
                    Expected(c, e)' # {}, Blind(c, e)', Blind(e, c)'
             PROVE  FALSE
  BY DEF NeverBothBlind
<1>1. c \in final /\ e \in final
  OBVIOUS
<1>2. Live(c) /\ Live(e)
  BY <1>1
<1>3. Expected(c, e) # {} /\ Expected(e, c) # {}
  BY <1>1, ExpectedStable, ExpectedSymmetric
<1>4. Blind(c, e) /\ Blind(e, c)
  BY <1>1, <1>2, <1>3
<1> QED
  BY <1>1, <1>2, <1>3, <1>4 DEF NeverBothBlind

\* An owner that goes on: nobody else's detection becomes blind.
LEMMA AdvancesWarn ==
  ASSUME CoreInv, NeverBothBlind, NEW o \in Owners, Advances(o),
         NEW c, c = own[o].commit,
         \A e \in final :
           /\ c[1] # e[1] /\ Live(c) /\ Live(e) /\ Expected(c, e) # {} /\ Blind(e, c)'
           /\ \/ own'[o].pc \in Detecting /\ Overlooks(o, e)'
              \/ c \in checked' /\ c \notin checked /\ <<c, e>> \notin events'
           => Blind(c, e)
  PROVE  NeverBothBlind'
<1>1. c \in final /\ c \in CommitsOf
  BY DEF CoreInv, OwnersOK, CommitsOK, Advances
<1>2. ASSUME NEW x, NEW e, Blind(x, e)'
      PROVE  \/ Blind(x, e)
             \/ /\ x = c
                /\ \/ own'[o].pc \in Detecting /\ Overlooks(o, e)'
                   \/ c \in checked' /\ c \notin checked /\ <<c, e>> \notin events'
  <2>1. CASE x \in checked' /\ <<x, e>> \notin events'
    BY <2>1 DEF Advances, Blind
  <2>2. CASE \E p \in Owners : own'[p].commit = x /\ own'[p].pc \in Detecting /\ Overlooks(p, e)'
    <3>1. PICK p \in Owners : own'[p].commit = x /\ own'[p].pc \in Detecting /\ Overlooks(p, e)'
      BY <2>2
    <3>2. CASE p = o
      BY <3>1, <3>2 DEF Advances
    <3>3. CASE p # o
      <4>1. own'[p] = own[p]
        BY <3>3 DEF Advances
      <4>2. Overlooks(p, e)
        BY <3>1, <4>1 DEF Overlooks
      <4> QED
        BY <3>1, <4>1, <4>2 DEF Blind
    <3> QED
      BY <3>2, <3>3
  <2> QED
    BY <1>2, <2>1, <2>2 DEF Blind
<1>3. \A x, e : Blind(x, e)' => x \in final
  BY <1>1, <1>2, BlindIsOut
<1>4. \A x, e \in final :
           /\ x[1] # e[1] /\ Live(x) /\ Live(e) /\ Expected(x, e) # {}
           /\ Blind(x, e)' /\ Blind(e, x)'
           => Blind(x, e)
  <2> SUFFICES ASSUME NEW x \in final, NEW e \in final,
                      x[1] # e[1], Live(x), Live(e), Expected(x, e) # {},
                      Blind(x, e)', Blind(e, x)', ~Blind(x, e)
               PROVE  FALSE
    OBVIOUS
  <2>1. /\ x = c
        /\ \/ own'[o].pc \in Detecting /\ Overlooks(o, e)'
           \/ c \in checked' /\ c \notin checked /\ <<c, e>> \notin events'
    BY <1>2
  <2>2. Blind(e, c)' /\ Expected(c, e) # {} /\ ~Blind(c, e) /\ Live(c) /\ c[1] # e[1]
    BY <2>1
  <2> QED
    BY <2>1, <2>2
<1>5. /\ \A x \in final : Live(x)' => Live(x)
      /\ \A x \in final : diff'[x] = diff[x]
  BY DEF Advances, Live
<1> QED
  BY <1>3, <1>4, <1>5, WarnStep

\* A step in which detections only end.
LEMMA EndsWarn ==
  ASSUME CoreInv, NeverBothBlind,
         \A p \in Owners : own'[p].pc \in Detecting => own'[p] = own[p],
         checked' = checked, events' = events,
         \A c \in final : Live(c)' => Live(c),
         \A x \in final : diff'[x] = diff[x]
  PROVE  NeverBothBlind'
<1>1. ASSUME NEW c, NEW e, Blind(c, e)'
      PROVE  Blind(c, e)
  <2>1. CASE c \in checked' /\ <<c, e>> \notin events'
    BY <2>1 DEF Blind
  <2>2. CASE \E p \in Owners : own'[p].commit = c /\ own'[p].pc \in Detecting /\ Overlooks(p, e)'
    <3>1. PICK p \in Owners : own'[p].commit = c /\ own'[p].pc \in Detecting /\ Overlooks(p, e)'
      BY <2>2
    <3>2. own'[p] = own[p]
      BY <3>1
    <3>3. Overlooks(p, e)
      BY <3>1, <3>2 DEF Overlooks
    <3> QED
      BY <3>1, <3>2, <3>3 DEF Blind
  <2> QED
    BY <1>1, <2>1, <2>2 DEF Blind
<1>2. \A c, e : Blind(c, e)' => c \in final
  BY <1>1, BlindIsOut
<1> QED
  BY <1>1, <1>2, WarnStep

LEMMA BlindOutLater ==
  ASSUME CoreInv', NEW c, NEW e, Blind(c, e)'
  PROVE  c \in final' \cap pushed'
BY DEF Blind, CoreInv, OwnersOK, CommitsOK, Detecting, InWindow

\* What the comparison finds: of every sibling present, by its task, the conflict
\* if there is one, and nothing else.
Finds(o, present) ==
  LET c == own[o].commit
      dets == own'[o].dets
  IN /\ present \subseteq own[o].siblings /\ own[o].siblings \cap pushed \subseteq present
     /\ \A x \in present \cup {c} : ~ParseFails(diff[x])
     /\ \A e \in present : \E answer :
          /\ Detected(c, e, answer).kinds # {} => e[1] \in DOMAIN dets
          /\ e[1] \in DOMAIN dets => dets[e[1]] = Detected(c, e, answer)
     /\ \A u \in DOMAIN dets : \E e \in present : e[1] = u

LEMMA CompareFinds ==
  ASSUME CoreInv, NEW o \in Owners, Compare(o), own'[o].pc = "lock"
  PROVE  own[o].pc = "fetch" /\ \E present : Finds(o, present)
<1> DEFINE c == own[o].commit
           sib == own[o].siblings
           present(h) == {e \in sib : HasCommit(e, h)}
           found(a, h) == [u \in {e[1] : e \in present(h)} |->
                             LET e == CHOOSE x \in present(h) : x[1] = u
                             IN Detected(c, e, a[e])]
           dets(a, h) == [u \in {v \in DOMAIN found(a, h) : found(a, h)[v].kinds # {}} |->
                            found(a, h)[u]]
<1>1. own[o].pc = "fetch"
  BY DEF Compare, At
<1>2. \E a \in [sib -> Answers], h \in BOOLEAN :
        IF \E x \in present(h) \cup {c} : ParseFails(diff[x])
        THEN own' = [own EXCEPT ![o] = Settled(c, "publish")]
        ELSE own' = [own EXCEPT ![o] = [Settled(c, "lock") EXCEPT !.dets = dets(a, h)]]
  BY Zenon DEF Compare
<1>3. PICK a \in [sib -> Answers], h \in BOOLEAN :
        IF \E x \in present(h) \cup {c} : ParseFails(diff[x])
        THEN own' = [own EXCEPT ![o] = Settled(c, "publish")]
        ELSE own' = [own EXCEPT ![o] = [Settled(c, "lock") EXCEPT !.dets = dets(a, h)]]
  BY <1>2
<1>4. \A e, x \in present(h) : e[1] = x[1] => e = x
  BY <1>1 DEF CoreInv, SiblingsOK
<1>5. sib \cap pushed \subseteq present(h)
  BY DEF HasCommit
<1>6. \A e \in present(h) : found(a, h)[e[1]] = Detected(c, e, a[e])
  <2> SUFFICES ASSUME NEW e \in present(h) PROVE found(a, h)[e[1]] = Detected(c, e, a[e])
    OBVIOUS
  <2>1. (CHOOSE x \in present(h) : x[1] = e[1]) = e
    BY <1>4
  <2> QED
    BY <2>1
<1> HIDE DEF present
<1>7. DOMAIN found(a, h) = {e[1] : e \in present(h)}
  OBVIOUS
<1> HIDE DEF found
<1>8. \A u : u \in DOMAIN dets(a, h) <=> u \in DOMAIN found(a, h) /\ found(a, h)[u].kinds # {}
  OBVIOUS
<1>9. \A u \in DOMAIN dets(a, h) : dets(a, h)[u] = found(a, h)[u]
  OBVIOUS
<1> HIDE DEF dets
<1>10. /\ ~\E x \in present(h) \cup {c} : ParseFails(diff[x])
       /\ own' = [own EXCEPT ![o] = [Settled(c, "lock") EXCEPT !.dets = dets(a, h)]]
  <2>1. CASE \E x \in present(h) \cup {c} : ParseFails(diff[x])
    <3>1. own' = [own EXCEPT ![o] = Settled(c, "publish")]
      BY <1>3, <2>1
    <3>2. own'[o].pc = "publish"
      BY <3>1, SettledIs DEF CoreInv, TypeOK
    <3> QED
      BY <3>2
  <2>2. CASE ~\E x \in present(h) \cup {c} : ParseFails(diff[x])
    BY <1>3, <2>2
  <2> QED
    BY <2>1, <2>2
<1>11. own'[o].dets = dets(a, h)
  BY <1>10, SettledIs DEF CoreInv, TypeOK
<1>12. \A e \in present(h) : \E answer :
          /\ Detected(c, e, answer).kinds # {} => e[1] \in DOMAIN dets(a, h)
          /\ e[1] \in DOMAIN dets(a, h) => dets(a, h)[e[1]] = Detected(c, e, answer)
  BY <1>6, <1>7, <1>8, <1>9
<1>13. \A u \in DOMAIN dets(a, h) : \E e \in present(h) : e[1] = u
  BY <1>7, <1>8
<1>14. present(h) \subseteq sib
  BY DEF present
<1>15. Finds(o, present(h))
  BY <1>5, <1>10, <1>11, <1>12, <1>13, <1>14 DEF Finds
<1> QED
  BY <1>1, <1>15

LEMMA CompareWarn ==
  ASSUME CoreInv, NeverBothBlind, NEW o \in Owners, Compare(o)
  PROVE  NeverBothBlind'
<1>1. Advances(o) /\ own'[o].pc \in {"publish", "lock"} /\ checked' = checked
      /\ own[o].pc = "fetch"
  BY CompareAdvances DEF Compare, At
<1>2. PICK c : c = own[o].commit
  OBVIOUS
<1>3. ASSUME NEW e \in final, c[1] # e[1], Expected(c, e) # {}, Blind(e, c)',
             own'[o].pc \in Detecting, Overlooks(o, e)', e \in own[o].siblings
      PROVE  FALSE
  <2>1. own'[o].pc = "lock"
    BY <1>1, <1>3 DEF Detecting
  <2>2. PICK present : Finds(o, present)
    BY <2>1, CompareFinds
  <2>3. e \in pushed
    <3>1. e \in final' \cap pushed'
      BY <1>1, <1>3, AdvancesCore, BlindOutLater
    <3> QED
      BY <3>1 DEF Compare
  <2>4. e \in present
    BY <1>3, <2>2, <2>3 DEF Finds
  <2>5. e[1] \in DOMAIN own'[o].dets /\ \E answer : own'[o].dets[e[1]] = Detected(c, e, answer)
    BY <1>2, <1>3, <2>2, <2>4, SomethingFound DEF Finds
  <2>6. own'[o].dets[e[1]].at = {c, e}
    BY <2>5 DEF Detected
  <2> QED
    BY <1>1, <1>2, <1>3, <2>1, <2>5, <2>6 DEF Overlooks, Advances
<1>4. ASSUME NEW e \in final, own'[o].pc \in Detecting, e \notin own[o].siblings
      PROVE  Blind(c, e)
  BY <1>1, <1>2, <1>4 DEF Blind, Overlooks, Detecting
<1> QED
  BY <1>1, <1>2, <1>3, <1>4, AdvancesWarn

LEMMA ActiveSiblingsWarn ==
  ASSUME CoreInv, NeverBothBlind, NEW o \in Owners, ActiveSiblings(o)
  PROVE  NeverBothBlind'
<1>1. Advances(o)
  BY ActiveSiblingsAdvances
<1>2. PICK c : c = own[o].commit
  OBVIOUS
<1>3. ASSUME NEW e \in final, c[1] # e[1], Live(e)
      PROVE  own'[o].pc = "fetch" /\ e \in own'[o].siblings
  <2>1. e[1] \in Tasks \ {own[o].commit[1]} /\ e = Current(e[1]) /\ task[e[1]].status # "terminal"
    BY <1>2, <1>3 DEF Live, Current, CoreInv, CommitsOK, CommitsOf
  <2>2. own'[o].pc = "fetch"
    BY <2>1, ListedNone
  <2> QED
    BY <2>1, <2>2, ListedSiblings
<1>4. own'[o].pc = "fetch" => checked' = checked
  BY DEF ActiveSiblings, CoreInv, TypeOK, Fields
<1> QED
  BY <1>1, <1>2, <1>3, <1>4, AdvancesWarn DEF Overlooks

\* What a detection says before its commit counts as checked.
LEMMA AppendSays ==
  ASSUME CoreInv, NEW o \in Owners, AppendDetected(o), own'[o].pc = "publish",
         NEW e, e[1] \in DOMAIN own[o].dets, own[o].dets[e[1]].at = {own[o].commit, e},
         e # own[o].commit
  PROVE  <<own[o].commit, e>> \in events'
<1> DEFINE c == own[o].commit
           said == {<<c, x>> : x \in UNION {own[o].dets[u].at \ {c} : u \in DOMAIN own[o].dets}}
<1>1. own[o].pc = "append" /\ (said \subseteq events' \/ own' = own)
  BY Zenon DEF AppendDetected, At
<1>2. said \subseteq events'
  BY <1>1
<1>3. e \in UNION {own[o].dets[u].at \ {c} : u \in DOMAIN own[o].dets}
  OBVIOUS
<1> QED
  BY <1>2, <1>3

LEMMA AppendWarn ==
  ASSUME CoreInv, NeverBothBlind, NEW o \in Owners, AppendDetected(o)
  PROVE  NeverBothBlind'
<1>1. /\ Advances(o) /\ own[o].pc = "append"
      /\ \/ own'[o].pc = "publish"
         \/ own' = own /\ checked' = checked
  BY AppendDetectedAdvances
<1>2. PICK c : c = own[o].commit
  OBVIOUS
<1>3. ASSUME NEW e \in final, c[1] # e[1], own'[o].pc \in Detecting, Overlooks(o, e)'
      PROVE  Blind(c, e)
  <2>1. own' = own
    BY <1>1, <1>3 DEF Detecting
  <2>2. Overlooks(o, e)
    BY <1>3, <2>1 DEF Overlooks
  <2> QED
    BY <1>2, <1>3, <2>1, <2>2 DEF Blind
<1>4. ASSUME NEW e \in final, c[1] # e[1], c \in checked', c \notin checked, <<c, e>> \notin events'
      PROVE  Blind(c, e)
  <2>1. own'[o].pc = "publish"
    BY <1>1, <1>4
  <2>2. ~(e[1] \in DOMAIN own[o].dets /\ own[o].dets[e[1]].at = {own[o].commit, e})
    BY <1>2, <1>4, <2>1, AppendSays
  <2>3. Overlooks(o, e)
    BY <1>1, <2>2 DEF Overlooks
  <2> QED
    BY <1>1, <1>2, <2>3 DEF Blind, Detecting
<1> QED
  BY <1>1, <1>2, <1>3, <1>4, AdvancesWarn

\* The other steps of an owner that goes on only keep what it has found.
LEMMA OnwardWarn ==
  ASSUME CoreInv, NeverBothBlind, NEW o \in Owners,
         Push(o) \/ LockPairs(o) \/ Reconcile(o) \/ CallFails(o)
  PROVE  NeverBothBlind'
<1>1. Advances(o)
  BY PushAdvances, LockPairsAdvances, ReconcileAdvances, CallFailsAdvances
<1>2. checked' = checked
  BY DEF Push, LockPairs, Reconcile, CallFails
<1>3. PICK c : c = own[o].commit
  OBVIOUS
<1>4. \/ own'[o].pc \notin Detecting
      \/ /\ own[o].pc \in {"lock", "reconcile"} /\ own'[o].pc \in {"reconcile", "append"}
         /\ own'[o].dets = own[o].dets
  <2>1. CASE Push(o)
    BY <2>1, PushAdvances DEF Detecting
  <2>2. CASE LockPairs(o)
    BY <2>2, LockPairsAdvances DEF LockPairs, At
  <2>3. CASE Reconcile(o)
    BY <2>3, ReconcileAdvances DEF Reconcile, At, Detecting
  <2>4. CASE CallFails(o)
    BY <2>4, CallFailsAdvances DEF Detecting
  <2> QED
    BY <2>1, <2>2, <2>3, <2>4
<1>5. ASSUME NEW e, own'[o].pc \in Detecting, Overlooks(o, e)'
      PROVE  Blind(c, e)
  <2>1. Overlooks(o, e)
    BY <1>1, <1>4, <1>5 DEF Overlooks, Advances
  <2> QED
    BY <1>3, <1>4, <1>5, <2>1 DEF Blind, Detecting
<1> QED
  BY <1>1, <1>2, <1>3, <1>5, AdvancesWarn

LEMMA TaskStepsWarn ==
  ASSUME CoreInv, NeverBothBlind, NEW t \in Tasks, LeaseLapses(t) \/ Revise(t) \/ Finish(t)
  PROVE  NeverBothBlind'
<1>1. UNCHANGED <<diff, final, own, events, checked>>
  BY DEF LeaseLapses, Revise, Finish
<1>2. \A c \in final : c[1] \in Tasks /\ c[2] \in Nat /\ c[2] <= task[c[1]].attempt
  BY DEF CoreInv, CommitsOK, CommitsOf
<1>3. ASSUME NEW c \in final, Live(c)'
      PROVE  Live(c)
  <2>1. CASE LeaseLapses(t)
    BY <1>2, <1>3, <2>1 DEF LeaseLapses, Live, CoreInv, TypeOK
  <2>2. CASE Revise(t)
    <3>1. task' = [task EXCEPT ![t].status = "publishing", ![t].attempt = @ + 1]
      BY <2>2 DEF Revise
    <3>2. task'[t].attempt = task[t].attempt + 1 /\ \A u \in Tasks \ {t} : task'[u] = task[u]
      BY <3>1 DEF CoreInv, TypeOK
    <3>3. task[t].attempt \in Nat
      BY DEF CoreInv, TypeOK
    <3>4. c[1] # t
      BY <1>2, <1>3, <3>2, <3>3 DEF Live
    <3> QED
      BY <1>2, <1>3, <3>2, <3>4 DEF Live
  <2>3. CASE Finish(t)
    <3>1. task' = [task EXCEPT ![t].status = "terminal"]
      BY <2>3 DEF Finish
    <3> QED
      BY <1>2, <1>3, <3>1 DEF Live, CoreInv, TypeOK
  <2> QED
    BY <2>1, <2>2, <2>3
<1> QED
  BY <1>1, <1>3, EndsWarn

LEMMA OwnerStepsWarn ==
  ASSUME CoreInv, NeverBothBlind, NEW o \in Owners,
         (\E t \in Tasks : Claim(o, t)) \/ Stops(o) \/ RecordFinalCommit(o) \/ Publish(o)
  PROVE  NeverBothBlind'
<1>1. \A c \in final : c[1] \in Tasks
  BY DEF CoreInv, CommitsOK, CommitsOf
<1>2. ASSUME NEW t \in Tasks, Claim(o, t)
      PROVE  NeverBothBlind'
  <2>1. /\ own' = [own EXCEPT ![o] =
             [Idle EXCEPT !.pc = "record", !.commit = <<t, task[t].attempt>>]]
        /\ task' = [task EXCEPT ![t].lease = o]
        /\ UNCHANGED <<diff, events, checked>>
    BY <1>2 DEF Claim
  <2>2. own'[o].pc = "record" /\ \A p \in Owners \ {o} : own'[p] = own[p]
    BY <2>1 DEF CoreInv, TypeOK, Idle
  <2>3. \A c \in final : Live(c)' => Live(c)
    BY <1>1, <2>1 DEF Live, CoreInv, TypeOK
  <2> QED
    BY <2>1, <2>2, <2>3, EndsWarn DEF Detecting
<1>3. CASE Stops(o)
  <2>1. \A c \in final : Live(c)' => Live(c)
    BY <1>1, <1>3, StopsEffect DEF Live
  <2> QED
    BY <1>3, <2>1, StopsEffect, EndsWarn DEF Detecting
<1>4. CASE RecordFinalCommit(o)
  <2>1. /\ own'[o].pc = "push" /\ \A p \in Owners \ {o} : own'[p] = own[p]
        /\ \A c \in final : diff'[c] = diff[c]
        /\ task' = task /\ events' = events /\ checked' = checked
    BY <1>4, RecordEffect DEF CoreInv, CommitsOK
  <2>2. \A c \in final : Live(c)' => Live(c)
    BY <2>1 DEF Live
  <2> QED
    BY <2>1, <2>2, EndsWarn DEF Detecting
<1>5. CASE Publish(o)
  <2>1. \E t \in Tasks :
           /\ task'[t].attempt = task[t].attempt
           /\ task'[t].status = "terminal" <=> task[t].status = "terminal"
           /\ \A u \in Tasks \ {t} : task'[u] = task[u]
           /\ own'[o].pc = "idle" /\ \A p \in Owners \ {o} : own'[p] = own[p]
           /\ UNCHANGED <<diff, events, checked>>
    BY <1>5, PublishEffect
  <2>2. \A c \in final : Live(c)' => Live(c)
    BY <1>1, <2>1 DEF Live
  <2> QED
    BY <2>1, <2>2, EndsWarn DEF Detecting
<1> QED
  BY <1>2, <1>3, <1>4, <1>5

LEMMA InitWarn == Init => WarnInv
<1> SUFFICES ASSUME Init PROVE WarnInv
  OBVIOUS
<1>1. final = {}
  BY DEF Init
<1> QED
  BY <1>1, InitCore DEF WarnInv, NeverBothBlind

LEMMA StepWarn == WarnInv /\ [Next]_vars => WarnInv'
<1> SUFFICES ASSUME CoreInv, NeverBothBlind, [Next]_vars PROVE NeverBothBlind'
  BY StepCore DEF WarnInv
<1>1. CASE UNCHANGED vars
  BY <1>1, EndsWarn DEF vars, Live
<1>2. ASSUME NEW t \in Tasks, LeaseLapses(t) \/ Revise(t) \/ Finish(t)
      PROVE  NeverBothBlind'
  BY <1>2, TaskStepsWarn
<1>3. ASSUME NEW o \in Owners,
             (\E t \in Tasks : Claim(o, t)) \/ Stops(o) \/ RecordFinalCommit(o) \/ Publish(o)
      PROVE  NeverBothBlind'
  BY <1>3, OwnerStepsWarn
<1>4. ASSUME NEW o \in Owners, Push(o) \/ LockPairs(o) \/ Reconcile(o) \/ CallFails(o)
      PROVE  NeverBothBlind'
  BY <1>4, OnwardWarn
<1>5. ASSUME NEW o \in Owners, ActiveSiblings(o) \/ Compare(o) \/ AppendDetected(o)
      PROVE  NeverBothBlind'
  BY <1>5, ActiveSiblingsWarn, CompareWarn, AppendWarn
<1> QED
  BY <1>1, <1>2, <1>3, <1>4, <1>5 DEF Next

\* A checked pair has two tasks, each with a commit of its own.
LEMMA PairCommits ==
  ASSUME CoreInv, NEW p \in CheckedPairs
  PROVE  \E t, u \in Tasks :
           /\ t # u /\ p = {t, u} /\ {Current(t), Current(u)} \subseteq checked
           /\ Live(Current(t)) /\ Live(Current(u))
           /\ CurrentCommits(p) = {Current(t), Current(u)}
           /\ ExpectedOf(p) = Expected(Current(t), Current(u))
<1> DEFINE done == {t \in Tasks : /\ task[t].status # "terminal"
                                 /\ <<t, task[t].attempt>> \in checked}
<1>1. PICK t \in done, u \in done : t # u /\ p = {t, u}
  BY DEF CheckedPairs, Pair
<1>2. CurrentCommits(p) = {Current(t), Current(u)}
  BY <1>1 DEF CurrentCommits, Current
<1>3. Current(t) # Current(u)
  BY <1>1 DEF Current
<1>4. ExpectedOf(p) = Expected(Current(t), Current(u))
  <2>1. PICK c, e : /\ c = CHOOSE x \in CurrentCommits(p) : TRUE
                    /\ e = CHOOSE x \in CurrentCommits(p) : x # c
    OBVIOUS
  <2>2. c \in {Current(t), Current(u)}
    BY <1>2, <2>1
  <2>3. e \in {Current(t), Current(u)} /\ e # c
    <3>1. \E x \in CurrentCommits(p) : x # c
      BY <1>2, <1>3
    <3>2. e \in CurrentCommits(p) /\ e # c
      BY <2>1, <3>1
    <3> QED
      BY <1>2, <3>2
  <2>4. ExpectedOf(p) = Expected(c, e)
    BY <2>1 DEF ExpectedOf
  <2>5. \/ c = Current(t) /\ e = Current(u)
        \/ c = Current(u) /\ e = Current(t)
    BY <2>2, <2>3
  <2> QED
    BY <2>4, <2>5, ExpectedSymmetric
<1>5. Live(Current(t)) /\ Live(Current(u)) /\ {Current(t), Current(u)} \subseteq checked
  BY <1>1 DEF Live, Current
<1> QED
  BY <1>1, <1>2, <1>4, <1>5

LEMMA WarnInvWarns == WarnInv => SomeoneIsWarned
<1> SUFFICES ASSUME WarnInv, NEW p \in CheckedPairs, ExpectedOf(p) # {}
             PROVE  \E c, e \in CurrentCommits(p) : c # e /\ <<c, e>> \in events
  BY DEF SomeoneIsWarned
<1>1. CoreInv /\ NeverBothBlind
  BY DEF WarnInv
<1>2. PICK t, u \in Tasks :
           /\ t # u /\ p = {t, u} /\ {Current(t), Current(u)} \subseteq checked
           /\ Live(Current(t)) /\ Live(Current(u))
           /\ CurrentCommits(p) = {Current(t), Current(u)}
           /\ ExpectedOf(p) = Expected(Current(t), Current(u))
  BY <1>1, PairCommits
<1>3. Current(t) \in final /\ Current(u) \in final
  BY <1>1, <1>2 DEF CoreInv, CommitsOK
<1>4. Current(t)[1] # Current(u)[1]
  BY <1>2 DEF Current
<1>5. ~(Blind(Current(t), Current(u)) /\ Blind(Current(u), Current(t)))
  BY <1>1, <1>2, <1>3, <1>4 DEF NeverBothBlind
<1>6. \/ <<Current(t), Current(u)>> \in events
      \/ <<Current(u), Current(t)>> \in events
  BY <1>2, <1>5 DEF Blind
<1> QED
  BY <1>2, <1>4, <1>6

(***************************************************************************)
(* publish.go, publishFromWorkspace, and detector.go, Detect: whatever the *)
(* owners of two tasks do at once, and whoever of them is replaced, of two *)
(* conflicting commits whose detections both went through at least one was *)
(* warned about the other.                                                 *)
(***************************************************************************)
THEOREM SomeoneIsAlwaysWarned == Spec => []SomeoneIsWarned
<1>1. Init => WarnInv
  BY InitWarn
<1>2. WarnInv /\ [Next]_vars => WarnInv'
  BY StepWarn
<1>3. WarnInv => SomeoneIsWarned
  BY WarnInvWarns
<1> QED
  BY <1>1, <1>2, <1>3, PTL DEF Spec
-----------------------------------------------------------------------------
(* The table.                                                              *)

\* No hunk holds a line that parseHunks takes for the header of another file.
NoPlusLookalike ==
  \A d \in Diffs : \A f \in DOMAIN d : \A i \in DOMAIN d[f] : d[f][i].lookalike # "plus"

\* A conflict between c and a commit of u, with the kinds their diffs call for.
TrueOf(c, u, d) ==
  \E e \in final : /\ e[1] = u /\ c[1] # u /\ d.at = {c, e}
                   /\ d.kinds \ {"semantic"} = Expected(c, e)

\* What is found and what is stored is true of two recorded commits.
TruthInv ==
  /\ \A c \in final : diff[c] \in Diffs
  /\ \A o \in Owners : \A c \in final :
       own[o].commit = c /\ own[o].pc \in {"lock", "reconcile", "append"} =>
         \A u \in DOMAIN own[o].dets : TrueOf(c, u, own[o].dets[u])
  /\ \A p \in DOMAIN rows : \E c \in final : \E u \in Tasks :
       p = Pair(c[1], u) /\ TrueOf(c, u, rows[p])

KindsInv == CoreInv /\ TruthInv

\* The table says of two commits what their diffs call for.
Exact(c, e) ==
  /\ Expected(c, e) # {} => Pair(c[1], e[1]) \in DOMAIN rows
  /\ Pair(c[1], e[1]) \in DOMAIN rows => rows[Pair(c[1], e[1])].at = {c, e}

\* The commits that a detection for c must take into account.
Opponents(c) == {e \in checked : e[1] # c[1] /\ Live(e)}

\* Unless two windows overlapped, one owner at most is in its window, its commit
\* is superseded by no other one, and the table is exact for what was checked.
AloneInv ==
  /\ \A o, p \in Owners : own[o].pc \in InWindow /\ own[p].pc \in InWindow => o = p
  /\ \A o \in Owners : own[o].pc \in InWindow /\ Current(own[o].commit[1]) \in final =>
       own[o].commit = Current(own[o].commit[1])

ExactInv == \A c \in checked : Live(c) => \A e \in Opponents(c) : Exact(c, e)

\* Stage by stage, what the owner in its window holds for the commits to which
\* its own is compared.
WindowOf(o, c) ==
  /\ own[o].pc = "fetch" => Opponents(c) \subseteq own[o].siblings
  /\ own[o].pc \in {"lock", "reconcile"} =>
       \A e \in Opponents(c) :
         /\ Expected(c, e) # {} => e[1] \in DOMAIN own[o].dets
         /\ e[1] \in DOMAIN own[o].dets => own[o].dets[e[1]].at = {c, e}
  /\ own[o].pc = "reconcile" => own[o].existing = PairsOf(c[1])
  /\ own[o].pc = "append" /\ Live(c) => \A e \in Opponents(c) : Exact(c, e)

WindowInv == \A o \in Owners : \A c \in final : own[o].commit = c => WindowOf(o, c)

SerialInv == ~raced => AloneInv /\ ExactInv /\ WindowInv

TableInv == KindsInv /\ SerialInv

\* A range is never empty.
LEMMA RangeIs ==
  ASSUME NEW d \in Diffs, NEW f \in DOMAIN d, NEW i \in DOMAIN d[f]
  PROVE  \E a, b \in Int : LineRange(d[f][i]) = <<a, b>> /\ a <= b
<1>1. d[f] \in Seq(Hunk)
  BY ConflictAssumption
<1>2. d[f][i] \in Hunk
  BY <1>1
<1> QED
  BY <1>2 DEF Hunk, LineRange

\* Reading a diff without an error gives all its ranges.
LEMMA ParsedWhole ==
  ASSUME NoPlusLookalike, NEW d \in Diffs, ~ParseFails(d), NEW f \in DOMAIN d
  PROVE  parseHunks(d, f) = {LineRange(d[f][i]) : i \in DOMAIN d[f]}
<1> DEFINE h == d[f]
           seen(i) == {j \in 1..(i - 1) : h[j].lookalike # "none"}
<1>1. h \in Seq(Hunk)
  BY ConflictAssumption
<1>2. DOMAIN h = 1..Len(h) /\ Len(h) \in Nat
  BY <1>1
<1>3. \A j \in DOMAIN h : h[j].lookalike \in {"none", "minus", "plus"}
  <2>1. \A j \in DOMAIN h : h[j] \in Hunk
    BY <1>1
  <2> QED
    BY <2>1 DEF Hunk
<1>4. \A i \in DOMAIN h : HeaderBefore(h, i) # "minus"
  BY DEF ParseFails
<1>5. ASSUME NEW j \in DOMAIN h, j + 1 \in DOMAIN h
      PROVE  h[j].lookalike = "none"
  <2> SUFFICES ASSUME h[j].lookalike # "none" PROVE FALSE
    OBVIOUS
  <2>1. h[j].lookalike = "minus"
    BY <1>3 DEF NoPlusLookalike
  <2>2. j \in seen(j + 1)
    BY <1>2
  <2>3. \A k \in seen(j + 1) : k <= j /\ k \in Int
    BY <1>2
  <2>4. (CHOOSE x \in seen(j + 1) : \A k \in seen(j + 1) : k <= x) = j
    BY <1>2, <2>2, <2>3
  <2>5. HeaderBefore(h, j + 1) = h[j].lookalike
    BY <2>2, <2>4 DEF HeaderBefore
  <2> QED
    BY <1>4, <1>5, <2>1, <2>5
<1>6. \A i \in DOMAIN h : seen(i) = {}
  BY <1>2, <1>5
<1>7. \A i \in DOMAIN h : HeaderBefore(h, i) = "none"
  BY <1>6 DEF HeaderBefore
<1> QED
  BY <1>7 DEF parseHunks

\* Two ranges are adjacent exactly if a line of one is near a line of the other.
LEMMA RangesNear ==
  ASSUME NEW a \in Int, NEW b \in Int, NEW c \in Int, NEW d \in Int, a <= b, c <= d
  PROVE  (\E x \in a..b, y \in c..d : x - y \in (-3)..3) <=> a <= d + 3 /\ c <= b + 3
<1>1. ASSUME NEW x \in a..b, NEW y \in c..d, x - y \in (-3)..3
      PROVE  a <= d + 3 /\ c <= b + 3
  BY <1>1
<1>2. ASSUME a <= d + 3, c <= b + 3
      PROVE  \E x \in a..b, y \in c..d : x - y \in (-3)..3
  <2>1. CASE a > d
    <3>1. a \in a..b /\ d \in c..d /\ a - d \in (-3)..3
      BY <1>2, <2>1
    <3> QED
      BY <3>1
  <2>2. CASE c > b
    <3>1. b \in a..b /\ c \in c..d /\ b - c \in (-3)..3
      BY <1>2, <2>2
    <3> QED
      BY <3>1
  <2>3. CASE a <= d /\ c <= b /\ a <= c
    <3>1. c \in a..b /\ c \in c..d /\ c - c \in (-3)..3
      BY <2>3
    <3> QED
      BY <3>1
  <2>4. CASE a <= d /\ c <= b /\ c <= a
    <3>1. a \in a..b /\ a \in c..d /\ a - a \in (-3)..3
      BY <2>4
    <3> QED
      BY <3>1
  <2> QED
    BY <2>1, <2>2, <2>3, <2>4
<1> QED
  BY <1>1, <1>2

LEMMA AdjacentIsNear ==
  ASSUME NoPlusLookalike, NEW a \in Diffs, NEW b \in Diffs, ~ParseFails(a), ~ParseFails(b),
         NEW f \in DOMAIN a \cap DOMAIN b
  PROVE  rangesAdjacent(parseHunks(a, f), parseHunks(b, f)) <=> LinesNear(a, b, f)
<1> DEFINE ra(i) == LineRange(a[f][i])
           rb(j) == LineRange(b[f][j])
           Near(i, j) == \E x \in ra(i)[1]..ra(i)[2], y \in rb(j)[1]..rb(j)[2] : x - y \in (-3)..3
           Close(i, j) == ra(i)[1] <= rb(j)[2] + 3 /\ rb(j)[1] <= ra(i)[2] + 3
<1>1. parseHunks(a, f) = {ra(i) : i \in DOMAIN a[f]} /\ parseHunks(b, f) = {rb(j) : j \in DOMAIN b[f]}
  BY ParsedWhole
<1>2. \A i \in DOMAIN a[f], j \in DOMAIN b[f] : Near(i, j) <=> Close(i, j)
  <2> SUFFICES ASSUME NEW i \in DOMAIN a[f], NEW j \in DOMAIN b[f]
               PROVE  Near(i, j) <=> Close(i, j)
    OBVIOUS
  <2>1. /\ ra(i)[1] \in Int /\ ra(i)[2] \in Int /\ ra(i)[1] <= ra(i)[2]
        /\ rb(j)[1] \in Int /\ rb(j)[2] \in Int /\ rb(j)[1] <= rb(j)[2]
    BY RangeIs
  <2> QED
    BY <2>1, RangesNear
<1>3. rangesAdjacent(parseHunks(a, f), parseHunks(b, f))
      <=> \E i \in DOMAIN a[f], j \in DOMAIN b[f] : Close(i, j)
  <2> HIDE DEF ra, rb
  <2> QED
    BY <1>1 DEF rangesAdjacent, adjacencyWindow
<1>4. LinesNear(a, b, f) <=> \E i \in DOMAIN a[f], j \in DOMAIN b[f] : Near(i, j)
  <2>1. Lines(a, f) = UNION {ra(i)[1]..ra(i)[2] : i \in DOMAIN a[f]}
    BY DEF Lines
  <2>2. Lines(b, f) = UNION {rb(j)[1]..rb(j)[2] : j \in DOMAIN b[f]}
    BY DEF Lines
  <2> HIDE DEF ra, rb
  <2> QED
    BY <2>1, <2>2 DEF LinesNear
<1> QED
  BY <1>2, <1>3, <1>4

\* A comparison that reads both diffs names exactly the kinds they call for.
LEMMA DetectedTrue ==
  ASSUME NoPlusLookalike, NEW c, NEW e, NEW answer, diff[c] \in Diffs, diff[e] \in Diffs,
         ~ParseFails(diff[c]), ~ParseFails(diff[e])
  PROVE  /\ Detected(c, e, answer).kinds \ {"semantic"} = Expected(c, e)
         /\ Detected(c, e, answer).at = {c, e}
<1> DEFINE a == diff[c]
           b == diff[e]
           shared == DOMAIN a \cap DOMAIN b
           K1 == {k \in {"file_overlap"} : shared # {}}
           K2 == {k \in {"adjacent_lines"} :
                    \E f \in shared : rangesAdjacent(parseHunks(a, f), parseHunks(b, f))}
           K3 == {k \in {"migration"} :
                    DOMAIN a \cap Migrations # {} /\ DOMAIN b \cap Migrations # {}}
           K4 == {k \in {"dependency"} : shared \cap Manifests # {}}
           K5 == {k \in {"merge_conflict"} : MergeTree(c, e) # {}}
           K6 == {k \in {"semantic"} : validateVerdict(answer) = "conflict"}
           E2 == {k \in {"adjacent_lines"} : \E f \in shared : LinesNear(a, b, f)}
           E3 == {k \in {"migration"} : \E f \in DOMAIN a, g \in DOMAIN b : {f, g} \subseteq Migrations}
           E4 == {k \in {"dependency"} : \E f \in Manifests : f \in shared}
<1>1. Overlap(a, b).kinds = K1 \cup K2 \cup K3 \cup K4
  BY DEF Overlap
<1>2. Detected(c, e, answer).kinds = Overlap(a, b).kinds \cup K5 \cup K6
      /\ Detected(c, e, answer).at = {c, e}
  BY DEF Detected
<1>3. Expected(c, e) = K1 \cup E2 \cup K5 \cup E3 \cup E4
  BY DEF Expected
<1>4. K2 = E2
  BY AdjacentIsNear
<1>5. K3 = E3
  OBVIOUS
<1>6. K4 = E4
  OBVIOUS
<1>7. K1 \cup K2 \cup K3 \cup K4 \cup K5 \subseteq {"file_overlap", "adjacent_lines", "migration", "dependency", "merge_conflict"}
      /\ K6 \subseteq {"semantic"}
  OBVIOUS
<1>8. "semantic" \notin {"file_overlap", "adjacent_lines", "migration", "dependency", "merge_conflict"}
  OBVIOUS
<1> HIDE DEF K1, K2, K3, K4, K5, K6, E2, E3, E4, a, b
<1> QED
  BY <1>1, <1>2, <1>3, <1>4, <1>5, <1>6, <1>7, <1>8

\* What is true stays true.
LEMMA TrueStays ==
  ASSUME CoreInv, \A x \in final : diff'[x] = diff[x], final \subseteq final',
         NEW c \in final, NEW u, NEW d, TrueOf(c, u, d)
  PROVE  TrueOf(c, u, d)'
BY ExpectedStable DEF TrueOf

LEMMA CompareTrue ==
  ASSUME NoPlusLookalike, KindsInv, NEW o \in Owners, Compare(o), own'[o].pc = "lock",
         NEW u \in DOMAIN own'[o].dets
  PROVE  TrueOf(own[o].commit, u, own'[o].dets[u])
<1>1. own[o].pc = "fetch" /\ CoreInv /\ own[o].commit \in final
  BY CompareFinds DEF KindsInv, CoreInv, OwnersOK, InWindow
<1>2. PICK present : Finds(o, present)
  BY <1>1, CompareFinds
<1>3. PICK e \in present : e[1] = u
  BY <1>2 DEF Finds
<1>4. e \in own[o].siblings /\ e \in final /\ e[1] # own[o].commit[1]
  BY <1>1, <1>2, <1>3 DEF Finds, CoreInv, SiblingsOK
<1>5. PICK answer : own'[o].dets[u] = Detected(own[o].commit, e, answer)
  BY <1>2, <1>3 DEF Finds
<1>6. ~ParseFails(diff[own[o].commit]) /\ ~ParseFails(diff[e])
  BY <1>2, <1>3 DEF Finds
<1>7. diff[own[o].commit] \in Diffs /\ diff[e] \in Diffs
  BY <1>1, <1>4 DEF KindsInv, TruthInv
<1>8. /\ own'[o].dets[u].kinds \ {"semantic"} = Expected(own[o].commit, e)
      /\ own'[o].dets[u].at = {own[o].commit, e}
  BY <1>5, <1>6, <1>7, DetectedTrue
<1> QED
  BY <1>3, <1>4, <1>8 DEF TrueOf

\* A step that adds nothing false to what was found and stored.
LEMMA TruthKept ==
  ASSUME KindsInv, final \subseteq final', \A x \in final : diff'[x] = diff[x],
         \A c \in final' : diff'[c] \in Diffs,
         \A o \in Owners : own'[o].pc \in {"lock", "reconcile", "append"} =>
           /\ own'[o].commit \in final
           /\ \A c \in final : own'[o].commit = c =>
                \A u \in DOMAIN own'[o].dets : TrueOf(c, u, own'[o].dets[u]),
         \A p \in DOMAIN rows' : \E c \in final : \E u \in Tasks :
           p = Pair(c[1], u) /\ TrueOf(c, u, rows'[p])
  PROVE  TruthInv'
<1>0. CoreInv
  BY DEF KindsInv
<1>1. \A o \in Owners : \A c \in final' :
       own'[o].commit = c /\ own'[o].pc \in {"lock", "reconcile", "append"} =>
         \A u \in DOMAIN own'[o].dets : TrueOf(c, u, own[o].dets[u])'
  <2> SUFFICES ASSUME NEW o \in Owners, NEW c \in final', own'[o].commit = c,
                      own'[o].pc \in {"lock", "reconcile", "append"}, NEW u \in DOMAIN own'[o].dets
               PROVE  TrueOf(c, u, own[o].dets[u])'
    OBVIOUS
  <2>1. c \in final /\ TrueOf(c, u, own'[o].dets[u])
    OBVIOUS
  <2> QED
    BY <1>0, <2>1, ExpectedStable DEF TrueOf
<1>2. \A p \in DOMAIN rows' : \E c \in final' : \E u \in Tasks :
        p = Pair(c[1], u) /\ TrueOf(c, u, rows[p])'
  <2> SUFFICES ASSUME NEW p \in DOMAIN rows'
               PROVE  \E c \in final' : \E u \in Tasks : p = Pair(c[1], u) /\ TrueOf(c, u, rows[p])'
    OBVIOUS
  <2>1. PICK c \in final, u \in Tasks : p = Pair(c[1], u) /\ TrueOf(c, u, rows'[p])
    OBVIOUS
  <2>2. TrueOf(c, u, rows[p])'
    BY <1>0, <2>1, ExpectedStable DEF TrueOf
  <2> QED
    BY <2>1, <2>2 DEF Pair
<1> QED
  BY <1>1, <1>2 DEF TruthInv, TrueOf, Pair

\* What the transaction stores: what was found, and the rows it did not lock.
LEMMA Stores ==
  ASSUME CoreInv, NEW o \in Owners, Reconcile(o), own'[o].pc = "append"
  PROVE  LET t == own[o].commit[1]
             dets == own[o].dets
         IN
         /\ own[o].pc = "reconcile"
         /\ DOMAIN rows' = (DOMAIN rows \ own[o].existing) \cup {Pair(t, u) : u \in DOMAIN dets}
         /\ \A u \in DOMAIN dets : rows'[Pair(t, u)] = dets[u]
         /\ \A p \in DOMAIN rows' :
              p \notin {Pair(t, u) : u \in DOMAIN dets} => rows'[p] = rows[p]
<1> DEFINE t == own[o].commit[1]
           dets == own[o].dets
           desired == {Pair(t, u) : u \in DOMAIN dets}
           after == [p \in (DOMAIN rows \ own[o].existing) \cup desired |->
                       IF p \in desired
                       THEN dets[CHOOSE u \in DOMAIN dets : p = Pair(t, u)] ELSE rows[p]]
<1>1. own[o].pc = "reconcile"
  BY DEF Reconcile, At
<1>2. \/ rows' = Reconciled(o)
      \/ own' = [own EXCEPT ![o] = Settled(own[o].commit, "publish")]
  BY Zenon DEF Reconcile
<1>3. rows' = Reconciled(o)
  BY <1>2, SettledIs DEF CoreInv, TypeOK
<1>4. rows' = after
  BY <1>3, Zenon DEF Reconciled
<1> HIDE DEF t, dets
<1>5. \A u, v : Pair(t, u) = Pair(t, v) => u = v
  BY DEF Pair
<1>6. \A u \in DOMAIN dets : (CHOOSE v \in DOMAIN dets : Pair(t, u) = Pair(t, v)) = u
  BY <1>5
<1>7. \A u \in DOMAIN dets : rows'[Pair(t, u)] = dets[u]
  BY <1>4, <1>6
<1>8. /\ DOMAIN rows' = (DOMAIN rows \ own[o].existing) \cup desired
      /\ \A p \in DOMAIN rows' : p \notin desired => rows'[p] = rows[p]
  BY <1>4
<1> USE DEF t, dets
<1> QED
  BY <1>1, <1>7, <1>8

LEMMA StoresNot ==
  ASSUME CoreInv, NEW o \in Owners, Reconcile(o), own'[o].pc # "append"
  PROVE  rows' = rows /\ own'[o].pc = "publish"
<1>1. own'[o].pc = "publish"
  BY ReconcileAdvances
<1>2. \/ rows' = rows
      \/ own' = [own EXCEPT ![o].pc = "append", ![o].existing = {}]
  BY Zenon DEF Reconcile
<1> QED
  BY <1>1, <1>2 DEF CoreInv, TypeOK, Fields

\* Only Reconcile writes rows.
LEMMA RowsStay ==
  ASSUME [Next]_vars, \A o \in Owners : ~Reconcile(o)
  PROVE  rows' = rows
<1>1. CASE UNCHANGED vars
  BY <1>1 DEF vars
<1>2. ASSUME NEW t \in Tasks, LeaseLapses(t) \/ Revise(t) \/ Finish(t)
      PROVE  rows' = rows
  BY <1>2 DEF LeaseLapses, Revise, Finish
<1>3. ASSUME NEW o \in Owners,
             \/ \E t \in Tasks : Claim(o, t)
             \/ Stops(o) \/ RecordFinalCommit(o) \/ Push(o) \/ ActiveSiblings(o) \/ Compare(o)
             \/ LockPairs(o) \/ CallFails(o) \/ AppendDetected(o) \/ Publish(o)
      PROVE  rows' = rows
  BY <1>3 DEF Claim, Stops, RecordFinalCommit, Push, ActiveSiblings, Compare, LockPairs,
     CallFails, AppendDetected, Publish
<1> QED
  BY <1>1, <1>2, <1>3 DEF Next

\* A step in which nothing new is found.
LEMMA NothingFound ==
  ASSUME KindsInv, rows' = rows, final \subseteq final', \A x \in final : diff'[x] = diff[x],
         \A c \in final' : diff'[c] \in Diffs,
         \A o \in Owners : own'[o].pc \in {"lock", "reconcile", "append"} =>
           /\ own[o].pc \in {"lock", "reconcile", "append"}
           /\ own'[o].commit = own[o].commit /\ own'[o].dets = own[o].dets
  PROVE  TruthInv'
<1>1. \A o \in Owners : own'[o].pc \in {"lock", "reconcile", "append"} =>
           /\ own'[o].commit \in final
           /\ \A c \in final : own'[o].commit = c =>
                \A u \in DOMAIN own'[o].dets : TrueOf(c, u, own'[o].dets[u])
  BY DEF KindsInv, TruthInv, CoreInv, OwnersOK, InWindow
<1>2. \A p \in DOMAIN rows' : \E c \in final : \E u \in Tasks :
        p = Pair(c[1], u) /\ TrueOf(c, u, rows'[p])
  BY DEF KindsInv, TruthInv
<1> QED
  BY <1>1, <1>2, TruthKept

LEMMA AdvancesNothingFound ==
  ASSUME KindsInv, NEW o \in Owners, Advances(o), rows' = rows,
         \/ own'[o].pc \notin {"lock", "reconcile", "append"}
         \/ own[o].pc \in {"lock", "reconcile", "append"} /\ own'[o].dets = own[o].dets
  PROVE  TruthInv'
<1>1. \A p \in Owners : own'[p].pc \in {"lock", "reconcile", "append"} =>
           /\ own[p].pc \in {"lock", "reconcile", "append"}
           /\ own'[p].commit = own[p].commit /\ own'[p].dets = own[p].dets
  BY DEF Advances
<1>2. final' = final /\ diff' = diff /\ \A c \in final' : diff'[c] \in Diffs
  BY DEF Advances, KindsInv, TruthInv
<1> QED
  BY <1>1, <1>2, NothingFound

LEMMA OnwardTruth ==
  ASSUME KindsInv, NEW o \in Owners,
         \/ Push(o) \/ ActiveSiblings(o) \/ LockPairs(o) \/ CallFails(o) \/ AppendDetected(o)
  PROVE  TruthInv'
<1>1. CoreInv /\ rows' = rows
  BY DEF KindsInv, Push, ActiveSiblings, LockPairs, CallFails, AppendDetected
<1>2. CASE Push(o)
  BY <1>1, <1>2, PushAdvances, AdvancesNothingFound
<1>3. CASE ActiveSiblings(o)
  BY <1>1, <1>3, ActiveSiblingsAdvances, ListedNone, AdvancesNothingFound
<1>4. CASE LockPairs(o)
  BY <1>1, <1>4, LockPairsAdvances, AdvancesNothingFound DEF LockPairs, At
<1>5. CASE CallFails(o)
  BY <1>1, <1>5, CallFailsAdvances, AdvancesNothingFound
<1>6. CASE AppendDetected(o)
  BY <1>1, <1>6, AppendDetectedAdvances, AdvancesNothingFound
<1> QED
  BY <1>2, <1>3, <1>4, <1>5, <1>6

LEMMA RestTruth ==
  ASSUME KindsInv,
         \/ UNCHANGED vars
         \/ \E t \in Tasks : LeaseLapses(t) \/ Revise(t) \/ Finish(t)
         \/ \E o \in Owners : \/ \E t \in Tasks : Claim(o, t)
                              \/ Stops(o) \/ Publish(o)
  PROVE  TruthInv'
<1>1. UNCHANGED <<diff, final, rows>>
  BY DEF vars, LeaseLapses, Revise, Finish, Claim, Stops, Publish
<1>2. \A p \in Owners : own'[p].pc \in {"lock", "reconcile", "append"} => own'[p] = own[p]
  <2>1. CASE UNCHANGED vars
    BY <2>1 DEF vars
  <2>2. CASE \E t \in Tasks : LeaseLapses(t) \/ Revise(t) \/ Finish(t)
    BY <2>2 DEF LeaseLapses, Revise, Finish
  <2>3. ASSUME NEW o \in Owners, NEW t \in Tasks, Claim(o, t)
        PROVE  \A p \in Owners : own'[p].pc \in {"lock", "reconcile", "append"} => own'[p] = own[p]
    BY <2>3 DEF Claim, KindsInv, CoreInv, TypeOK, Idle
  <2>4. ASSUME NEW o \in Owners, Stops(o)
        PROVE  \A p \in Owners : own'[p].pc \in {"lock", "reconcile", "append"} => own'[p] = own[p]
    BY <2>4, StopsEffect DEF KindsInv
  <2>5. ASSUME NEW o \in Owners, Publish(o)
        PROVE  \A p \in Owners : own'[p].pc \in {"lock", "reconcile", "append"} => own'[p] = own[p]
    BY <2>5, PublishEffect DEF KindsInv
  <2> QED
    BY <2>1, <2>2, <2>3, <2>4, <2>5
<1>3. \A c \in final' : diff'[c] \in Diffs
  BY <1>1 DEF KindsInv, TruthInv
<1> QED
  BY <1>1, <1>2, <1>3, NothingFound

LEMMA RecordTruth ==
  ASSUME KindsInv, NEW o \in Owners, RecordFinalCommit(o)
  PROVE  TruthInv'
<1>1. CoreInv
  BY DEF KindsInv
<1>2. /\ final' = final \cup {own[o].commit} /\ rows' = rows
      /\ \A x \in final : diff'[x] = diff[x]
      /\ own'[o].pc = "push" /\ \A p \in Owners \ {o} : own'[p] = own[p]
  BY <1>1, RecordEffect DEF CoreInv, CommitsOK
<1>3. diff'[own[o].commit] \in Diffs
  <2>1. CASE own[o].commit \in DOMAIN diff
    BY <1>1, <1>2, <2>1 DEF KindsInv, TruthInv, CoreInv, CommitsOK
  <2>2. CASE own[o].commit \notin DOMAIN diff
    BY <2>2 DEF RecordFinalCommit
  <2> QED
    BY <2>1, <2>2
<1>4. \A c \in final' : diff'[c] \in Diffs
  BY <1>2, <1>3 DEF KindsInv, TruthInv
<1> QED
  BY <1>2, <1>4, NothingFound

LEMMA CompareTruth ==
  ASSUME NoPlusLookalike, KindsInv, NEW o \in Owners, Compare(o)
  PROVE  TruthInv'
<1>1. CoreInv /\ Advances(o) /\ own'[o].pc \in {"publish", "lock"} /\ rows' = rows
  BY CompareAdvances DEF KindsInv, Compare
<1>2. CASE own'[o].pc = "publish"
  BY <1>1, <1>2, AdvancesNothingFound
<1>3. CASE own'[o].pc = "lock"
  <2>1. \A p \in Owners : own'[p].pc \in {"lock", "reconcile", "append"} =>
           /\ own'[p].commit \in final
           /\ \A c \in final : own'[p].commit = c =>
                \A u \in DOMAIN own'[p].dets : TrueOf(c, u, own'[p].dets[u])
    <3> SUFFICES ASSUME NEW p \in Owners, own'[p].pc \in {"lock", "reconcile", "append"}
                 PROVE  /\ own'[p].commit \in final
                        /\ \A c \in final : own'[p].commit = c =>
                             \A u \in DOMAIN own'[p].dets : TrueOf(c, u, own'[p].dets[u])
      OBVIOUS
    <3>1. CASE p = o
      <4>1. \A u \in DOMAIN own'[o].dets : TrueOf(own[o].commit, u, own'[o].dets[u])
        BY <1>3, CompareTrue
      <4>2. own'[o].commit = own[o].commit /\ own[o].commit \in final
        BY <1>1 DEF Advances, CoreInv, OwnersOK
      <4>3. \A c \in final : own[o].commit = c =>
              \A u \in DOMAIN own'[o].dets : TrueOf(c, u, own'[o].dets[u])
        BY <4>1 DEF TrueOf
      <4> QED
        BY <3>1, <4>2, <4>3
    <3>2. CASE p # o
      BY <1>1, <3>2 DEF Advances, KindsInv, TruthInv, CoreInv, OwnersOK, InWindow
    <3> QED
      BY <3>1, <3>2
  <2>2. final' = final /\ diff' = diff /\ \A c \in final' : diff'[c] \in Diffs
    BY <1>1 DEF Advances, KindsInv, TruthInv
  <2>3. \A p \in DOMAIN rows' : \E c \in final : \E u \in Tasks :
          p = Pair(c[1], u) /\ TrueOf(c, u, rows'[p])
    BY <1>1 DEF KindsInv, TruthInv
  <2> QED
    BY <2>1, <2>2, <2>3, TruthKept
<1> QED
  BY <1>1, <1>2, <1>3

LEMMA ReconcileTruth ==
  ASSUME KindsInv, NEW o \in Owners, Reconcile(o)
  PROVE  TruthInv'
<1>1. CoreInv /\ Advances(o)
  BY ReconcileAdvances DEF KindsInv
<1>2. CASE own'[o].pc # "append"
  BY <1>1, <1>2, StoresNot, AdvancesNothingFound
<1>3. CASE own'[o].pc = "append"
  <2> DEFINE t == own[o].commit[1]
             dets == own[o].dets
             c == own[o].commit
  <2>1. /\ own[o].pc = "reconcile"
        /\ DOMAIN rows' = (DOMAIN rows \ own[o].existing) \cup {Pair(t, u) : u \in DOMAIN dets}
        /\ \A u \in DOMAIN dets : rows'[Pair(t, u)] = dets[u]
        /\ \A p \in DOMAIN rows' :
             p \notin {Pair(t, u) : u \in DOMAIN dets} => rows'[p] = rows[p]
    BY <1>1, <1>3, Stores
  <2>2. c \in final /\ \A u \in DOMAIN dets : TrueOf(c, u, dets[u])
    BY <1>1, <2>1 DEF KindsInv, TruthInv, CoreInv, OwnersOK, InWindow
  <2>3. \A u \in DOMAIN dets : u \in Tasks
    BY <1>1, <2>2 DEF TrueOf, CoreInv, CommitsOK, CommitsOf
  <2> HIDE DEF dets
  <2>4. ASSUME NEW p \in DOMAIN rows'
        PROVE  \E x \in final : \E u \in Tasks : p = Pair(x[1], u) /\ TrueOf(x, u, rows'[p])
    <3>1. CASE p \in {Pair(t, u) : u \in DOMAIN dets}
      <4>1. PICK u \in DOMAIN dets : p = Pair(t, u)
        BY <3>1
      <4>2. rows'[p] = dets[u] /\ u \in Tasks
        BY <2>1, <2>3, <4>1
      <4>3. TrueOf(c, u, rows'[p])
        BY <2>2, <4>2
      <4> HIDE DEF c
      <4>4. \E x \in final : p = Pair(x[1], u) /\ TrueOf(x, u, rows'[p])
        <5>1. PICK x \in final : x = c
          BY <2>2
        <5>2. TrueOf(x, u, rows'[p])
          BY <4>3, <5>1
        <5> QED
          BY <4>1, <5>1, <5>2 DEF c
      <4> QED
        BY <4>2, <4>4
    <3>2. CASE p \notin {Pair(t, u) : u \in DOMAIN dets}
      <4>1. p \in DOMAIN rows /\ rows'[p] = rows[p]
        BY <2>1, <3>2
      <4> QED
        BY <4>1 DEF KindsInv, TruthInv
    <3> QED
      BY <3>1, <3>2
  <2>5. \A p \in Owners : own'[p].pc \in {"lock", "reconcile", "append"} =>
           /\ own'[p].commit \in final
           /\ \A x \in final : own'[p].commit = x =>
                \A u \in DOMAIN own'[p].dets : TrueOf(x, u, own'[p].dets[u])
    <3>1. \A p \in Owners : own'[p].pc \in {"lock", "reconcile", "append"} =>
            /\ own[p].pc \in {"lock", "reconcile", "append"}
            /\ own'[p].commit = own[p].commit /\ own'[p].dets = own[p].dets
      BY <1>1, <1>3, <2>1, ReconcileAdvances DEF Advances
    <3> QED
      BY <1>1, <3>1 DEF KindsInv, TruthInv, CoreInv, OwnersOK, InWindow
  <2>6. final' = final /\ diff' = diff /\ \A x \in final' : diff'[x] \in Diffs
    BY <1>1 DEF Advances, KindsInv, TruthInv
  <2> QED
    BY <2>4, <2>5, <2>6, TruthKept
<1> QED
  BY <1>2, <1>3

LEMMA StepKinds ==
  ASSUME NoPlusLookalike
  PROVE  KindsInv /\ [Next]_vars => KindsInv'
<1> SUFFICES ASSUME KindsInv, [Next]_vars PROVE TruthInv'
  BY StepCore DEF KindsInv
<1> QED
  BY OnwardTruth, RestTruth, RecordTruth, CompareTruth, ReconcileTruth DEF Next
-----------------------------------------------------------------------------
(* The table is exact as long as no two windows overlap.                   *)

LEMMA ExactSymmetric ==
  ASSUME NEW c, NEW e, Exact(c, e)
  PROVE  Exact(e, c)
<1>1. Pair(c[1], e[1]) = Pair(e[1], c[1]) /\ {c, e} = {e, c}
  BY DEF Pair
<1> QED
  BY <1>1, ExpectedSymmetric DEF Exact

LEMMA OpponentsShrink ==
  ASSUME CoreInv, checked' = checked, \A x \in final : Live(x)' => Live(x), NEW c
  PROVE  Opponents(c)' \subseteq Opponents(c)
BY DEF Opponents, CoreInv, CommitsOK

LEMMA ExactStays ==
  ASSUME CoreInv, rows' = rows, \A x \in final : diff'[x] = diff[x],
         NEW c \in final, NEW e \in final, Exact(c, e)
  PROVE  Exact(c, e)'
BY ExpectedStable DEF Exact, Pair

\* Neither the table, nor what is checked, nor a detection is touched.
LEMMA QuietSerial ==
  ASSUME CoreInv, SerialInv, checked' = checked, rows' = rows, final \subseteq final',
         \A x \in final : diff'[x] = diff[x], \A x \in final : Live(x)' => Live(x),
         ~raced' => ~raced /\ AloneInv',
         \A o \in Owners : own'[o].pc \in Detecting => own'[o] = own[o]
  PROVE  SerialInv'
<1> SUFFICES ASSUME ~raced' PROVE ExactInv' /\ WindowInv'
  BY DEF SerialInv
<1>1. ExactInv /\ WindowInv
  BY DEF SerialInv
<1>2. checked \subseteq final
  BY DEF CoreInv, CommitsOK
<1>3. ExactInv'
  <2> SUFFICES ASSUME NEW c \in checked', Live(c)', NEW e \in Opponents(c)'
               PROVE  Exact(c, e)'
    BY DEF ExactInv
  <2>1. c \in checked /\ Live(c) /\ e \in Opponents(c) /\ e \in checked
    BY <1>2, OpponentsShrink DEF Opponents
  <2>2. Exact(c, e)
    BY <1>1, <2>1 DEF ExactInv
  <2> QED
    BY <1>2, <2>1, <2>2, ExactStays
<1>4. WindowInv'
  <2> SUFFICES ASSUME NEW o \in Owners, NEW c \in final', own'[o].commit = c,
                      own'[o].pc \in Detecting
               PROVE  WindowOf(o, c)'
    BY DEF WindowInv, WindowOf, Detecting
  <2>1. own'[o] = own[o] /\ c \in final
    BY DEF CoreInv, OwnersOK, Detecting, InWindow
  <2>2. WindowOf(o, c)
    BY <1>1, <2>1 DEF WindowInv
  <2>3. Opponents(c)' \subseteq Opponents(c) /\ Opponents(c) \subseteq final
    BY <1>2, OpponentsShrink DEF Opponents
  <2>4. \A e \in Opponents(c) : Expected(c, e)' = Expected(c, e)
    BY <2>1, <2>3, ExpectedStable
  <2>5. \A e \in Opponents(c) : Exact(c, e) => Exact(c, e)'
    BY <2>1, <2>3, ExactStays
  <2>6. PairsOf(c[1])' = PairsOf(c[1])
    BY DEF PairsOf
  <2>7. Live(c)' => Live(c)
    BY <2>1
  <2> QED
    BY <2>1, <2>2, <2>3, <2>4, <2>5, <2>6, <2>7 DEF WindowOf
<1> QED
  BY <1>3, <1>4

\* An owner that goes on is alone in its window.
LEMMA AdvancesAlone ==
  ASSUME CoreInv, AloneInv, NEW o \in Owners, Advances(o)
  PROVE  AloneInv' /\ \A p \in Owners \ {o} : own'[p].pc \notin InWindow
<1>1. \A p \in Owners \ {o} : own'[p].pc \notin InWindow
  BY DEF AloneInv, Advances
<1>2. own[o].pc \in InWindow /\ own'[o].commit = own[o].commit /\ final' = final /\ task' = task
  BY DEF Advances
<1> QED
  BY <1>1, <1>2 DEF AloneInv, Current

LEMMA AdvancesSerial ==
  ASSUME CoreInv, SerialInv, NEW o \in Owners, Advances(o),
         ~raced => ExactInv' /\ \A c \in final : own[o].commit = c => WindowOf(o, c)'
  PROVE  SerialInv'
<1> SUFFICES ASSUME ~raced' PROVE AloneInv' /\ WindowInv' /\ ExactInv'
  BY DEF SerialInv
<1>1. ~raced /\ final' = final /\ own'[o].commit = own[o].commit
  BY DEF Advances
<1>2. AloneInv' /\ \A p \in Owners \ {o} : own'[p].pc \notin InWindow
  BY <1>1, AdvancesAlone DEF SerialInv
<1>3. WindowInv'
  <2> SUFFICES ASSUME NEW p \in Owners, NEW c \in final', own'[p].commit = c
               PROVE  WindowOf(p, c)'
    BY DEF WindowInv
  <2>1. CASE p = o
    BY <1>1, <2>1 DEF WindowOf
  <2>2. CASE p # o
    BY <1>2, <2>2 DEF WindowOf, InWindow
  <2> QED
    BY <2>1, <2>2
<1> QED
  BY <1>1, <1>2, <1>3

\* When an owner that goes on leaves the table and what is checked alone.
LEMMA AdvancesExact ==
  ASSUME CoreInv, ExactInv, NEW o \in Owners, Advances(o), rows' = rows, checked' = checked
  PROVE  ExactInv' /\ \A c : Opponents(c)' = Opponents(c)
<1>1. task' = task /\ diff' = diff /\ final' = final
  BY DEF Advances
<1>2. \A c : Live(c)' <=> Live(c)
  BY <1>1 DEF Live
<1>3. \A c : Opponents(c)' = Opponents(c)
  BY <1>2 DEF Opponents
<1>4. \A c, e \in final : Exact(c, e) => Exact(c, e)'
  BY <1>1, ExactStays
<1>5. checked \subseteq final /\ \A c : Opponents(c) \subseteq final
  BY DEF CoreInv, CommitsOK, Opponents
<1> QED
  BY <1>2, <1>3, <1>4, <1>5 DEF ExactInv

LEMMA PushSerial ==
  ASSUME CoreInv, SerialInv, NEW o \in Owners, Push(o)
  PROVE  SerialInv'
<1>1. Advances(o) /\ own'[o].pc = "list" /\ rows' = rows /\ checked' = checked
  BY PushAdvances DEF Push
<1>2. \A c : WindowOf(o, c)'
  BY <1>1 DEF WindowOf
<1> QED
  BY <1>1, <1>2, AdvancesSerial, AdvancesExact DEF SerialInv

LEMMA CallFailsSerial ==
  ASSUME CoreInv, SerialInv, NEW o \in Owners, CallFails(o)
  PROVE  SerialInv'
<1>1. Advances(o) /\ own'[o].pc = "publish" /\ rows' = rows /\ checked' = checked
  BY CallFailsAdvances DEF CallFails
<1>2. \A c : WindowOf(o, c)'
  BY <1>1 DEF WindowOf
<1> QED
  BY <1>1, <1>2, AdvancesSerial, AdvancesExact DEF SerialInv

LEMMA ActiveSiblingsSerial ==
  ASSUME CoreInv, SerialInv, NEW o \in Owners, ActiveSiblings(o)
  PROVE  SerialInv'
<1>1. Advances(o) /\ rows' = rows /\ own'[o].pc \in {"fetch", "publish"}
  BY ActiveSiblingsAdvances, ListedNone DEF ActiveSiblings
<1>2. checked \subseteq final
  BY DEF CoreInv, CommitsOK
<1>3. \A e \in final : e[1] # own[o].commit[1] /\ Live(e) =>
        own'[o].pc = "fetch" /\ e \in own'[o].siblings
  <2> SUFFICES ASSUME NEW e \in final, e[1] # own[o].commit[1], Live(e)
               PROVE  own'[o].pc = "fetch" /\ e \in own'[o].siblings
    OBVIOUS
  <2>1. e[1] \in Tasks \ {own[o].commit[1]} /\ e = Current(e[1]) /\ task[e[1]].status # "terminal"
    BY DEF Live, Current, CoreInv, CommitsOK, CommitsOf
  <2>2. own'[o].pc = "fetch"
    BY <2>1, ListedNone
  <2> QED
    BY <2>1, <2>2, ListedSiblings
<1>4. CASE own'[o].pc = "fetch"
  <2>1. checked' = checked
    BY <1>4 DEF ActiveSiblings, CoreInv, TypeOK, Fields
  <2>2. ASSUME NEW c \in final, own[o].commit = c, ~raced
        PROVE  WindowOf(o, c)'
    <3>1. Opponents(c)' = Opponents(c)
      BY <1>1, <2>1, <2>2, AdvancesExact DEF SerialInv
    <3>2. Opponents(c) \subseteq own'[o].siblings
      BY <1>2, <1>3, <2>2 DEF Opponents
    <3> QED
      BY <1>4, <3>1, <3>2 DEF WindowOf
  <2> QED
    BY <1>1, <2>1, <2>2, AdvancesSerial, AdvancesExact DEF SerialInv
<1>5. CASE own'[o].pc = "publish"
  <2>1. \A e \in final : Live(e) => e[1] = own[o].commit[1]
    BY <1>3, <1>5
  <2>2. task' = task /\ final' = final /\ checked' \subseteq final
    BY <1>1, <1>2 DEF Advances, CoreInv, OwnersOK, InWindow
  <2>3. ExactInv'
    <3> SUFFICES ASSUME NEW c \in checked', Live(c)', NEW e \in Opponents(c)' PROVE FALSE
      BY DEF ExactInv
    <3>1. Live(c) /\ Live(e) /\ c \in final /\ e \in final /\ e[1] # c[1]
      BY <2>2 DEF Opponents, Live
    <3> QED
      BY <2>1, <3>1
  <2>4. \A c : WindowOf(o, c)'
    BY <1>5 DEF WindowOf
  <2> QED
    BY <1>1, <2>3, <2>4, AdvancesSerial
<1> QED
  BY <1>1, <1>4, <1>5

LEMMA CompareSerial ==
  ASSUME CoreInv, SerialInv, NEW o \in Owners, Compare(o)
  PROVE  SerialInv'
<1>1. Advances(o) /\ own'[o].pc \in {"publish", "lock"} /\ rows' = rows /\ checked' = checked
  BY CompareAdvances DEF Compare
<1>2. ASSUME NEW c \in final, own[o].commit = c, ~raced
      PROVE  WindowOf(o, c)'
  <2>1. CASE own'[o].pc = "publish"
    BY <2>1 DEF WindowOf
  <2>2. CASE own'[o].pc = "lock"
    <3>1. own[o].pc = "fetch" /\ \E present : Finds(o, present)
      BY <2>2, CompareFinds
    <3>2. PICK present : Finds(o, present)
      BY <3>1
    <3>3. Opponents(c)' = Opponents(c) /\ diff' = diff
      BY <1>1, <1>2, AdvancesExact DEF SerialInv, Advances
    <3>4. Opponents(c) \subseteq present /\ Opponents(c) \subseteq final
      <4>1. Opponents(c) \subseteq own[o].siblings
        BY <1>2, <3>1 DEF SerialInv, WindowInv, WindowOf
      <4>2. Opponents(c) \subseteq pushed \cap final
        BY DEF Opponents, CoreInv, CommitsOK
      <4> QED
        BY <3>2, <4>1, <4>2 DEF Finds
    <3>5. ASSUME NEW e \in Opponents(c)
          PROVE  /\ Expected(c, e)' # {} => e[1] \in DOMAIN own'[o].dets
                 /\ e[1] \in DOMAIN own'[o].dets => own'[o].dets[e[1]].at = {c, e}
      <4>1. Expected(c, e)' = Expected(c, e)
        BY <3>3, <3>4, ExpectedStable
      <4>2. PICK answer :
              /\ Detected(c, e, answer).kinds # {} => e[1] \in DOMAIN own'[o].dets
              /\ e[1] \in DOMAIN own'[o].dets => own'[o].dets[e[1]] = Detected(c, e, answer)
        BY <1>2, <3>2, <3>4 DEF Finds
      <4>3. Detected(c, e, answer).at = {c, e}
        BY DEF Detected
      <4> QED
        BY <4>1, <4>2, <4>3, SomethingFound
    <3> QED
      BY <2>2, <3>3, <3>5 DEF WindowOf
  <2> QED
    BY <1>1, <2>1, <2>2
<1> QED
  BY <1>1, <1>2, AdvancesSerial, AdvancesExact DEF SerialInv

LEMMA LockPairsSerial ==
  ASSUME CoreInv, SerialInv, NEW o \in Owners, LockPairs(o)
  PROVE  SerialInv'
<1>1. /\ Advances(o) /\ own[o].pc = "lock" /\ own'[o].pc = "reconcile"
      /\ own'[o].dets = own[o].dets /\ rows' = rows /\ checked' = checked
  BY LockPairsAdvances DEF LockPairs, At
<1>2. own'[o].existing = PairsOf(own[o].commit[1])
  BY DEF LockPairs, CoreInv, TypeOK, Fields
<1>3. ASSUME NEW c \in final, own[o].commit = c, ~raced
      PROVE  WindowOf(o, c)'
  <2>1. Opponents(c)' = Opponents(c) /\ Opponents(c) \subseteq final /\ diff' = diff
    BY <1>1, <1>3, AdvancesExact DEF SerialInv, Advances, Opponents, CoreInv, CommitsOK
  <2>2. \A e \in Opponents(c) : Expected(c, e)' = Expected(c, e)
    BY <2>1, ExpectedStable
  <2>3. WindowOf(o, c)
    BY <1>3 DEF SerialInv, WindowInv
  <2>4. PairsOf(c[1])' = PairsOf(c[1])
    BY <1>1 DEF PairsOf
  <2> QED
    BY <1>1, <1>2, <1>3, <2>1, <2>2, <2>3, <2>4 DEF WindowOf
<1> QED
  BY <1>1, <1>3, AdvancesSerial, AdvancesExact DEF SerialInv

LEMMA AppendSerial ==
  ASSUME CoreInv, SerialInv, NEW o \in Owners, AppendDetected(o)
  PROVE  SerialInv'
<1>1. /\ Advances(o) /\ own[o].pc = "append" /\ rows' = rows
      /\ \/ own'[o].pc = "publish"
         \/ own' = own /\ checked' = checked
  BY AppendDetectedAdvances DEF AppendDetected
<1>2. /\ own[o].commit \in final /\ checked \subseteq final
      /\ task' = task /\ diff' = diff /\ final' = final /\ raced' = raced
  BY <1>1 DEF CoreInv, OwnersOK, CommitsOK, InWindow, Advances
<1>3. CASE own' = own /\ checked' = checked
  <2>1. \A x \in final : Live(x)' => Live(x)
    BY <1>2 DEF Live
  <2>2. ~raced' => ~raced /\ AloneInv'
    BY <1>1, <1>2, AdvancesAlone DEF SerialInv
  <2> QED
    BY <1>1, <1>2, <1>3, <2>1, <2>2, QuietSerial
<1>4. CASE own'[o].pc = "publish"
  <2>1. PICK c \in final : c = own[o].commit
    BY <1>2
  <2>2. checked' \subseteq checked \cup {c}
    BY <1>1, <2>1 DEF Advances
  <2>3. \A x : Live(x)' <=> Live(x)
    BY <1>2 DEF Live
  <2>4. ASSUME ~raced PROVE ExactInv'
    <3> SUFFICES ASSUME NEW x \in checked', Live(x)', NEW e \in Opponents(x)'
                 PROVE  Exact(x, e)'
      BY DEF ExactInv
    <3>1. Live(x) /\ Live(e) /\ x \in final /\ e \in final /\ e[1] # x[1]
          /\ x \in checked \cup {c} /\ e \in checked \cup {c}
      BY <1>2, <2>2, <2>3 DEF Opponents
    <3>2. Exact(x, e)
      <4>0. WindowOf(o, c)
        BY <2>1, <2>4 DEF SerialInv, WindowInv
      <4>1. CASE x \in checked /\ e \in checked
        BY <2>4, <3>1, <4>1 DEF SerialInv, ExactInv, Opponents
      <4>2. CASE x = c /\ e \in checked
        BY <1>1, <3>1, <4>0, <4>2 DEF WindowOf, Opponents
      <4>3. CASE e = c /\ x \in checked
        <5>1. Exact(e, x)
          BY <1>1, <3>1, <4>0, <4>3 DEF WindowOf, Opponents
        <5> QED
          BY <5>1, ExactSymmetric
      <4> QED
        BY <3>1, <4>1, <4>2, <4>3
    <3> QED
      BY <1>1, <1>2, <3>1, <3>2, ExactStays
  <2>5. \A x : WindowOf(o, x)'
    BY <1>4 DEF WindowOf
  <2> QED
    BY <1>1, <2>4, <2>5, AdvancesSerial
<1> QED
  BY <1>1, <1>3, <1>4

\* The transaction makes the table exact for the commit of its owner, and touches
\* the pairs of no other task.
LEMMA ReconcileExact ==
  ASSUME CoreInv, SerialInv, ~raced, NEW o \in Owners, Reconcile(o), own'[o].pc = "append",
         NEW c \in final, c = own[o].commit
  PROVE  /\ \A e \in Opponents(c) : Exact(c, e)'
         /\ \A x, e \in final : x[1] # c[1] /\ e[1] # c[1] /\ Exact(x, e) => Exact(x, e)'
<1>1. Advances(o)
  BY ReconcileAdvances
<1>2. /\ own[o].pc = "reconcile"
      /\ DOMAIN rows' = (DOMAIN rows \ own[o].existing)
                        \cup {Pair(own[o].commit[1], u) : u \in DOMAIN own[o].dets}
      /\ \A u \in DOMAIN own[o].dets : rows'[Pair(own[o].commit[1], u)] = own[o].dets[u]
      /\ \A p \in DOMAIN rows' :
           p \notin {Pair(own[o].commit[1], u) : u \in DOMAIN own[o].dets} => rows'[p] = rows[p]
  BY Stores
<1>3. WindowOf(o, c)
  BY DEF SerialInv, WindowInv
<1>4. own[o].existing = PairsOf(c[1])
  BY <1>2, <1>3 DEF WindowOf
<1>5. PICK dets : dets = own[o].dets
  OBVIOUS
<1> DEFINE desired == {Pair(c[1], u) : u \in DOMAIN dets}
<1>6. /\ DOMAIN rows' = (DOMAIN rows \ PairsOf(c[1])) \cup desired
      /\ \A u \in DOMAIN dets : rows'[Pair(c[1], u)] = dets[u]
      /\ \A p \in DOMAIN rows' : p \notin desired => rows'[p] = rows[p]
  BY <1>2, <1>4, <1>5
<1>7. \A e \in Opponents(c) :
        /\ Expected(c, e) # {} => e[1] \in DOMAIN dets
        /\ e[1] \in DOMAIN dets => dets[e[1]].at = {c, e}
  BY <1>2, <1>3, <1>5 DEF WindowOf
<1>8. Opponents(c) \subseteq final
  BY DEF Opponents, CoreInv, CommitsOK
<1>9. \A x \in final : diff'[x] = diff[x]
  BY <1>1 DEF Advances
<1>10. ASSUME NEW e \in Opponents(c)
       PROVE  Exact(c, e)'
  <2>1. Expected(c, e)' = Expected(c, e)
    BY <1>8, <1>9, ExpectedStable
  <2>2. Pair(c[1], e[1]) \in desired <=> e[1] \in DOMAIN dets
    <3>1. \A u : Pair(c[1], u) = Pair(c[1], e[1]) => u = e[1]
      BY DEF Pair
    <3> QED
      BY <3>1
  <2>3. Pair(c[1], e[1]) \in DOMAIN rows => Pair(c[1], e[1]) \in PairsOf(c[1])
    BY DEF PairsOf, Pair
  <2>4. Pair(c[1], e[1]) \in DOMAIN rows' <=> e[1] \in DOMAIN dets
    BY <1>6, <2>2, <2>3
  <2> QED
    BY <1>6, <1>7, <2>1, <2>4 DEF Exact, Pair
<1>11. ASSUME NEW x \in final, NEW e \in final, x[1] # c[1], e[1] # c[1], Exact(x, e)
       PROVE  Exact(x, e)'
  <2>1. Expected(x, e)' = Expected(x, e)
    BY <1>9, ExpectedStable
  <2>2. Pair(x[1], e[1]) \notin desired /\ Pair(x[1], e[1]) \notin PairsOf(c[1])
    BY <1>11 DEF Pair, PairsOf
  <2>3. /\ Pair(x[1], e[1]) \in DOMAIN rows' <=> Pair(x[1], e[1]) \in DOMAIN rows
        /\ Pair(x[1], e[1]) \in DOMAIN rows => rows'[Pair(x[1], e[1])] = rows[Pair(x[1], e[1])]
    BY <1>6, <2>2
  <2> QED
    BY <1>11, <2>1, <2>3 DEF Exact, Pair
<1> QED
  BY <1>10, <1>11

LEMMA ExactSymmetricLater ==
  ASSUME NEW c, NEW e, Exact(c, e)'
  PROVE  Exact(e, c)'
<1>1. \A f : LinesNear(diff'[c], diff'[e], f) <=> LinesNear(diff'[e], diff'[c], f)
  <2>1. \A d, f : Lines(d, f) \subseteq Int
    BY DEF Lines
  <2>2. \A x, y \in Int : x - y \in (-3)..3 <=> y - x \in (-3)..3
    OBVIOUS
  <2> QED
    BY <2>1, <2>2 DEF LinesNear
<1>2. MergeTree(c, e)' = MergeTree(e, c)'
  BY DEF MergeTree
<1>3. Expected(c, e)' = Expected(e, c)'
  BY <1>1, <1>2 DEF Expected
<1>4. Pair(c[1], e[1]) = Pair(e[1], c[1]) /\ {c, e} = {e, c}
  BY DEF Pair
<1> QED
  BY <1>3, <1>4 DEF Exact

LEMMA ReconcileSerial ==
  ASSUME CoreInv, SerialInv, NEW o \in Owners, Reconcile(o)
  PROVE  SerialInv'
<1>1. Advances(o) /\ checked' = checked
  BY ReconcileAdvances DEF Reconcile
<1>2. CASE own'[o].pc # "append"
  <2>1. rows' = rows /\ own'[o].pc = "publish"
    BY <1>2, StoresNot
  <2>2. \A x : WindowOf(o, x)'
    BY <2>1 DEF WindowOf
  <2> QED
    BY <1>1, <2>1, <2>2, AdvancesSerial, AdvancesExact DEF SerialInv
<1>3. CASE own'[o].pc = "append"
  <2>1. /\ own[o].commit \in final /\ checked \subseteq final /\ own[o].pc \in InWindow
        /\ task' = task /\ final' = final
    BY <1>1 DEF CoreInv, OwnersOK, CommitsOK, Advances
  <2>2. PICK c \in final : c = own[o].commit
    BY <2>1
  <2>3. \A x : (Live(x)' <=> Live(x)) /\ Opponents(x)' = Opponents(x)
    BY <1>1, <2>1 DEF Live, Opponents
  <2>4. ASSUME ~raced
        PROVE  ExactInv' /\ WindowOf(o, c)'
    <3>1. /\ \A e \in Opponents(c) : Exact(c, e)'
          /\ \A x, e \in final : x[1] # c[1] /\ e[1] # c[1] /\ Exact(x, e) => Exact(x, e)'
      BY <1>3, <2>2, <2>4, ReconcileExact
    <3>2. WindowOf(o, c)'
      BY <1>3, <2>3, <3>1 DEF WindowOf
    <3>3. \A x \in final : Live(x) /\ x[1] = c[1] => x = c
      <4> SUFFICES ASSUME NEW x \in final, Live(x), x[1] = c[1] PROVE x = c
        OBVIOUS
      <4>1. x = Current(c[1])
        BY DEF Live, Current, CoreInv, CommitsOK, CommitsOf
      <4>2. c = Current(c[1])
        BY <2>1, <2>2, <2>4, <4>1 DEF SerialInv, AloneInv
      <4> QED
        BY <4>1, <4>2
    <3>4. ExactInv'
      <4> SUFFICES ASSUME NEW x \in checked', Live(x)', NEW e \in Opponents(x)'
                   PROVE  Exact(x, e)'
        BY DEF ExactInv
      <4>1. /\ Live(x) /\ Live(e) /\ x \in checked /\ e \in checked /\ e[1] # x[1]
            /\ x \in final /\ e \in final
        BY <1>1, <2>1, <2>3 DEF Opponents
      <4>2. CASE x[1] = c[1]
        <5>1. x = c /\ e \in Opponents(c)
          BY <3>3, <4>1, <4>2 DEF Opponents
        <5> QED
          BY <3>1, <5>1
      <4>3. CASE e[1] = c[1]
        <5>1. e = c /\ x \in Opponents(c)
          BY <3>3, <4>1, <4>3 DEF Opponents
        <5>2. Exact(e, x)'
          BY <3>1, <5>1
        <5> QED
          BY <5>2, ExactSymmetricLater
      <4>4. CASE x[1] # c[1] /\ e[1] # c[1]
        <5>1. Exact(x, e)
          BY <2>4, <4>1 DEF SerialInv, ExactInv, Opponents
        <5> QED
          BY <3>1, <4>1, <4>4, <5>1
      <4> QED
        BY <4>2, <4>3, <4>4
    <3> QED
      BY <3>2, <3>4
  <2> QED
    BY <1>1, <2>2, <2>4, AdvancesSerial
<1> QED
  BY <1>2, <1>3

LEMMA RestSerial ==
  ASSUME CoreInv, SerialInv,
         \/ UNCHANGED vars
         \/ \E t \in Tasks : LeaseLapses(t) \/ Revise(t) \/ Finish(t)
         \/ \E o \in Owners : \/ \E t \in Tasks : Claim(o, t)
                              \/ Stops(o) \/ Publish(o)
  PROVE  SerialInv'
<1>1. UNCHANGED <<diff, final, rows, checked, raced>>
  BY DEF vars, LeaseLapses, Revise, Finish, Claim, Stops, Publish
<1>2. \A p \in Owners : own'[p].pc \in InWindow => own'[p] = own[p]
  <2>1. CASE UNCHANGED vars \/ \E t \in Tasks : LeaseLapses(t) \/ Revise(t) \/ Finish(t)
    BY <2>1 DEF vars, LeaseLapses, Revise, Finish
  <2>2. ASSUME NEW o \in Owners, NEW t \in Tasks, Claim(o, t)
        PROVE  \A p \in Owners : own'[p].pc \in InWindow => own'[p] = own[p]
    BY <2>2 DEF Claim, CoreInv, TypeOK, Idle, InWindow
  <2>3. ASSUME NEW o \in Owners, Stops(o) \/ Publish(o)
        PROVE  \A p \in Owners : own'[p].pc \in InWindow => own'[p] = own[p]
    BY <2>3, StopsEffect, PublishEffect DEF InWindow
  <2> QED
    BY <2>1, <2>2, <2>3
<1>3. \A u \in Tasks : /\ Current(u)' \in final => Current(u)' = Current(u)
                       /\ task'[u].status = "terminal" \/ Current(u)' # Current(u)
                          \/ task[u].status # "terminal"
  <2>1. CASE UNCHANGED vars
    BY <2>1 DEF vars, Current
  <2>2. ASSUME NEW t \in Tasks, Revise(t)
        PROVE  \A u \in Tasks : /\ Current(u)' \in final => Current(u)' = Current(u)
                                /\ task'[u].status = "terminal" \/ Current(u)' # Current(u)
                                   \/ task[u].status # "terminal"
    <3>1. /\ task' = [task EXCEPT ![t].status = "publishing", ![t].attempt = @ + 1]
          /\ task[t].status = "awaiting_review"
      BY <2>2 DEF Revise
    <3>2. /\ task'[t].attempt = task[t].attempt + 1 /\ \A u \in Tasks \ {t} : task'[u] = task[u]
          /\ task[t].attempt \in Nat
      BY <3>1 DEF CoreInv, TypeOK
    <3>3. Current(t)' \notin final
      BY <3>2 DEF Current, CoreInv, CommitsOK
    <3> QED
      BY <3>1, <3>2, <3>3 DEF Current
  <2>3. ASSUME \A u \in Tasks : /\ task'[u].attempt = task[u].attempt
                                /\ task'[u].status = "terminal" \/ task[u].status # "terminal"
        PROVE  \A u \in Tasks : /\ Current(u)' \in final => Current(u)' = Current(u)
                                /\ task'[u].status = "terminal" \/ Current(u)' # Current(u)
                                   \/ task[u].status # "terminal"
    BY <2>3 DEF Current
  <2>4. ASSUME NEW t \in Tasks, LeaseLapses(t)
        PROVE  \A u \in Tasks : /\ task'[u].attempt = task[u].attempt
                                /\ task'[u].status = "terminal" \/ task[u].status # "terminal"
    BY <2>4 DEF LeaseLapses, CoreInv, TypeOK
  <2>5. ASSUME NEW t \in Tasks, Finish(t)
        PROVE  \A u \in Tasks : /\ task'[u].attempt = task[u].attempt
                                /\ task'[u].status = "terminal" \/ task[u].status # "terminal"
    BY <2>5 DEF Finish, CoreInv, TypeOK
  <2>6. ASSUME NEW o \in Owners, NEW t \in Tasks, Claim(o, t)
        PROVE  \A u \in Tasks : /\ task'[u].attempt = task[u].attempt
                                /\ task'[u].status = "terminal" \/ task[u].status # "terminal"
    BY <2>6 DEF Claim, CoreInv, TypeOK
  <2>7. ASSUME NEW o \in Owners, Stops(o)
        PROVE  \A u \in Tasks : /\ task'[u].attempt = task[u].attempt
                                /\ task'[u].status = "terminal" \/ task[u].status # "terminal"
    BY <2>7, StopsEffect
  <2>8. ASSUME NEW o \in Owners, Publish(o)
        PROVE  \A u \in Tasks : /\ task'[u].attempt = task[u].attempt
                                /\ task'[u].status = "terminal" \/ task[u].status # "terminal"
    <3>1. \E t \in Tasks :
           /\ task'[t].attempt = task[t].attempt
           /\ task'[t].status = IF task[t].status = "publishing" THEN "awaiting_review"
                                ELSE task[t].status
           /\ \A u \in Tasks \ {t} : task'[u] = task[u]
      BY <2>8, PublishEffect
    <3> QED
      BY <3>1
  <2> QED
    BY <2>1, <2>2, <2>3, <2>4, <2>5, <2>6, <2>7, <2>8
<1>4. \A c \in final : Live(c)' => Live(c)
  <2> SUFFICES ASSUME NEW c \in final, Live(c)' PROVE Live(c)
    OBVIOUS
  <2>1. c[1] \in Tasks /\ c = Current(c[1])' /\ task'[c[1]].status # "terminal"
    BY DEF Live, Current, CoreInv, CommitsOK, CommitsOf
  <2>2. c = Current(c[1]) /\ task[c[1]].status # "terminal"
    BY <1>3, <2>1
  <2>3. c[2] = task[c[1]].attempt
    BY <2>2 DEF Current
  <2> QED
    BY <2>2, <2>3 DEF Live
<1>5. AloneInv => AloneInv'
  <2>1. \A p \in Owners : own[p].pc \in InWindow => own[p].commit[1] \in Tasks
    BY DEF CoreInv, OwnersOK, CommitsOf, InWindow
  <2> QED
    BY <1>1, <1>2, <1>3, <2>1 DEF AloneInv
<1>6. \A p \in Owners : own'[p].pc \in Detecting => own'[p] = own[p]
  BY <1>2 DEF Detecting, InWindow
<1> QED
  BY <1>1, <1>4, <1>5, <1>6, QuietSerial DEF SerialInv

LEMMA RecordSerial ==
  ASSUME CoreInv, SerialInv, NEW o \in Owners, RecordFinalCommit(o)
  PROVE  SerialInv'
<1>1. /\ own[o].pc = "record" /\ own'[o].pc = "push" /\ own'[o].commit = own[o].commit
      /\ \A p \in Owners \ {o} : own'[p] = own[p]
      /\ \A x \in final : diff'[x] = diff[x]
      /\ final' = final \cup {own[o].commit}
      /\ task' = task /\ rows' = rows /\ checked' = checked
  BY RecordEffect DEF CoreInv, CommitsOK
<1>2. ~raced' => ~raced /\ ~WindowOpen(o)
  BY RecordRaces
<1>3. own[o].commit \in CommitsOf
  BY <1>1 DEF CoreInv, OwnersOK
<1>4. ASSUME ~raced'
      PROVE  AloneInv'
  <2>1. /\ \A p \in Owners \ {o} : own[p].pc \notin InWindow
        /\ own[o].commit[2] = task[own[o].commit[1]].attempt
    BY <1>2, <1>4 DEF WindowOpen, InWindow
  <2>2. own[o].commit = Current(own[o].commit[1])
    BY <1>3, <2>1 DEF Current, CommitsOf
  <2> QED
    BY <1>1, <2>1, <2>2 DEF AloneInv, Current
<1>5. \A x \in final : Live(x)' => Live(x)
  BY <1>1 DEF Live
<1>6. \A p \in Owners : own'[p].pc \in Detecting => own'[p] = own[p]
  BY <1>1 DEF Detecting
<1> QED
  BY <1>1, <1>2, <1>4, <1>5, <1>6, QuietSerial

LEMMA StepSerial == CoreInv /\ SerialInv /\ [Next]_vars => SerialInv'
BY PushSerial, CallFailsSerial, ActiveSiblingsSerial, CompareSerial, LockPairsSerial,
   AppendSerial, ReconcileSerial, RestSerial, RecordSerial DEF Next

LEMMA InitTable == Init => TableInv
<1> SUFFICES ASSUME Init PROVE TableInv
  OBVIOUS
<1>1. /\ final = {} /\ rows = << >> /\ checked = {}
      /\ \A o \in Owners : own[o].pc = "idle"
  BY DEF Init, Idle
<1>2. DOMAIN << >> = {}
  OBVIOUS
<1>3. TruthInv
  BY <1>1, <1>2 DEF TruthInv
<1>4. AloneInv /\ ExactInv /\ WindowInv
  BY <1>1 DEF AloneInv, ExactInv, WindowInv, InWindow
<1> QED
  BY <1>3, <1>4, InitCore DEF TableInv, KindsInv, SerialInv

LEMMA StepTable ==
  ASSUME NoPlusLookalike
  PROVE  TableInv /\ [Next]_vars => TableInv'
BY StepKinds, StepSerial DEF TableInv, KindsInv

LEMMA TableInvKinds == TruthInv => PairKindsTrue
<1> SUFFICES ASSUME TruthInv, NEW p \in DOMAIN rows
             PROVE  \E c, e \in rows[p].at :
                      Pair(c[1], e[1]) = p /\ rows[p].kinds \ {"semantic"} = Expected(c, e)
  BY DEF PairKindsTrue
<1>1. PICK c \in final, u \in Tasks : p = Pair(c[1], u) /\ TrueOf(c, u, rows[p])
  BY DEF TruthInv
<1>2. PICK e \in final : /\ e[1] = u /\ c[1] # u /\ rows[p].at = {c, e}
                         /\ rows[p].kinds \ {"semantic"} = Expected(c, e)
  BY <1>1 DEF TrueOf
<1> QED
  BY <1>1, <1>2

LEMMA TableInvSerial == TableInv => SerialTableExact
<1> SUFFICES ASSUME TableInv, ~raced, NEW p \in CheckedPairs, NEW t \in p, NEW u \in p, t # u
             PROVE  /\ ExpectedOf(p) # {} => u \in ListForTask(t)
                    /\ u \in ListForTask(t) => /\ rows[p].at = CurrentCommits(p)
                                              /\ ExpectedOf(p) \subseteq rows[p].kinds
  BY DEF SerialTableExact
<1>1. CoreInv /\ TruthInv /\ ExactInv
  BY DEF TableInv, KindsInv, SerialInv
<1>2. PICK v, w \in Tasks :
           /\ v # w /\ p = {v, w} /\ {Current(v), Current(w)} \subseteq checked
           /\ Live(Current(v)) /\ Live(Current(w))
           /\ CurrentCommits(p) = {Current(v), Current(w)}
           /\ ExpectedOf(p) = Expected(Current(v), Current(w))
  BY <1>1, PairCommits
<1>3. PICK c, e : c = Current(v) /\ e = Current(w)
  OBVIOUS
<1>4. /\ c[1] = v /\ e[1] = w /\ c \in checked /\ e \in checked /\ Live(c) /\ Live(e)
      /\ c # e /\ ExpectedOf(p) = Expected(c, e) /\ CurrentCommits(p) = {c, e}
  BY <1>2, <1>3 DEF Current
<1>5. Exact(c, e)
  BY <1>1, <1>2, <1>4 DEF ExactInv, Opponents
<1>6. Pair(c[1], e[1]) = p /\ Pair(t, u) = p /\ {t, u} = {v, w}
  BY <1>2, <1>4 DEF Pair
<1>7. task[v].status # "terminal" /\ task[w].status # "terminal"
  BY <1>4 DEF Live
<1>8. u \in ListForTask(t) <=> p \in DOMAIN rows
  BY <1>2, <1>6, <1>7 DEF ListForTask
<1>9. ASSUME p \in DOMAIN rows
      PROVE  rows[p].at = {c, e} /\ Expected(c, e) \subseteq rows[p].kinds
  <2>1. rows[p].at = {c, e}
    BY <1>5, <1>6, <1>9 DEF Exact
  <2>2. PICK x, y \in {c, e} : Pair(x[1], y[1]) = p /\ rows[p].kinds \ {"semantic"} = Expected(x, y)
    BY <1>1, <1>9, <2>1, TableInvKinds DEF PairKindsTrue
  <2>3. x # y
    BY <1>2, <2>2 DEF Pair
  <2>4. Expected(x, y) = Expected(c, e)
    BY <2>2, <2>3, ExpectedSymmetric
  <2> QED
    BY <2>1, <2>2, <2>4
<1> QED
  BY <1>4, <1>5, <1>6, <1>8, <1>9 DEF Exact

(***************************************************************************)
(* store.go, Reconcile and ListForTask, with detect.go, Overlap: if no     *)
(* added line reads like a file header, every stored pair names exactly    *)
(* the kinds its two commits call for, and detections that never overlap   *)
(* keep the table exact for every two tasks that were checked.             *)
(***************************************************************************)
THEOREM TableIsTrue ==
  ASSUME NoPlusLookalike
  PROVE  Spec => []TableTrue
<1>1. Init => TableInv
  BY InitTable
<1>2. TableInv /\ [Next]_vars => TableInv'
  BY StepTable
<1>3. TableInv => TableTrue
  BY TableInvKinds, TableInvSerial DEF TableTrue, TableInv, KindsInv
<1> QED
  BY <1>1, <1>2, <1>3, PTL DEF Spec
=============================================================================
