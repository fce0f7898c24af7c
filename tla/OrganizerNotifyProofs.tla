------------------------ MODULE OrganizerNotifyProofs ------------------------
(***************************************************************************)
(* Proofs about OrganizerNotify, for every set of workers and invitees,    *)
(* every interval, cooldown and goal, and any bounds.                      *)
(***************************************************************************)
EXTENDS OrganizerNotify, TLAPS

USE OrganizerAssumption

\* The types, in parts that few actions touch.
Jobs == [now : 0..clock, anchor : 0..clock \cup {None}, print : Picture \cup {None},
         old : Picture \cup {None}, body : Picture \cup {None}, alone : BOOLEAN]

Texts == [at : TextPlaces, who : Invitees \cup {None}, prev : Status,
          old : Picture \cup {None}, body : Picture \cup {None},
          urgent : BOOLEAN, goal : BOOLEAN, alone : BOOLEAN]

TableOK ==
  /\ clock \in 0..MaxClock
  /\ hangout \in Row /\ (hangout.status = "active" => hangout.activated # None)
  /\ hangout.activated \in 0..clock \cup {None}
  /\ hangout.last \in 0..clock \cup {None}
  /\ rsvp \in Picture
  /\ {advisory, rowLock} \subseteq Workers \cup {None}

JobsOK == pc \in [Workers -> WorkerPlaces] /\ job \in [Workers -> Jobs]

HistoryOK ==
  /\ {faults, replies, requests, goals} \subseteq Nat
  /\ told \in Picture \cup {None} /\ blurred \in BOOLEAN /\ torn \in BOOLEAN
  /\ windows \subseteq Nat
  /\ alerted \in 0..clock \cup {None}

TypeParts == TableOK /\ JobsOK /\ srv \in Texts /\ HistoryOK

LEMMA TypeSplit == TypeParts => TypeOK
  BY DEF TypeOK, TypeParts, TableOK, JobsOK, Texts, Jobs, HistoryOK

LEMMA PrintedType ==
  ASSUME hangout \in Row, NEW old, NEW new \in Picture \cup {None}
  PROVE  Printed(old, new) \in Picture \cup {None}
  BY DEF Printed, Row

LEMMA ClaimedJob ==
  ASSUME NEW j \in Jobs, NEW p \in Picture
  PROVE  [j EXCEPT !.anchor = None, !.print = p] \in Jobs
  BY DEF Jobs

LEMMA ComposedJob ==
  ASSUME NEW j \in Jobs, NEW p \in Picture \cup {None}, NEW q \in Picture, NEW b \in BOOLEAN
  PROVE  [j EXCEPT !.old = p, !.body = q, !.alone = b] \in Jobs
  BY DEF Jobs

LEMMA EndType ==
  ASSUME TypeParts, NEW w \in Workers, EndTick(w), UNCHANGED clock
  PROVE  JobsOK' /\ {advisory', rowLock'} \subseteq Workers \cup {None}
  BY DEF TypeParts, JobsOK, TableOK, EndTick, Goto, Unlocked, Released, Idle, Jobs, WorkerPlaces

LEMMA TypeInit == Init => TypeParts
  <1> SUFFICES ASSUME Init PROVE TypeParts
    OBVIOUS
  <1> USE DEF Init
  <1>1. TableOK
    <2>1. hangout \in Row
      BY DEF Row
    <2>2. rsvp \in Picture
      BY DEF Picture, Status
    <2> QED
      BY <2>1, <2>2 DEF TableOK
  <1>2. JobsOK
    BY DEF JobsOK, Jobs, Idle, WorkerPlaces
  <1>3. srv \in Texts
    BY DEF Texts, Quiet, TextPlaces, Status
  <1>4. HistoryOK
    <2>1. {faults, replies, requests, goals} \subseteq Nat
      OBVIOUS
    <2>2. blurred \in BOOLEAN /\ torn \in BOOLEAN
      OBVIOUS
    <2>3. windows \subseteq Nat /\ told = None /\ alerted = None
      OBVIOUS
    <2> QED
      BY <2>1, <2>2, <2>3 DEF HistoryOK
  <1> QED
    BY <1>1, <1>2, <1>3, <1>4 DEF TypeParts

LEMMA TypeTick == ASSUME TypeParts, Tick PROVE TypeParts'
  <1>1. clock' = clock + 1 /\ clock \in Nat /\ clock' \in 0..MaxClock
    BY DEF Tick, TypeParts, TableOK
  <1>2. 0..clock \subseteq 0..clock'
    BY <1>1
  <1>3. Jobs \subseteq Jobs'
    BY <1>2 DEF Jobs, Picture
  <1> QED
    BY <1>1, <1>2, <1>3 DEF Tick, TypeParts, TableOK, JobsOK, HistoryOK, Texts, locals, bounds, history,
                   Picture

\* A worker's tick before its claim.
LEMMA TypeBegin == ASSUME TypeParts, NEW w \in Workers, BeginTick(w) PROVE TypeParts'
  <1>1. clock \in 0..clock
    BY DEF TypeParts, TableOK
  <1>2. JobsOK'
    BY <1>1 DEF BeginTick, Goto, TypeParts, JobsOK, Jobs, WorkerPlaces
  <1> QED
    BY <1>2 DEF BeginTick, TypeParts, TableOK, HistoryOK, Texts, bounds, history

LEMMA TypeLock == ASSUME TypeParts, NEW w \in Workers, Lock(w) PROVE TypeParts'
  <1>1. Anchor(hangout) \in 0..clock \cup {None}
    BY DEF Anchor, TypeParts, TableOK, Row
  <1>2. JobsOK'
    BY <1>1 DEF Lock, Goto, TypeParts, JobsOK, Jobs, WorkerPlaces
  <1> QED
    BY <1>2 DEF Lock, Locked, TypeParts, TableOK, HistoryOK, Texts, bounds, history

LEMMA TypeMiss ==
  ASSUME TypeParts, NEW w \in Workers, LockMisses(w) \/ Pass(w) \/ Crash(w) \/ StoreFails(w)
  PROVE  TypeParts'
  <1>1. EndTick(w) /\ UNCHANGED <<clock, hangout, rsvp, srv, replies, requests, history>>
    BY DEF LockMisses, Pass, Crash, StoreFails, bounds
  <1>2. faults' \in Nat
    BY DEF LockMisses, Pass, Crash, StoreFails, bounds, TypeParts, HistoryOK
  <1> QED
    BY <1>1, <1>2, EndType DEF TypeParts, TableOK, HistoryOK, Texts, history

LEMMA TypeSkip == ASSUME TypeParts, NEW w \in Workers, SkipUnchanged(w) PROVE TypeParts'
  <1>1. EndTick(w) /\ UNCHANGED <<clock, rsvp, srv, bounds, history>>
        /\ hangout' = [hangout EXCEPT !.last = job[w].now]
    BY DEF SkipUnchanged
  <1>2. job[w].now \in 0..clock /\ clock \in Nat
    BY DEF TypeParts, JobsOK, Jobs, TableOK
  <1>3. hangout' \in Row /\ hangout'.last \in 0..clock /\ hangout'.activated = hangout.activated
        /\ hangout'.status = hangout.status
    BY <1>1, <1>2 DEF TypeParts, TableOK, Row
  <1> QED
    BY <1>1, <1>3, EndType DEF TypeParts, TableOK, HistoryOK, Texts, history, bounds

LEMMA TypeClaim == ASSUME TypeParts, NEW w \in Workers, Claim(w) PROVE TypeParts'
  <1>1. /\ job[w].now \in 0..clock /\ clock \in Nat /\ rsvp \in Picture
    BY DEF TypeParts, JobsOK, Jobs, TableOK
  <1>2. hangout' = [hangout EXCEPT !.last = job[w].now]
    BY DEF Claim, Claimed
  <1>3. hangout' \in Row /\ hangout'.last \in 0..clock /\ hangout'.activated = hangout.activated
        /\ hangout'.status = hangout.status
    BY <1>1, <1>2 DEF TypeParts, TableOK, Row
  <1>4. job' \in [Workers -> Jobs]
    <2>1. job[w] \in Jobs
      BY DEF TypeParts, JobsOK
    <2>2. [job[w] EXCEPT !.anchor = None, !.print = rsvp] \in Jobs
      BY <1>1, <2>1, ClaimedJob
    <2>3. job' = [job EXCEPT ![w] = [job[w] EXCEPT !.anchor = None, !.print = rsvp]]
      BY DEF Claim
    <2> QED
      BY <2>2, <2>3 DEF TypeParts, JobsOK
  <1>5. JobsOK'
    BY <1>4 DEF Claim, Goto, TypeParts, JobsOK, Jobs, WorkerPlaces, Picture
  <1> QED
    BY <1>3, <1>5 DEF Claim, Released, TypeParts, TableOK, HistoryOK, Texts, history, bounds

LEMMA CrowdedType == ASSUME JobsOK PROVE Crowded \in [Workers -> Jobs]
  BY DEF Crowded, JobsOK, Jobs

LEMMA TypeCompose == ASSUME TypeParts, NEW w \in Workers, Compose(w) PROVE TypeParts'
  <1> DEFINE base == IF Sending = {} THEN job ELSE Crowded
             lone == Sending = {} /\ ~Alerting
  <1>1. base \in [Workers -> Jobs] /\ hangout.print \in Picture \cup {None} /\ rsvp \in Picture
    BY CrowdedType DEF TypeParts, JobsOK, TableOK, Row
  <1>2. lone \in BOOLEAN
    OBVIOUS
  <1>3. job' = [base EXCEPT ![w].old = hangout.print, ![w].body = rsvp, ![w].alone = lone]
    BY DEF Compose
  <1>4. job' \in [Workers -> Jobs]
    <2> HIDE DEF base, lone
    <2>1. [base[w] EXCEPT !.old = hangout.print, !.body = rsvp, !.alone = lone] \in Jobs
      BY <1>1, <1>2, ComposedJob
    <2>2. job' = [base EXCEPT ![w] = [base[w] EXCEPT !.old = hangout.print, !.body = rsvp,
                                                     !.alone = lone]]
      BY <1>3
    <2> QED
      BY <1>1, <2>1, <2>2
  <1>5. srv' \in Texts
    BY DEF Compose, TypeParts, Texts
  <1>6. JobsOK'
    BY <1>4 DEF Compose, Goto, TypeParts, JobsOK, WorkerPlaces, Jobs, Picture
  <1> QED
    BY <1>5, <1>6 DEF Compose, TypeParts, TableOK, HistoryOK, history, bounds, Texts

LEMMA TypeSend == ASSUME TypeParts, NEW w \in Workers, Send(w) PROVE TypeParts'
  <1>1. /\ job[w].now \in Nat /\ job[w].body \in Picture \cup {None}
    BY DEF TypeParts, JobsOK, Jobs, TableOK
  <1>2. JobsOK' /\ {advisory', rowLock'} \subseteq Workers \cup {None}
    <2>1. CASE EndTick(w)
      BY <2>1, EndType DEF Send
    <2>2. CASE ~EndTick(w)
      BY <2>2 DEF Send, Goto, TypeParts, JobsOK, TableOK, WorkerPlaces, Jobs
    <2> QED
      BY <2>1, <2>2
  <1>3. HistoryOK'
    BY <1>1 DEF Send, TypeParts, HistoryOK, bounds
  <1> QED
    BY <1>2, <1>3 DEF Send, TypeParts, TableOK, Texts

LEMMA TypeStore == ASSUME TypeParts, NEW w \in Workers, Store(w) PROVE TypeParts'
  <1>1. EndTick(w) /\ UNCHANGED <<clock, rsvp, srv, bounds, told, windows, goals, alerted, torn>>
    BY DEF Store
  <1>2. PICK p \in Picture \cup {None} : hangout' = [hangout EXCEPT !.print = p]
    <2>1. job[w].print \in Picture \cup {None} /\ hangout \in Row
      BY DEF TypeParts, JobsOK, Jobs, TableOK
    <2> QED
      BY <2>1, PrintedType DEF Store
  <1>3. hangout' \in Row /\ hangout'.last = hangout.last /\ hangout'.activated = hangout.activated
        /\ hangout'.status = hangout.status
    BY <1>2 DEF TypeParts, TableOK, Row
  <1>4. blurred' \in BOOLEAN
    BY DEF Store
  <1> QED
    BY <1>1, <1>3, <1>4, EndType DEF TypeParts, TableOK, HistoryOK, Texts, bounds

-----------------------------------------------------------------------------
(* The reply handler and the other handlers.                               *)

LEMMA QuietText == Quiet \in Texts
  BY DEF Quiet, Texts, TextPlaces, Status

\* A step that leaves the workers and the tables alone.
LEMMA TypeServer ==
  ASSUME TypeParts, UNCHANGED <<clock, hangout, rsvp, advisory, rowLock, pc>>,
         job' \in [Workers -> Jobs], srv' \in Texts, HistoryOK'
  PROVE  TypeParts'
  BY DEF TypeParts, TableOK, JobsOK, Jobs, Texts, Picture

LEMMA TypeReply ==
  ASSUME TypeParts, NEW i \in Invitees, NEW a \in {"confirmed", "declined"}, Reply(i, a)
  PROVE  TypeParts'
  <1>1. rsvp' \in Picture /\ rsvp[i] \in Status
    BY DEF Reply, TypeParts, TableOK, Picture, Status
  <1>2. srv' \in Texts
    <2>1. srv' = [Quiet EXCEPT !.at = "evaluate", !.who = i, !.prev = rsvp[i]]
      BY DEF Reply
    <2> QED
      BY <1>1, <2>1, QuietText DEF Texts, TextPlaces
  <1>3. HistoryOK'
    BY DEF Reply, TypeParts, HistoryOK, history
  <1> QED
    BY <1>1, <1>2, <1>3 DEF Reply, TypeParts, TableOK, JobsOK, Jobs, Texts, locals

LEMMA PriorityType == HighPriority \in BOOLEAN /\ GoalHit \in BOOLEAN
  BY DEF HighPriority, GoalHit

LEMMA AlertText ==
  ASSUME NEW s \in Texts, NEW p \in Picture \cup {None}, NEW q \in Picture,
         NEW u \in BOOLEAN, NEW g \in BOOLEAN, NEW b \in BOOLEAN
  PROVE  [s EXCEPT !.at = "send", !.old = p, !.body = q, !.urgent = u, !.goal = g, !.alone = b]
           \in Texts
  BY DEF Texts, TextPlaces

LEMMA TypeEvaluate == ASSUME TypeParts, EvaluateAlert PROVE TypeParts'
  <1>1. job' \in [Workers -> Jobs]
    BY CrowdedType DEF EvaluateAlert, TypeParts, JobsOK
  <1>2. srv' \in Texts
    <2>1. CASE srv' = Quiet
      BY <2>1, QuietText
    <2>2. CASE srv' # Quiet
      <3> DEFINE lone == Sending = {}
      <3>1. srv' = [srv EXCEPT !.at = "send", !.old = hangout.print, !.body = rsvp,
                     !.urgent = HighPriority, !.goal = GoalHit, !.alone = lone]
        BY <2>2 DEF EvaluateAlert
      <3>2. hangout.print \in Picture \cup {None} /\ rsvp \in Picture /\ srv \in Texts
            /\ lone \in BOOLEAN
        BY DEF TypeParts, TableOK, Row
      <3> HIDE DEF lone
      <3> QED
        BY ZenonT(60), <3>1, <3>2, PriorityType, AlertText
    <2> QED
      BY <2>1, <2>2
  <1>3. HistoryOK'
    BY DEF EvaluateAlert, TypeParts, HistoryOK, bounds, history
  <1> QED
    BY <1>1, <1>2, <1>3, TypeServer DEF EvaluateAlert

LEMMA TypeSendAlert == ASSUME TypeParts, SendAlert PROVE TypeParts'
  <1>1. srv' \in Texts
    <2>1. [srv EXCEPT !.at = "save"] \in Texts
      BY DEF TypeParts, Texts, TextPlaces
    <2> QED
      BY <2>1, QuietText DEF SendAlert
  <1>2. clock \in 0..clock /\ srv.body \in Picture \cup {None} /\ clock' = clock
    BY DEF TypeParts, TableOK, Texts, SendAlert
  <1>3. HistoryOK'
    <2>1. blurred' \in BOOLEAN
      BY DEF SendAlert, TypeParts, HistoryOK
    <2>2. goals' \in Nat /\ alerted' \in 0..clock \cup {None}
      BY <1>2 DEF SendAlert, TypeParts, HistoryOK
    <2>3. told' \in Picture \cup {None}
      BY <1>2 DEF SendAlert, TypeParts, HistoryOK
    <2> QED
      BY <1>2, <2>1, <2>2, <2>3 DEF SendAlert, TypeParts, HistoryOK, bounds
  <1> QED
    BY <1>1, <1>3, TypeServer DEF SendAlert, locals, TypeParts, JobsOK

LEMMA FlagText == [Quiet EXCEPT !.at = "flag"] \in Texts
  BY DEF Quiet, Texts, TextPlaces, Status

\* A step that keeps the workers and replaces the hangout's row.
LEMMA TypeRow ==
  ASSUME TypeParts, UNCHANGED <<clock, rsvp, advisory, rowLock, locals>>, hangout' \in Row,
         hangout'.last \in 0..clock \cup {None},
         hangout'.activated \in 0..clock \cup {None},
         hangout'.status = "active" => hangout'.activated # None,
         srv' \in Texts, HistoryOK'
  PROVE  TypeParts'
  BY DEF TypeParts, TableOK, JobsOK, Jobs, Texts, Picture, locals

LEMMA TypeSave == ASSUME TypeParts, SaveAlert PROVE TypeParts'
  <1>1. PICK p \in Picture \cup {None} :
          hangout' = [hangout EXCEPT !.last = clock, !.print = p]
    <2>1. srv.body \in Picture \cup {None} /\ hangout \in Row
      BY DEF TypeParts, Texts, TableOK
    <2> QED
      BY <2>1, PrintedType DEF SaveAlert, Noted
  <1>2. clock \in 0..clock /\ clock \in Nat
    BY DEF TypeParts, TableOK
  <1>3. hangout' \in Row /\ hangout'.last = clock /\ hangout'.activated = hangout.activated
        /\ hangout'.status = hangout.status
    BY <1>1, <1>2 DEF TypeParts, TableOK, Row
  <1>4. srv' \in Texts
    BY QuietText, FlagText DEF SaveAlert
  <1>5. HistoryOK'
    BY DEF SaveAlert, TypeParts, HistoryOK, bounds
  <1> QED
    BY <1>2, <1>3, <1>4, <1>5, TypeRow DEF SaveAlert, TypeParts, TableOK

LEMMA TypeServerEnds == ASSUME TypeParts, SaveFails \/ ServerCrash PROVE TypeParts'
  <1>1. srv' \in Texts
    BY QuietText DEF SaveFails, ServerCrash
  <1>2. torn' \in BOOLEAN
    BY DEF SaveFails, ServerCrash
  <1>3. HistoryOK'
    <2>1. UNCHANGED <<clock, told, blurred, windows, goals, alerted, replies, requests>>
          /\ faults' \in {faults, faults + 1}
      BY DEF SaveFails, ServerCrash, bounds
    <2> QED
      BY <1>2, <2>1 DEF TypeParts, HistoryOK
  <1> QED
    BY <1>1, <1>3, TypeServer DEF SaveFails, ServerCrash, locals, TypeParts, JobsOK

LEMMA TypeWebRow == ASSUME TypeParts, FlagGoal \/ Patch \/ Activate \/ Close PROVE TypeParts'
  <1>1. \/ hangout' = [hangout EXCEPT !.goalSent = TRUE]
        \/ \E n, p \in BOOLEAN : hangout' = [hangout EXCEPT !.notify = n, !.phone = p]
        \/ hangout' = [hangout EXCEPT !.status = "active", !.activated = clock]
        \/ hangout' = [hangout EXCEPT !.status = "closed"]
    BY DEF FlagGoal, Patch, Activate, Close
  <1>2. clock \in 0..clock /\ clock \in Nat /\ clock # None
    BY DEF TypeParts, TableOK
  <1>3. hangout' \in Row /\ hangout'.last = hangout.last
        /\ hangout'.activated \in 0..clock \cup {None}
        /\ (hangout'.status = "active" => hangout'.activated # None)
    BY ZenonT(60), <1>1, <1>2 DEF TypeParts, TableOK, Row
  <1>4. srv' \in Texts
    BY QuietText DEF FlagGoal, Patch, Activate, Close, TypeParts
  <1>5. HistoryOK'
    <2>1. UNCHANGED <<clock, history, faults, replies>> /\ requests' \in {requests, requests + 1}
      BY DEF FlagGoal, Patch, Activate, Close, Request, bounds
    <2> QED
      BY <2>1 DEF TypeParts, HistoryOK, history
  <1> QED
    BY <1>3, <1>4, <1>5, TypeRow DEF FlagGoal, Patch, Activate, Close, TypeParts, TableOK

LEMMA TypeLose == ASSUME TypeParts, NEW w \in Workers, LoseAdvisory(w) PROVE TypeParts'
  BY DEF LoseAdvisory, TypeParts, TableOK, JobsOK, HistoryOK, Jobs, Texts, locals, history

LEMMA TypeStutter == ASSUME TypeParts, UNCHANGED vars PROVE TypeParts'
  BY DEF vars, TypeParts, TableOK, JobsOK, HistoryOK, Jobs, Texts, locals, history, bounds

LEMMA TypeNext == ASSUME TypeParts, [Next]_vars PROVE TypeParts'
  BY TypeTick, TypeBegin, TypeLock, TypeMiss, TypeSkip, TypeClaim, TypeCompose, TypeSend, TypeStore,
     TypeReply, TypeEvaluate, TypeSendAlert, TypeSave, TypeServerEnds, TypeWebRow, TypeLose,
     TypeStutter
  DEF Next, Alert, Web, Sweep

\* The state is type correct and no time that is stored or held lies in the
\* future, for any number of workers and invitees (services.py:961-1044).
THEOREM TypeCorrect == Spec => []TypeOK
  <1>1. Spec => []TypeParts
    BY TypeInit, TypeNext, PTL DEF Spec
  <1> QED
    BY <1>1, TypeSplit, PTL

-----------------------------------------------------------------------------
(* Two digests are never closer than the interval.                         *)


\* Two windows lie an interval apart.
Apart(s, t) == s + Hours <= t \/ t + Hours <= s

\* A worker that has claimed a digest and not handed it over yet.
Claiming(w) == pc[w] \in {"compose", "send"}

\* A row lock is held exactly while its worker decides; what it decides by is
\* what the row holds, and the hangout it decides about was activated.
LockInv ==
  /\ \A w \in Workers : rowLock = w <=> pc[w] = "decide"
  /\ \A w \in Workers : pc[w] = "decide" => job[w].anchor = Anchor(hangout)
  /\ \A w \in Workers : pc[w] # "idle" => hangout.status # "draft" /\ hangout.activated # None

\* The stored clock covers every digest sent and every claim not yet used.
Covered ==
  /\ \A s \in windows : hangout.last # None /\ s <= hangout.last
  /\ \A w \in Workers : Claiming(w) => hangout.last # None /\ job[w].now <= hangout.last

ClaimsApart ==
  /\ \A s, t \in windows : s # t => Apart(s, t)
  /\ \A w \in Workers : Claiming(w) => \A s \in windows : Apart(s, job[w].now)
  /\ \A v, w \in Workers : v # w /\ Claiming(v) /\ Claiming(w) => Apart(job[v].now, job[w].now)

WindowInv == Covered /\ ClaimsApart

IInv == TypeParts /\ LockInv /\ WindowInv

LEMMA SafeInit == Init => LockInv /\ WindowInv
  BY DEF Init, LockInv, WindowInv, Covered, ClaimsApart, Claiming

-----------------------------------------------------------------------------
(* Frames.                                                                 *)

\* No worker begins a claim and none changes its window; the clock goes on.
LEMMA WindowFrame ==
  ASSUME TypeParts, WindowInv, windows' = windows,
         hangout'.last = hangout.last
           \/ (hangout'.last # None
               /\ (hangout.last # None => hangout.last <= hangout'.last /\ hangout'.last \in Nat)),
         \A w \in Workers : Claiming(w)' => Claiming(w) /\ job'[w].now = job[w].now
  PROVE  WindowInv'
  <1> \A s \in windows : s \in Nat
    BY DEF TypeParts, HistoryOK
  <1> \A w \in Workers : job[w].now \in Nat
    BY DEF TypeParts, JobsOK, Jobs, TableOK
  <1> hangout.last \in Nat \cup {None}
    BY DEF TypeParts, TableOK, Row
  <1>1. Covered'
    BY DEF WindowInv, Covered
  <1>2. ClaimsApart'
    BY DEF WindowInv, ClaimsApart, Apart
  <1> QED
    BY <1>1, <1>2 DEF WindowInv

\* A step that takes no row lock and leaves the row's anchor to the holder.
LEMMA LockFrame ==
  ASSUME LockInv, UNCHANGED <<rowLock, pc>>,
         \A w \in Workers : job'[w].anchor = job[w].anchor,
         hangout.activated # None => hangout'.activated # None,
         hangout.status # "draft" => hangout'.status # "draft",
         \A w \in Workers : pc[w] = "decide" => Anchor(hangout)' = Anchor(hangout)
  PROVE  LockInv'
  BY DEF LockInv

\* A worker leaves its tick, and only it held the row or nobody did.
LEMMA LockEnd ==
  ASSUME TypeParts, LockInv, NEW w \in Workers, EndTick(w),
         UNCHANGED <<hangout>> \/ ((rowLock = None \/ rowLock = w)
           /\ hangout'.activated = hangout.activated /\ hangout'.status = hangout.status)
  PROVE  LockInv'
  <1>1. /\ pc' = [pc EXCEPT ![w] = "idle"] /\ \A v \in Workers \ {w} : job'[v] = job[v]
        /\ rowLock' = IF rowLock = w THEN None ELSE rowLock
    BY DEF EndTick, Goto, Released, TypeParts, JobsOK
  <1>2. \A v \in Workers : pc'[v] = IF v = w THEN "idle" ELSE pc[v]
    BY <1>1 DEF TypeParts, JobsOK
  <1>3. \A v \in Workers : rowLock' = v <=> pc'[v] = "decide"
    BY <1>1, <1>2 DEF LockInv
  <1>4. ASSUME NEW v \in Workers, pc'[v] = "decide"
        PROVE  job'[v].anchor = Anchor(hangout)'
    <2>1. v # w /\ pc[v] = "decide" /\ rowLock = v
      BY <1>2, <1>4 DEF LockInv
    <2>2. UNCHANGED hangout
      BY <2>1
    <2> QED
      BY <1>1, <2>1, <2>2 DEF LockInv, Anchor
  <1>5. \A v \in Workers : pc'[v] # "idle" => hangout'.status # "draft" /\ hangout'.activated # None
    BY <1>2 DEF LockInv
  <1> QED
    BY <1>3, <1>4, <1>5 DEF LockInv

LEMMA EndFrame ==
  ASSUME TypeParts, NEW w \in Workers, EndTick(w)
  PROVE  \A v \in Workers : Claiming(v)' => v # w /\ Claiming(v) /\ job'[v] = job[v]
  BY DEF EndTick, Goto, TypeParts, JobsOK, Claiming

-----------------------------------------------------------------------------
(* The sweep.                                                              *)

LEMMA SafeBegin == ASSUME IInv, NEW w \in Workers, BeginTick(w) PROVE LockInv' /\ WindowInv'
  <1>1. /\ pc[w] = "idle" /\ pc' = [pc EXCEPT ![w] = "claim"] /\ UNCHANGED <<hangout, rowLock, windows>>
        /\ hangout.status = "active"
        /\ job' = [job EXCEPT ![w].now = clock]
    BY DEF BeginTick, Goto, history
  <1>2. \A v \in Workers : /\ pc'[v] = IF v = w THEN "claim" ELSE pc[v]
                           /\ job'[v].anchor = job[v].anchor
                           /\ (v # w => job'[v] = job[v])
    BY <1>1 DEF IInv, TypeParts, JobsOK, Jobs
  <1>3. LockInv'
    BY <1>1, <1>2 DEF IInv, LockInv, TypeParts, TableOK, Anchor
  <1>4. WindowInv'
    BY <1>1, <1>2, WindowFrame DEF IInv, Claiming
  <1> QED
    BY <1>3, <1>4

LEMMA SafeLock == ASSUME IInv, NEW w \in Workers, Lock(w) PROVE LockInv' /\ WindowInv'
  <1>1. /\ pc[w] = "claim" /\ pc' = [pc EXCEPT ![w] = "decide"] /\ UNCHANGED <<hangout, windows>>
        /\ rowLock = None /\ rowLock' = w
        /\ job' = [job EXCEPT ![w].anchor = Anchor(hangout)]
    BY DEF Lock, Locked, Goto, history
  <1>2. \A v \in Workers : /\ pc'[v] = IF v = w THEN "decide" ELSE pc[v]
                           /\ job'[v].now = job[v].now
                           /\ (v # w => job'[v] = job[v])
    BY <1>1 DEF IInv, TypeParts, JobsOK, Jobs
  <1>3. job'[w].anchor = Anchor(hangout)
    <2>1. job[w] \in Jobs
      BY DEF IInv, TypeParts, JobsOK
    <2> QED
      BY <1>1, <2>1 DEF IInv, TypeParts, JobsOK, Jobs
  <1>4. LockInv'
    BY <1>1, <1>2, <1>3 DEF IInv, LockInv, Anchor
  <1>5. WindowInv'
    BY <1>1, <1>2, WindowFrame DEF IInv, Claiming
  <1> QED
    BY <1>4, <1>5

\* A tick that ends without touching the row.
LEMMA SafeEnd ==
  ASSUME IInv, NEW w \in Workers, LockMisses(w) \/ Pass(w) \/ Crash(w) \/ StoreFails(w)
  PROVE  LockInv' /\ WindowInv'
  <1>1. EndTick(w) /\ UNCHANGED <<hangout, windows>>
    BY DEF LockMisses, Pass, Crash, StoreFails, history
  <1> QED
    BY <1>1, LockEnd, EndFrame, WindowFrame DEF IInv

LEMMA SafeStore == ASSUME IInv, NEW w \in Workers, Store(w) PROVE LockInv' /\ WindowInv'
  <1>1. /\ EndTick(w) /\ windows' = windows /\ rowLock = None
        /\ \E p : hangout' = [hangout EXCEPT !.print = p]
    BY DEF Store
  <1>2. /\ hangout'.last = hangout.last /\ hangout'.activated = hangout.activated
        /\ hangout'.status = hangout.status
    BY <1>1 DEF IInv, TypeParts, TableOK, Row
  <1> QED
    BY <1>1, <1>2, LockEnd, EndFrame, WindowFrame DEF IInv

\* A tick that is due is an interval past every digest sent or claimed.
LEMMA DuePast ==
  ASSUME IInv, NEW w \in Workers, pc[w] = "decide", Due(w)
  PROVE  /\ job[w].now \in Nat
         /\ hangout.last # None => hangout.last + Hours <= job[w].now /\ hangout.last <= job[w].now
         /\ \A s \in windows : s + Hours <= job[w].now
         /\ \A v \in Workers : Claiming(v) => job[v].now + Hours <= job[w].now
  <1>1. /\ job[w].now \in Nat /\ hangout.last \in Nat \cup {None} /\ Hours \in Nat
        /\ \A v \in Workers : job[v].now \in Nat
        /\ \A s \in windows : s \in Nat
    BY DEF IInv, TypeParts, JobsOK, Jobs, TableOK, HistoryOK
  <1>2. hangout.last # None => hangout.last + Hours <= job[w].now
    BY <1>1 DEF IInv, LockInv, Due, Anchor
  <1> QED
    BY <1>1, <1>2 DEF IInv, WindowInv, Covered

LEMMA SafeSkip == ASSUME IInv, NEW w \in Workers, SkipUnchanged(w) PROVE LockInv' /\ WindowInv'
  <1>1. /\ EndTick(w) /\ windows' = windows /\ pc[w] = "decide" /\ Due(w)
        /\ hangout' = [hangout EXCEPT !.last = job[w].now]
    BY DEF SkipUnchanged, history
  <1>2. rowLock = w
    BY <1>1 DEF IInv, LockInv
  <1>3. /\ hangout'.last = job[w].now /\ hangout'.activated = hangout.activated
        /\ hangout'.status = hangout.status
    BY <1>1 DEF IInv, TypeParts, TableOK, Row
  <1>4. job[w].now \in Nat /\ job[w].now # None
    BY <1>1, DuePast
  <1> QED
    BY <1>1, <1>2, <1>3, <1>4, DuePast, LockEnd, EndFrame, WindowFrame DEF IInv

LEMMA SafeClaim == ASSUME IInv, NEW w \in Workers, Claim(w) PROVE LockInv' /\ WindowInv'
  <1>1. /\ windows' = windows /\ pc[w] = "decide" /\ Due(w)
        /\ pc' = [pc EXCEPT ![w] = "compose"]
        /\ rowLock' = IF rowLock = w THEN None ELSE rowLock
        /\ job' = [job EXCEPT ![w].anchor = None, ![w].print = rsvp]
        /\ hangout' = [hangout EXCEPT !.last = job[w].now]
    BY DEF Claim, Claimed, Goto, Released, history
  <1>2. rowLock = w
    BY <1>1 DEF IInv, LockInv
  <1>3. /\ hangout'.last = job[w].now /\ hangout'.activated = hangout.activated
        /\ hangout'.status = hangout.status
    BY <1>1 DEF IInv, TypeParts, TableOK, Row
  <1>4. \A v \in Workers : /\ pc'[v] = IF v = w THEN "compose" ELSE pc[v]
                           /\ job'[v].now = job[v].now
    BY <1>1 DEF IInv, TypeParts, JobsOK, Jobs
  <1>5. job[w].now \in Nat /\ job[w].now # None /\ Hours \in Nat
    BY <1>1, DuePast
  <1>6. LockInv'
    BY <1>1, <1>2, <1>3, <1>4 DEF IInv, LockInv
  <1>7. \A v \in Workers : Claiming(v)' <=> Claiming(v) \/ v = w
    BY <1>1, <1>4 DEF Claiming
  <1>8. \A v \in Workers : job[v].now \in Nat
    BY DEF IInv, TypeParts, JobsOK, Jobs, TableOK
  <1>9. \A s \in windows : s \in Nat
    BY DEF IInv, TypeParts, HistoryOK
  <1>10. Covered'
    <2>1. \A s \in windows : s <= job[w].now
      BY <1>1, <1>5, <1>9, DuePast
    <2>2. \A v \in Workers : Claiming(v) \/ v = w => job[v].now <= job[w].now
      BY <1>1, <1>5, <1>8, DuePast
    <2> QED
      BY <1>1, <1>3, <1>4, <1>5, <1>7, <2>1, <2>2 DEF Covered
  <1>11. ClaimsApart'
    <2>1. ~Claiming(w)
      BY <1>1 DEF Claiming
    <2>2. \A v \in Workers : Claiming(v) => Apart(job[v].now, job[w].now) /\ Apart(job[w].now, job[v].now)
      BY <1>1, DuePast DEF Apart
    <2>3. \A s \in windows : Apart(s, job[w].now)
      BY <1>1, DuePast DEF Apart
    <2> QED
      BY ZenonT(60), <1>1, <1>4, <1>7, <2>1, <2>2, <2>3 DEF ClaimsApart, IInv, WindowInv, Apart
  <1> QED
    BY <1>6, <1>10, <1>11 DEF WindowInv

LEMMA ComposeKeeps ==
  ASSUME IInv, NEW w \in Workers, Compose(w)
  PROVE  \A v \in Workers : job'[v].now = job[v].now /\ job'[v].anchor = job[v].anchor
  <1> DEFINE base == IF Sending = {} THEN job ELSE Crowded
             lone == Sending = {} /\ ~Alerting
  <1>1. base \in [Workers -> Jobs]
        /\ \A v \in Workers : base[v].now = job[v].now /\ base[v].anchor = job[v].anchor
    BY CrowdedType DEF IInv, TypeParts, JobsOK, Jobs, Crowded
  <1>2. job' = [base EXCEPT ![w].old = hangout.print, ![w].body = rsvp, ![w].alone = lone]
    BY DEF Compose
  <1> HIDE DEF base, lone
  <1>3. job' = [base EXCEPT ![w] = [base[w] EXCEPT !.old = hangout.print, !.body = rsvp,
                                                   !.alone = lone]]
    BY <1>2
  <1>4. \A v \in Workers \ {w} : job'[v] = base[v]
    BY <1>1, <1>3
  <1>5. job'[w] = [base[w] EXCEPT !.old = hangout.print, !.body = rsvp, !.alone = lone]
    BY <1>1, <1>3
  <1>6. job'[w].now = base[w].now /\ job'[w].anchor = base[w].anchor
    BY <1>1, <1>5 DEF Jobs
  <1> QED
    BY <1>1, <1>4, <1>6

LEMMA SafeCompose == ASSUME IInv, NEW w \in Workers, Compose(w) PROVE LockInv' /\ WindowInv'
  <1>1. /\ pc[w] = "compose" /\ pc' = [pc EXCEPT ![w] = "send"]
        /\ UNCHANGED <<hangout, rowLock, windows>>
    BY DEF Compose, Goto, history
  <1>2. \A v \in Workers : job'[v].now = job[v].now /\ job'[v].anchor = job[v].anchor
    BY ComposeKeeps
  <1>3. \A v \in Workers : pc'[v] = IF v = w THEN "send" ELSE pc[v]
    BY <1>1 DEF IInv, TypeParts, JobsOK
  <1>4. LockInv'
    BY <1>1, <1>2, <1>3 DEF IInv, LockInv, Anchor
  <1>5. WindowInv'
    BY <1>1, <1>2, <1>3, WindowFrame DEF IInv, Claiming
  <1> QED
    BY <1>4, <1>5

LEMMA SafeSend == ASSUME IInv, NEW w \in Workers, Send(w) PROVE LockInv' /\ WindowInv'
  <1>1. /\ pc[w] = "send" /\ windows' = windows \cup {job[w].now} /\ UNCHANGED hangout
        /\ \/ pc' = [pc EXCEPT ![w] = "store"] /\ UNCHANGED <<job, rowLock>>
           \/ EndTick(w)
    BY DEF Send, Goto
  <1>2. LockInv'
    <2>1. CASE pc' = [pc EXCEPT ![w] = "store"] /\ UNCHANGED <<job, rowLock>>
      BY <1>1, <2>1 DEF IInv, LockInv, TypeParts, JobsOK, Anchor
    <2>2. CASE EndTick(w)
      BY <1>1, <2>2, LockEnd DEF IInv
    <2> QED
      BY <1>1, <2>1, <2>2
  <1>3. \A v \in Workers : Claiming(v)' => v # w /\ Claiming(v) /\ job'[v] = job[v]
    BY <1>1, EndFrame DEF IInv, TypeParts, JobsOK, Claiming
  <1>4. Claiming(w)
    BY <1>1 DEF Claiming
  <1>5. Covered'
    BY <1>1, <1>3, <1>4 DEF IInv, WindowInv, Covered
  <1>6. ClaimsApart'
    <2>1. \A s \in windows : Apart(s, job[w].now) /\ Apart(job[w].now, s)
      BY <1>4 DEF IInv, WindowInv, ClaimsApart, Apart
    <2>2. \A v \in Workers : Claiming(v)' => Apart(job[w].now, job[v].now)
      BY <1>3, <1>4 DEF IInv, WindowInv, ClaimsApart
    <2> QED
      BY <1>1, <1>3, <2>1, <2>2 DEF IInv, WindowInv, ClaimsApart, Apart
  <1> QED
    BY <1>2, <1>5, <1>6 DEF WindowInv

-----------------------------------------------------------------------------
(* Everything else.                                                        *)

LEMMA SafeAlert ==
  ASSUME IInv, EvaluateAlert \/ SendAlert \/ SaveFails \/ ServerCrash \/ Tick
                 \/ (\E w \in Workers : LoseAdvisory(w))
                 \/ (\E i \in Invitees, a \in {"confirmed", "declined"} : Reply(i, a))
  PROVE  LockInv' /\ WindowInv'
  <1>1. UNCHANGED <<hangout, rowLock, pc, windows>> /\ (job' = job \/ job' = Crowded)
    BY DEF EvaluateAlert, SendAlert, SaveFails, ServerCrash, Tick, LoseAdvisory, Reply, locals, history
  <1>2. \A w \in Workers : job'[w].anchor = job[w].anchor /\ job'[w].now = job[w].now
    BY <1>1 DEF Crowded, IInv, TypeParts, JobsOK, Jobs
  <1>3. LockInv'
    BY <1>1, <1>2, LockFrame DEF IInv, Anchor
  <1>4. WindowInv'
    BY <1>1, <1>2, WindowFrame DEF IInv, Claiming
  <1> QED
    BY <1>3, <1>4

LEMMA SafeRow ==
  ASSUME IInv, SaveAlert \/ FlagGoal \/ Patch \/ Close
  PROVE  LockInv' /\ WindowInv'
  <1>1. UNCHANGED <<rowLock, pc, job, windows>> /\ rowLock = None
    BY DEF SaveAlert, FlagGoal, Patch, Close, locals, history
  <1>2. \/ \E p : hangout' = [hangout EXCEPT !.last = clock, !.print = p]
        \/ hangout' = [hangout EXCEPT !.goalSent = TRUE]
        \/ \E n, p \in BOOLEAN : hangout' = [hangout EXCEPT !.notify = n, !.phone = p]
        \/ hangout' = [hangout EXCEPT !.status = "closed"]
    BY DEF SaveAlert, Noted, FlagGoal, Patch, Close
  <1>3. /\ hangout'.activated = hangout.activated
        /\ hangout.status # "draft" => hangout'.status # "draft"
        /\ hangout'.last = hangout.last \/ hangout'.last = clock
    BY <1>2 DEF IInv, TypeParts, TableOK, Row
  <1>4. clock \in Nat /\ clock # None /\ (hangout.last # None => hangout.last <= clock)
    BY DEF IInv, TypeParts, TableOK
  <1>5. LockInv'
    BY <1>1, <1>3, LockFrame DEF IInv, LockInv
  <1>6. WindowInv'
    BY <1>1, <1>3, <1>4, WindowFrame DEF IInv, Claiming
  <1> QED
    BY <1>5, <1>6

LEMMA SafeActivate == ASSUME IInv, Activate PROVE LockInv' /\ WindowInv'
  <1>1. /\ UNCHANGED <<rowLock, pc, job, windows>> /\ hangout.status = "draft"
        /\ hangout' = [hangout EXCEPT !.status = "active", !.activated = clock]
    BY DEF Activate, locals, history
  <1>2. clock # None /\ hangout'.status = "active" /\ hangout'.activated = clock
        /\ hangout'.last = hangout.last
    BY <1>1 DEF IInv, TypeParts, TableOK, Row
  <1>3. \A w \in Workers : pc[w] = "idle"
    BY <1>1 DEF IInv, LockInv
  <1>4. LockInv'
    BY <1>1, <1>2, <1>3, LockFrame DEF IInv
  <1>5. WindowInv'
    BY <1>1, <1>2, WindowFrame DEF IInv, Claiming
  <1> QED
    BY <1>4, <1>5

LEMMA SafeNext == ASSUME IInv, [Next]_vars PROVE LockInv' /\ WindowInv'
  <1>1. CASE UNCHANGED vars
    BY <1>1 DEF vars, locals, history, IInv, LockInv, WindowInv, Covered, ClaimsApart, Claiming,
                Anchor, Apart
  <1> QED
    BY <1>1, SafeBegin, SafeLock, SafeEnd, SafeStore, SafeSkip, SafeClaim, SafeCompose, SafeSend,
       SafeAlert, SafeRow, SafeActivate
    DEF Next, Alert, Web, Sweep

LEMMA Invariance == Spec => []IInv
  <1>1. Init => IInv
    BY TypeInit, SafeInit DEF IInv
  <1>2. IInv /\ [Next]_vars => IInv'
    BY TypeNext, SafeNext DEF IInv
  <1> QED
    BY <1>1, <1>2, PTL DEF Spec

\* Two digests are never closer than the interval, for any number of workers
\* that crash, lose the advisory lock or run late (services.py:985-1023).
THEOREM DigestsAreApart == Spec => []DigestsApart
  <1>1. ASSUME IInv PROVE DigestsApart
    <2>1. \A w \in Workers : job[w].now \in Nat
      BY <1>1 DEF IInv, TypeParts, JobsOK, Jobs, TableOK
    <2>2. \A s, t \in windows : s # t => s + Hours <= t \/ t + Hours <= s
      BY <1>1 DEF IInv, WindowInv, ClaimsApart, Apart
    <2>3. \A w \in Workers : Claiming(w) => job[w].now \notin windows
      BY <1>1, <2>1 DEF IInv, WindowInv, ClaimsApart, Apart
    <2> QED
      BY <2>2, <2>3 DEF DigestsApart, Claiming
  <1> QED
    BY <1>1, Invariance, PTL

-----------------------------------------------------------------------------
(* The digests as windows of ReminderWindows.                              *)

\* The abstraction's clock, its open windows and its used ones.
Clock == [i \in {"digest"} |-> Anchor(hangout)]
Open  == {<<"digest", job[w].now>> : w \in {v \in Workers : pc[v] \in {"compose", "send"}}}
Used  == [i \in {"digest"} |-> windows]

\* The worker's place among the open windows is what it was.
SameOpen(v) == (Claiming(v)' <=> Claiming(v)) /\ (Claiming(v) => job'[v].now = job[v].now)

LEMMA OpenKept == ASSUME \A v \in Workers : SameOpen(v) PROVE Open' = Open
  BY DEF Open, SameOpen, Claiming

LEMMA OpenOne ==
  ASSUME NEW w \in Workers, ~Claiming(w), Claiming(w)', job'[w].now = job[w].now,
         \A v \in Workers \ {w} : SameOpen(v)
  PROVE  Open' = Open \cup {<<"digest", job[w].now>>}
  BY DEF Open, SameOpen, Claiming

\* No two workers hold one window, so closing w's leaves the others open.
LEMMA CloseOne ==
  ASSUME IInv, NEW w \in Workers, Claiming(w), ~Claiming(w)',
         \A v \in Workers \ {w} : SameOpen(v)
  PROVE  Open' = Open \ {<<"digest", job[w].now>>} /\ <<"digest", job[w].now>> \in Open
  <1>1. \A v \in Workers : job[v].now \in Nat
    BY DEF IInv, TypeParts, JobsOK, Jobs, TableOK
  <1>2. \A v \in Workers \ {w} : Claiming(v) => job[v].now # job[w].now
    BY <1>1 DEF IInv, WindowInv, ClaimsApart, Apart
  <1> QED
    BY <1>2 DEF Open, SameOpen, Claiming

LEMMA NowIsATime == ASSUME IInv, NEW w \in Workers PROVE job[w].now \in 0..MaxClock
  <1>1. job[w].now \in 0..clock /\ clock \in 0..MaxClock
    BY DEF IInv, TypeParts, JobsOK, Jobs, TableOK
  <1> QED
    BY <1>1

\* A step that leaves the clock, the digests and every open window alone.
LEMMA Stutters ==
  ASSUME Anchor(hangout)' = Anchor(hangout), windows' = windows, \A v \in Workers : SameOpen(v)
  PROVE  UNCHANGED Windows!wvars
  BY OpenKept DEF Windows!wvars, Open

\* The row's clock moves on to a time that is not before it.
LEMMA Restarts ==
  ASSUME windows' = windows, \A v \in Workers : SameOpen(v), NEW t \in 0..MaxClock,
         Anchor(hangout)' = t, Anchor(hangout) = None \/ Anchor(hangout) <= t
  PROVE  Windows!Next
  <1>1. Windows!Invite({"digest"}, t)
    BY OpenKept DEF Windows!Invite, Open
  <1> QED
    BY <1>1 DEF Windows!Next

\* A worker leaves its tick: a stutter, or a forfeit of its window.
LEMMA Leaves ==
  ASSUME IInv, NEW w \in Workers, EndTick(w), Anchor(hangout)' = Anchor(hangout), windows' = windows
  PROVE  [Windows!Next]_Windows!wvars
  <1>1. ~Claiming(w)' /\ \A v \in Workers \ {w} : SameOpen(v)
    BY DEF EndTick, Goto, SameOpen, Claiming, IInv, TypeParts, JobsOK
  <1>2. CASE ~Claiming(w)
    BY <1>1, <1>2, Stutters DEF SameOpen
  <1>3. CASE Claiming(w)
    <2>1. PICK t \in 0..MaxClock : t = job[w].now
      BY NowIsATime
    <2>2. Open' = Open \ {<<"digest", t>>} /\ <<"digest", t>> \in Open
      BY <1>1, <1>3, <2>1, CloseOne
    <2>3. Windows!Forfeit("digest", t)
      BY <2>2 DEF Windows!Forfeit, Open
    <2> QED
      BY <2>3 DEF Windows!Next
  <1> QED
    BY <1>2, <1>3

LEMMA ClaimRefines == ASSUME IInv, NEW w \in Workers, Claim(w) PROVE Windows!Next
  <1>1. /\ windows' = windows /\ pc[w] = "decide" /\ Due(w)
        /\ pc' = [pc EXCEPT ![w] = "compose"]
        /\ job' = [job EXCEPT ![w].anchor = None, ![w].print = rsvp]
        /\ hangout' = [hangout EXCEPT !.last = job[w].now]
    BY DEF Claim, Claimed, Goto, history
  <1>2. PICK t \in 0..MaxClock : t = job[w].now
    BY NowIsATime
  <1>3. Anchor(hangout)' = t
    BY <1>1, <1>2 DEF Anchor, IInv, TypeParts, TableOK, Row
  <1>4. Anchor(hangout) # None /\ Anchor(hangout) + Hours <= t
    BY <1>1, <1>2 DEF IInv, LockInv, Due, Anchor
  <1>5. Open' = Open \cup {<<"digest", t>>}
    <2>1. ~Claiming(w) /\ Claiming(w)' /\ \A v \in Workers : job'[v].now = job[v].now
      BY <1>1 DEF Claiming, IInv, TypeParts, JobsOK, Jobs
    <2>2. \A v \in Workers \ {w} : SameOpen(v)
      BY <1>1, <2>1 DEF SameOpen, Claiming, IInv, TypeParts, JobsOK
    <2> QED
      BY <1>2, <2>1, <2>2, OpenOne
  <1>6. Clock' = [Clock EXCEPT !["digest"] = t]
    BY <1>3 DEF Clock
  <1>7. Windows!OpenWindow("digest", t)
    BY <1>1, <1>4, <1>5, <1>6 DEF Windows!OpenWindow, Open, Clock
  <1> QED
    BY <1>7 DEF Windows!Next

LEMMA SkipRefines == ASSUME IInv, NEW w \in Workers, SkipUnchanged(w) PROVE Windows!Next
  <1>1. /\ EndTick(w) /\ windows' = windows /\ pc[w] = "decide" /\ Due(w)
        /\ hangout' = [hangout EXCEPT !.last = job[w].now]
    BY DEF SkipUnchanged, history
  <1>2. PICK t \in 0..MaxClock : t = job[w].now
    BY NowIsATime
  <1>3. Anchor(hangout)' = t
    BY <1>1, <1>2 DEF Anchor, IInv, TypeParts, TableOK, Row
  <1>4. Anchor(hangout) + Hours <= t /\ Anchor(hangout) \in Nat \cup {None} /\ Anchor(hangout) # None
    BY <1>1, <1>2 DEF IInv, LockInv, Due, Anchor, TypeParts, TableOK, Row
  <1>5. Anchor(hangout) <= t
    BY <1>4
  <1>6. \A v \in Workers : SameOpen(v)
    BY <1>1, EndFrame DEF SameOpen, Claiming, EndTick, Goto, IInv, TypeParts, JobsOK
  <1> QED
    BY <1>1, <1>3, <1>5, <1>6, Restarts

LEMMA SendRefines == ASSUME IInv, NEW w \in Workers, Send(w) PROVE Windows!Next
  <1>1. /\ pc[w] = "send" /\ windows' = windows \cup {job[w].now} /\ UNCHANGED hangout
        /\ \/ pc' = [pc EXCEPT ![w] = "store"] /\ UNCHANGED job
           \/ EndTick(w)
    BY DEF Send, Goto
  <1>2. Claiming(w) /\ ~Claiming(w)' /\ \A v \in Workers \ {w} : SameOpen(v)
    BY <1>1 DEF EndTick, Goto, SameOpen, Claiming, IInv, TypeParts, JobsOK
  <1>3. PICK t \in 0..MaxClock : t = job[w].now
    BY NowIsATime
  <1>4. Open' = Open \ {<<"digest", t>>} /\ <<"digest", t>> \in Open
    BY <1>2, <1>3, CloseOne
  <1>5. Used' = [Used EXCEPT !["digest"] = @ \cup {t}]
    BY <1>1, <1>3 DEF Used
  <1>6. Windows!UseWindow("digest", t)
    BY <1>1, <1>4, <1>5 DEF Windows!UseWindow, Open, Used, Anchor
  <1> QED
    BY <1>6 DEF Windows!Next

LEMMA RowRefines ==
  ASSUME IInv, SaveAlert \/ Activate \/ FlagGoal \/ Patch \/ Close
  PROVE  [Windows!Next]_Windows!wvars
  <1>1. UNCHANGED <<pc, job, windows>>
    BY DEF SaveAlert, Activate, FlagGoal, Patch, Close, locals, history
  <1>2. \A v \in Workers : SameOpen(v)
    BY <1>1 DEF SameOpen, Claiming
  <1>3. PICK t \in 0..MaxClock : t = clock
    BY DEF IInv, TypeParts, TableOK
  <1>4. Anchor(hangout) = None \/ Anchor(hangout) <= t
    BY <1>3 DEF Anchor, IInv, TypeParts, TableOK, Row
  <1>5. \/ \E p : hangout' = [hangout EXCEPT !.last = clock, !.print = p]
        \/ hangout' = [hangout EXCEPT !.goalSent = TRUE]
        \/ \E n, p \in BOOLEAN : hangout' = [hangout EXCEPT !.notify = n, !.phone = p]
        \/ hangout' = [hangout EXCEPT !.status = "closed"]
        \/ hangout' = [hangout EXCEPT !.status = "active", !.activated = clock]
    BY DEF SaveAlert, Noted, Activate, FlagGoal, Patch, Close
  <1>6. \/ hangout'.last = hangout.last /\ hangout'.activated = hangout.activated
        \/ hangout'.last = t
        \/ hangout'.last = hangout.last /\ hangout'.activated = t
    BY <1>3, <1>5 DEF IInv, TypeParts, TableOK, Row
  <1>7. t # None
    BY <1>3
  <1>8. Anchor(hangout)' = t \/ Anchor(hangout)' = Anchor(hangout)
    BY <1>6, <1>7 DEF Anchor
  <1> QED
    BY <1>1, <1>2, <1>4, <1>8, Restarts, Stutters

LEMMA WindowsStep == IInv /\ [Next]_vars => [Windows!Next]_Windows!wvars
  <1> SUFFICES ASSUME IInv, [Next]_vars PROVE [Windows!Next]_Windows!wvars
    OBVIOUS
  <1>1. ASSUME NEW w \in Workers, LockMisses(w) \/ Pass(w) \/ StoreFails(w) \/ Crash(w) \/ Store(w)
        PROVE  [Windows!Next]_Windows!wvars
    <2>1. EndTick(w) /\ windows' = windows
          /\ (hangout' = hangout \/ \E p : hangout' = [hangout EXCEPT !.print = p])
      BY <1>1 DEF LockMisses, Pass, StoreFails, Crash, Store, history
    <2>2. Anchor(hangout)' = Anchor(hangout)
      BY <2>1 DEF Anchor, IInv, TypeParts, TableOK, Row
    <2> QED
      BY <2>1, <2>2, Leaves
  <1>2. ASSUME NEW w \in Workers, BeginTick(w) \/ Lock(w) \/ Compose(w)
        PROVE  [Windows!Next]_Windows!wvars
    <2>1. UNCHANGED <<hangout, windows>>
      BY <1>2 DEF BeginTick, Lock, Compose, history
    <2>2. \A v \in Workers : SameOpen(v)
      <3>1. CASE BeginTick(w) \/ Lock(w)
        BY <3>1 DEF BeginTick, Lock, Goto, SameOpen, Claiming, IInv, TypeParts, JobsOK, Jobs
      <3>2. CASE Compose(w)
        BY <3>2, ComposeKeeps DEF Compose, Goto, SameOpen, Claiming, IInv, TypeParts, JobsOK
      <3> QED
        BY <1>2, <3>1, <3>2
    <2> QED
      BY <2>1, <2>2, Stutters DEF Anchor
  <1>3. CASE \/ UNCHANGED vars
             \/ EvaluateAlert \/ SendAlert \/ SaveFails \/ ServerCrash \/ Tick
             \/ (\E w \in Workers : LoseAdvisory(w))
             \/ (\E i \in Invitees, a \in {"confirmed", "declined"} : Reply(i, a))
    <2>1. UNCHANGED <<hangout, pc, windows>> /\ (job' = job \/ job' = Crowded)
      BY <1>3 DEF vars, EvaluateAlert, SendAlert, SaveFails, ServerCrash, Tick, LoseAdvisory, Reply,
                  locals, history
    <2>2. \A v \in Workers : SameOpen(v)
      BY <2>1 DEF Crowded, SameOpen, Claiming, IInv, TypeParts, JobsOK, Jobs
    <2> QED
      BY <2>1, <2>2, Stutters DEF Anchor
  <1> QED
    BY <1>1, <1>2, <1>3, ClaimRefines, SkipRefines, SendRefines, RowRefines
    DEF Next, Alert, Web, Sweep

\* Workers, alerts, PATCHes and crashes together implement ReminderWindows: an
\* interval is used for at most one digest, whoever restarts the clock.
THEOREM DigestRefinement == Spec => WindowsSpec
  <1>1. Spec => Windows!Init
    BY DEF Spec, Init, Windows!Init, Anchor
  <1> QED
    BY <1>1, WindowsStep, Invariance, PTL DEF Spec, WindowsSpec, Windows!Spec

-----------------------------------------------------------------------------
(* The alerts.                                                             *)

\* While no commit was lost: an accepted alert is covered by the stored clock as
\* soon as it is saved, and a routine one on its way respects the cooldown.
CooldownInv ==
  ~torn =>
    /\ alerted # None /\ srv.at # "save" => hangout.last # None /\ alerted <= hangout.last
    /\ srv.at = "send" /\ ~srv.urgent => (alerted # None => clock >= alerted + Cooldown)

\* While no commit was lost: an announced goal is flagged, or about to be, and
\* none is announced on top of it.
GoalInv ==
  ~torn =>
    /\ goals <= 1
    /\ goals = 1 => hangout.goalSent \/ srv.at = "flag" \/ (srv.at = "save" /\ srv.goal)
    /\ srv.at = "send" /\ srv.goal => goals = 0

AlertInv == CooldownInv /\ GoalInv

LEMMA AlertInit == Init => AlertInv
  BY DEF Init, AlertInv, CooldownInv, GoalInv, Quiet

\* A step that leaves the alerts alone; the stored clock does not go back.
LEMMA AlertFrame ==
  ASSUME AlertInv, TypeParts, UNCHANGED <<goals, alerted, torn, clock>>,
         srv' = srv \/ srv' = [srv EXCEPT !.alone = FALSE]
           \/ (srv'.at \in {"idle", "evaluate"} /\ srv.at \notin {"save", "flag"}),
         hangout'.goalSent = hangout.goalSent,
         hangout'.last = hangout.last
           \/ (hangout'.last \in Nat /\ (hangout.last # None => hangout.last <= hangout'.last))
  PROVE  AlertInv'
  <1>1. /\ srv'.at # "save" => srv.at # "save"
        /\ srv'.at \in {"send", "save"} => srv'.at = srv.at /\ srv'.urgent = srv.urgent /\ srv'.goal = srv.goal
        /\ srv.at = "flag" => srv'.at = "flag"
        /\ srv.at = "save" => srv'.at = "save" /\ srv'.goal = srv.goal
    BY DEF TypeParts, Texts
  <1>2. alerted \in Nat \cup {None} /\ hangout.last \in Nat \cup {None}
    BY DEF TypeParts, HistoryOK, TableOK
  <1>3. CooldownInv'
    BY <1>1, <1>2 DEF AlertInv, CooldownInv
  <1>4. GoalInv'
    BY <1>1 DEF AlertInv, GoalInv
  <1> QED
    BY <1>3, <1>4 DEF AlertInv

LEMMA AlertSweep ==
  ASSUME IInv, AlertInv, NEW w \in Workers, Sweep(w) \/ Crash(w) \/ LoseAdvisory(w)
  PROVE  AlertInv'
  <1>1. UNCHANGED <<goals, alerted, torn, clock>> /\ (srv' = srv \/ srv' = [srv EXCEPT !.alone = FALSE])
    BY DEF Sweep, BeginTick, Lock, LockMisses, Pass, SkipUnchanged, Claim, Compose, Send, Store,
           StoreFails, Crash, LoseAdvisory, history
  <1>2. CASE Claim(w) \/ SkipUnchanged(w)
    <2>1. hangout' = [hangout EXCEPT !.last = job[w].now] /\ pc[w] = "decide" /\ Due(w)
      BY <1>2 DEF Claim, SkipUnchanged, Claimed
    <2>2. hangout'.goalSent = hangout.goalSent /\ hangout'.last = job[w].now
      BY <2>1 DEF IInv, TypeParts, TableOK, Row
    <2> QED
      BY <1>1, <2>1, <2>2, DuePast, AlertFrame DEF IInv
  <1>3. CASE ~(Claim(w) \/ SkipUnchanged(w))
    <2>1. hangout' = hangout \/ \E p : hangout' = [hangout EXCEPT !.print = p]
      BY <1>3 DEF Sweep, BeginTick, Lock, LockMisses, Pass, Compose, Send, Store, StoreFails, Crash,
                  LoseAdvisory
    <2>2. hangout'.goalSent = hangout.goalSent /\ hangout'.last = hangout.last
      BY <2>1 DEF IInv, TypeParts, TableOK, Row
    <2> QED
      BY <1>1, <2>2, AlertFrame DEF IInv
  <1> QED
    BY <1>2, <1>3

LEMMA AlertRow == ASSUME IInv, AlertInv, Patch \/ Activate \/ Close PROVE AlertInv'
  <1>1. UNCHANGED <<goals, alerted, torn, clock, srv>>
    BY DEF Patch, Activate, Close, history
  <1>2. \/ \E n, p \in BOOLEAN : hangout' = [hangout EXCEPT !.notify = n, !.phone = p]
        \/ hangout' = [hangout EXCEPT !.status = "active", !.activated = clock]
        \/ hangout' = [hangout EXCEPT !.status = "closed"]
    BY DEF Patch, Activate, Close
  <1>3. hangout'.goalSent = hangout.goalSent /\ hangout'.last = hangout.last
    BY <1>2 DEF IInv, TypeParts, TableOK, Row
  <1> QED
    BY <1>1, <1>3, AlertFrame DEF IInv

LEMMA AlertReply ==
  ASSUME IInv, AlertInv, NEW i \in Invitees, NEW a \in {"confirmed", "declined"}, Reply(i, a)
  PROVE  AlertInv'
  <1>1. UNCHANGED <<goals, alerted, torn, clock, hangout>> /\ srv.at = "idle" /\ srv'.at = "evaluate"
    BY DEF Reply, history, Quiet
  <1> QED
    BY <1>1, AlertFrame DEF IInv

LEMMA AlertTick == ASSUME IInv, AlertInv, Tick PROVE AlertInv'
  <1>1. UNCHANGED <<goals, alerted, torn, srv, hangout>> /\ clock \in Nat /\ clock' = clock + 1
    BY DEF Tick, history, IInv, TypeParts, TableOK
  <1>2. alerted \in Nat \cup {None} /\ Cooldown \in Nat
    BY DEF IInv, TypeParts, HistoryOK
  <1> QED
    BY <1>1, <1>2 DEF AlertInv, CooldownInv, GoalInv

LEMMA AlertEvaluate == ASSUME IInv, AlertInv, EvaluateAlert PROVE AlertInv'
  <1>1. UNCHANGED <<goals, alerted, torn, clock, hangout>> /\ srv.at = "evaluate"
    BY DEF EvaluateAlert, history
  <1>2. CASE srv' = Quiet
    BY <1>1, <1>2, AlertFrame DEF IInv, Quiet
  <1>3. CASE srv' # Quiet
    <2> DEFINE lone == Sending = {}
    <2>1. /\ srv' = [srv EXCEPT !.at = "send", !.old = hangout.print, !.body = rsvp,
                      !.urgent = HighPriority, !.goal = GoalHit, !.alone = lone]
          /\ Wanted
      BY <1>3 DEF EvaluateAlert
    <2> HIDE DEF lone
    <2>2. srv'.at = "send" /\ srv'.urgent = HighPriority /\ srv'.goal = GoalHit
      BY <2>1 DEF IInv, TypeParts, Texts
    <2>3. /\ alerted \in 0..clock \cup {None} /\ hangout.last \in Nat \cup {None} /\ Cooldown \in Nat
          /\ clock \in Nat
      BY DEF IInv, TypeParts, HistoryOK, TableOK
    <2>4. ~HighPriority /\ Cooldown > 0 /\ hangout.last # None => clock >= hangout.last + Cooldown
      BY <2>1 DEF Wanted, Cooled
    <2>5. ASSUME ~torn, ~HighPriority, alerted # None PROVE clock >= alerted + Cooldown
      <3>1. hangout.last # None /\ alerted <= hangout.last
        BY <1>1, <2>5 DEF AlertInv, CooldownInv
      <3>2. CASE Cooldown > 0
        BY <2>3, <2>4, <2>5, <3>1, <3>2
      <3>3. CASE Cooldown = 0
        BY <2>3, <2>5, <3>3
      <3> QED
        BY <2>3, <3>2, <3>3
    <2>6. CooldownInv'
      BY <1>1, <2>2, <2>5 DEF AlertInv, CooldownInv
    <2>7. GoalHit => ~hangout.goalSent
      BY DEF GoalHit
    <2>8. goals \in Nat
      BY DEF IInv, TypeParts, HistoryOK
    <2>9. GoalInv'
      BY <1>1, <2>2, <2>7, <2>8 DEF AlertInv, GoalInv
    <2> QED
      BY <2>6, <2>9 DEF AlertInv
  <1> QED
    BY <1>2, <1>3

LEMMA AlertSend == ASSUME IInv, AlertInv, SendAlert PROVE AlertInv'
  <1>1. UNCHANGED <<torn, clock, hangout>> /\ srv.at = "send"
    BY DEF SendAlert
  <1>2. CASE srv' = Quiet
    <2>1. UNCHANGED <<goals, alerted>>
      BY <1>2 DEF SendAlert, Quiet, IInv, TypeParts, Texts
    <2> QED
      BY <1>1, <1>2, <2>1, AlertFrame DEF IInv, Quiet
  <1>3. CASE srv' # Quiet
    <2>1. srv' = [srv EXCEPT !.at = "save"] /\ goals' = IF srv.goal THEN goals + 1 ELSE goals
      BY <1>3 DEF SendAlert
    <2>2. srv'.at = "save" /\ srv'.goal = srv.goal
      BY <2>1 DEF IInv, TypeParts, Texts
    <2>3. goals \in Nat
      BY DEF IInv, TypeParts, HistoryOK
    <2> QED
      BY <1>1, <2>1, <2>2, <2>3 DEF AlertInv, CooldownInv, GoalInv
  <1> QED
    BY <1>2, <1>3

LEMMA AlertSave == ASSUME IInv, AlertInv, SaveAlert PROVE AlertInv'
  <1>1. /\ UNCHANGED <<goals, alerted, torn, clock>> /\ srv.at = "save"
        /\ \E p : hangout' = [hangout EXCEPT !.last = clock, !.print = p]
        /\ srv' = IF srv.goal THEN [Quiet EXCEPT !.at = "flag"] ELSE Quiet
    BY DEF SaveAlert, Noted
  <1>2. hangout'.last = clock /\ hangout'.goalSent = hangout.goalSent
    BY <1>1 DEF IInv, TypeParts, TableOK, Row
  <1>3. clock \in Nat /\ clock # None /\ alerted \in 0..clock \cup {None}
    BY DEF IInv, TypeParts, HistoryOK, TableOK
  <1>4. srv'.at \in {"idle", "flag"} /\ (srv.goal => srv'.at = "flag")
    BY <1>1 DEF Quiet
  <1> QED
    BY <1>1, <1>2, <1>3, <1>4 DEF AlertInv, CooldownInv, GoalInv

LEMMA AlertFlag == ASSUME IInv, AlertInv, FlagGoal PROVE AlertInv'
  <1>1. /\ UNCHANGED <<goals, alerted, torn, clock>> /\ srv' = Quiet /\ srv.at = "flag"
        /\ hangout' = [hangout EXCEPT !.goalSent = TRUE]
    BY DEF FlagGoal, history
  <1>2. hangout'.goalSent = TRUE /\ hangout'.last = hangout.last
    BY <1>1 DEF IInv, TypeParts, TableOK, Row
  <1> QED
    BY <1>1, <1>2 DEF AlertInv, CooldownInv, GoalInv, Quiet

LEMMA AlertEnds == ASSUME IInv, AlertInv, SaveFails \/ ServerCrash PROVE AlertInv'
  <1>1. CASE torn'
    BY <1>1 DEF AlertInv, CooldownInv, GoalInv
  <1>2. CASE ~torn'
    <2>1. /\ UNCHANGED <<goals, alerted, clock, hangout>> /\ srv.at \notin {"save", "flag"}
          /\ srv' = Quiet /\ ~torn
      BY <1>2 DEF SaveFails, ServerCrash
    <2>2. torn' = torn
      BY <1>2, <2>1 DEF ServerCrash, SaveFails, IInv, TypeParts, HistoryOK
    <2> QED
      BY <2>1, <2>2, AlertFrame DEF IInv, Quiet
  <1> QED
    BY <1>1, <1>2

LEMMA AlertNext == ASSUME IInv, AlertInv, [Next]_vars PROVE AlertInv'
  <1>1. CASE UNCHANGED vars
    BY <1>1 DEF vars, history, AlertInv, CooldownInv, GoalInv
  <1> QED
    BY <1>1, AlertSweep, AlertRow, AlertReply, AlertTick, AlertEvaluate, AlertSend, AlertSave,
       AlertFlag, AlertEnds
    DEF Next, Alert, Web

LEMMA AlertInvariance == Spec => []AlertInv
  <1>1. Init => AlertInv
    BY AlertInit
  <1>2. IInv /\ AlertInv /\ [Next]_vars => AlertInv'
    BY AlertNext
  <1> QED
    BY <1>1, <1>2, Invariance, PTL DEF Spec

\* The milestone is announced twice only if a commit that followed an
\* announcement failed (services.py:247-249, 297-299).
THEOREM GoalIsAnnouncedOnce == Spec => []GoalOnce
  <1>1. IInv /\ AlertInv => GoalOnce
    BY DEF IInv, TypeParts, HistoryOK, AlertInv, GoalInv, GoalOnce
  <1> QED
    BY <1>1, Invariance, AlertInvariance, PTL

\* A routine alert keeps the cooldown's distance from every earlier alert whose
\* commit was not lost (services.py:206-237).
THEOREM RoutineIsSpaced == Spec => RoutineSpaced
  <1> DEFINE Routine == SendAlert /\ srv'.at = "save" /\ ~srv.urgent
             Spaced  == torn \/ (alerted # None => clock >= alerted + Cooldown)
  <1>1. AlertInv /\ Routine => Spaced
    BY DEF AlertInv, CooldownInv, SendAlert
  <1>2. AlertInv => [Routine => Spaced]_vars
    BY <1>1
  <1> QED
    BY <1>2, AlertInvariance, PTL DEF RoutineSpaced

-----------------------------------------------------------------------------
(* What the organizer knows.                                               *)

Busy(w) == pc[w] \in {"send", "store"}

\* The worker's text overlaps no other: the row's fingerprint is what it read.
WorkerAlone ==
  \A w \in Workers : Busy(w) /\ job[w].alone =>
    /\ hangout.print = job[w].old /\ ~Alerting
    /\ \A v \in Workers : Busy(v) => v = w
    /\ pc[w] = "store" => told = job[w].body

\* So does the alert's.
AlertAlone ==
  Alerting /\ srv.alone =>
    /\ hangout.print = srv.old
    /\ \A w \in Workers : ~Busy(w)
    /\ srv.at = "save" => told = srv.body

KnownInv == (~blurred => hangout.print = told) /\ WorkerAlone /\ AlertAlone

LEMMA SendingBusy == Sending = {} <=> \A w \in Workers : ~Busy(w)
  BY DEF Sending, Busy

\* No text begins or gets further, and the row's fingerprint stays.
LEMMA KnownFrame ==
  ASSUME KnownInv, UNCHANGED <<told, blurred>>, hangout'.print = hangout.print,
         \A w \in Workers : Busy(w)' => pc'[w] = pc[w] /\ job'[w] = job[w],
         Alerting' => srv' = srv
  PROVE  KnownInv'
  BY DEF KnownInv, WorkerAlone, AlertAlone, Busy, Alerting

LEMMA KnownInit == Init => KnownInv
  BY DEF Init, KnownInv, WorkerAlone, AlertAlone, Busy, Alerting, Quiet

LEMMA KnownSweep ==
  ASSUME IInv, KnownInv, NEW w \in Workers,
         \/ BeginTick(w) \/ Lock(w) \/ LockMisses(w) \/ Pass(w) \/ SkipUnchanged(w) \/ Claim(w)
         \/ StoreFails(w) \/ Crash(w) \/ LoseAdvisory(w)
  PROVE  KnownInv'
  <1>1. UNCHANGED <<told, blurred, srv>>
    BY DEF BeginTick, Lock, LockMisses, Pass, SkipUnchanged, Claim, StoreFails, Crash, LoseAdvisory,
           history
  <1>2. hangout' = hangout \/ \E t : hangout' = [hangout EXCEPT !.last = t]
    BY DEF BeginTick, Lock, LockMisses, Pass, SkipUnchanged, Claim, StoreFails, Crash, LoseAdvisory
  <1>3. hangout'.print = hangout.print
    BY <1>2 DEF IInv, TypeParts, TableOK, Row
  <1>4. \A v \in Workers : Busy(v)' => pc'[v] = pc[v] /\ job'[v] = job[v]
    BY DEF BeginTick, Lock, LockMisses, Pass, SkipUnchanged, Claim, StoreFails, Crash, LoseAdvisory,
           EndTick, Goto, Busy, locals, IInv, TypeParts, JobsOK
  <1> QED
    BY <1>1, <1>3, <1>4, KnownFrame

LEMMA KnownCompose == ASSUME IInv, KnownInv, NEW w \in Workers, Compose(w) PROVE KnownInv'
  <1> DEFINE base == IF Sending = {} THEN job ELSE Crowded
             lone == Sending = {} /\ ~Alerting
  <1>1. /\ pc[w] = "compose" /\ pc' = [pc EXCEPT ![w] = "send"]
        /\ UNCHANGED <<hangout, told, blurred>>
        /\ srv' = [srv EXCEPT !.alone = FALSE]
        /\ job' = [base EXCEPT ![w].old = hangout.print, ![w].body = rsvp, ![w].alone = lone]
    BY DEF Compose, Goto, history
  <1>2. /\ base \in [Workers -> Jobs]
        /\ \A v \in Workers : Sending # {} => base[v].alone = FALSE
    BY CrowdedType DEF IInv, TypeParts, JobsOK, Jobs, Crowded
  <1>3. lone \in BOOLEAN
    OBVIOUS
  <1>4. Sending = {} <=> \A v \in Workers : ~Busy(v)
    BY SendingBusy
  <1>5. lone <=> Sending = {} /\ ~Alerting
    OBVIOUS
  <1> HIDE DEF base, lone
  <1>6. job' = [base EXCEPT ![w] = [base[w] EXCEPT !.old = hangout.print, !.body = rsvp,
                                                   !.alone = lone]]
    BY <1>1
  <1>7. /\ \A v \in Workers \ {w} : job'[v] = base[v]
        /\ job'[w] = [base[w] EXCEPT !.old = hangout.print, !.body = rsvp, !.alone = lone]
    BY <1>2, <1>6
  <1>8. job'[w].old = hangout.print /\ job'[w].alone = lone
    BY <1>2, <1>7 DEF Jobs
  <1>9. \A v \in Workers : pc'[v] = IF v = w THEN "send" ELSE pc[v]
    BY <1>1 DEF IInv, TypeParts, JobsOK
  <1>10. srv'.at = srv.at /\ srv'.alone = FALSE
    BY <1>1 DEF IInv, TypeParts, Texts
  <1>11. WorkerAlone'
    <2> SUFFICES ASSUME NEW v \in Workers, Busy(v)', job'[v].alone
                 PROVE  /\ hangout'.print = job'[v].old /\ ~Alerting'
                        /\ \A u \in Workers : Busy(u)' => u = v
                        /\ pc'[v] # "store"
      BY DEF WorkerAlone
    <2>1. v = w
      BY <1>2, <1>4, <1>7, <1>9 DEF Busy
    <2>2. Sending = {} /\ ~Alerting
      BY <1>5, <1>8, <2>1
    <2> QED
      BY <1>1, <1>4, <1>8, <1>9, <1>10, <2>1, <2>2 DEF Busy, Alerting
  <1>12. AlertAlone'
    BY <1>10 DEF AlertAlone
  <1> QED
    BY <1>1, <1>11, <1>12 DEF KnownInv

LEMMA KnownSend == ASSUME IInv, KnownInv, NEW w \in Workers, Send(w) PROVE KnownInv'
  <1>1. pc[w] = "send" /\ UNCHANGED <<hangout, srv>>
    BY DEF Send
  <1>2. CASE EndTick(w)
    <2>1. UNCHANGED <<told, blurred>>
      BY <1>1, <1>2 DEF Send, EndTick, Goto, IInv, TypeParts, JobsOK
    <2>2. \A v \in Workers : Busy(v)' => pc'[v] = pc[v] /\ job'[v] = job[v]
      BY <1>2 DEF EndTick, Goto, Busy, IInv, TypeParts, JobsOK
    <2> QED
      BY <1>1, <2>1, <2>2, KnownFrame
  <1>3. CASE ~EndTick(w)
    <2>1. /\ pc' = [pc EXCEPT ![w] = "store"] /\ UNCHANGED job
          /\ told' = job[w].body /\ blurred' = TRUE
      BY <1>3 DEF Send, Goto
    <2>2. \A v \in Workers : pc'[v] = IF v = w THEN "store" ELSE pc[v]
      BY <2>1 DEF IInv, TypeParts, JobsOK
    <2>3. Busy(w)
      BY <1>1 DEF Busy
    <2>4. WorkerAlone'
      BY <1>1, <2>1, <2>2, <2>3 DEF KnownInv, WorkerAlone, Busy, Alerting
    <2>5. AlertAlone'
      BY <1>1, <2>1, <2>2, <2>3 DEF KnownInv, AlertAlone, Busy, Alerting
    <2> QED
      BY <2>1, <2>4, <2>5 DEF KnownInv
  <1> QED
    BY <1>2, <1>3

LEMMA KnownStore == ASSUME IInv, KnownInv, NEW w \in Workers, Store(w) PROVE KnownInv'
  <1>1. /\ pc[w] = "store" /\ EndTick(w) /\ UNCHANGED <<srv, told>>
        /\ hangout' = [hangout EXCEPT !.print = Printed(job[w].old, job[w].print)]
        /\ blurred' = ~(job[w].alone /\ job[w].body = job[w].print)
    BY DEF Store
  <1>2. Busy(w) /\ \A v \in Workers : Busy(v)' => v # w /\ Busy(v) /\ pc'[v] = pc[v] /\ job'[v] = job[v]
    BY <1>1 DEF EndTick, Goto, Busy, IInv, TypeParts, JobsOK
  <1>3. hangout'.print = Printed(job[w].old, job[w].print)
    BY <1>1 DEF IInv, TypeParts, TableOK, Row
  <1>4. ~blurred' => hangout'.print = told'
    BY <1>1, <1>2, <1>3 DEF KnownInv, WorkerAlone, Printed
  <1>5. WorkerAlone'
    BY <1>1, <1>2 DEF KnownInv, WorkerAlone
  <1>6. AlertAlone'
    BY <1>1, <1>2 DEF KnownInv, AlertAlone, Alerting
  <1> QED
    BY <1>4, <1>5, <1>6 DEF KnownInv

LEMMA KnownEvaluate == ASSUME IInv, KnownInv, EvaluateAlert PROVE KnownInv'
  <1>1. UNCHANGED <<hangout, pc, told, blurred>> /\ srv.at = "evaluate"
    BY DEF EvaluateAlert, history
  <1>2. CASE srv' = Quiet
    <2>1. UNCHANGED job
      BY <1>2 DEF EvaluateAlert, Quiet, IInv, TypeParts, Texts
    <2> QED
      BY <1>1, <1>2, <2>1, KnownFrame DEF Busy, Alerting, Quiet
  <1>3. CASE srv' # Quiet
    <2> DEFINE lone == Sending = {}
    <2>1. /\ srv' = [srv EXCEPT !.at = "send", !.old = hangout.print, !.body = rsvp,
                      !.urgent = HighPriority, !.goal = GoalHit, !.alone = lone]
          /\ job' = IF Sending = {} THEN job ELSE Crowded
      BY <1>3 DEF EvaluateAlert
    <2>2. lone <=> \A w \in Workers : ~Busy(w)
      BY SendingBusy
    <2>3. Sending # {} => \A w \in Workers : job'[w].alone = FALSE
      BY <2>1 DEF Crowded, IInv, TypeParts, JobsOK, Jobs
    <2>4. Sending = {} <=> \A w \in Workers : ~Busy(w)
      BY SendingBusy
    <2> HIDE DEF lone
    <2>5. srv'.at = "send" /\ srv'.old = hangout.print /\ srv'.alone = lone
      BY <2>1 DEF IInv, TypeParts, Texts
    <2>6. \A w \in Workers : Busy(w)' <=> Busy(w)
      BY <1>1 DEF Busy
    <2>7. WorkerAlone'
      BY <2>3, <2>4, <2>6 DEF WorkerAlone
    <2>8. AlertAlone'
      BY <1>1, <2>2, <2>5, <2>6 DEF AlertAlone
    <2> QED
      BY <1>1, <2>7, <2>8 DEF KnownInv
  <1> QED
    BY <1>2, <1>3

LEMMA KnownSendAlert == ASSUME IInv, KnownInv, SendAlert PROVE KnownInv'
  <1>1. UNCHANGED <<hangout, pc, job>> /\ srv.at = "send"
    BY DEF SendAlert, locals
  <1>2. CASE srv' = Quiet
    <2>1. UNCHANGED <<told, blurred>>
      BY <1>2 DEF SendAlert, Quiet, IInv, TypeParts, Texts
    <2> QED
      BY <1>1, <1>2, <2>1, KnownFrame DEF Busy, Alerting, Quiet
  <1>3. CASE srv' # Quiet
    <2>1. srv' = [srv EXCEPT !.at = "save"] /\ told' = srv.body /\ blurred' = TRUE
      BY <1>3 DEF SendAlert
    <2>2. srv'.at = "save" /\ srv'.old = srv.old /\ srv'.body = srv.body /\ srv'.alone = srv.alone
      BY <2>1 DEF IInv, TypeParts, Texts
    <2>3. WorkerAlone'
      BY <1>1 DEF KnownInv, WorkerAlone, Busy, Alerting
    <2>4. AlertAlone'
      BY <1>1, <2>1, <2>2 DEF KnownInv, AlertAlone, Busy, Alerting
    <2> QED
      BY <2>1, <2>3, <2>4 DEF KnownInv
  <1> QED
    BY <1>2, <1>3

LEMMA KnownSave == ASSUME IInv, KnownInv, SaveAlert PROVE KnownInv'
  <1>1. /\ UNCHANGED <<pc, job, told>> /\ srv.at = "save"
        /\ hangout' = [hangout EXCEPT !.last = clock, !.print = Printed(srv.old, srv.body)]
        /\ blurred' = ~srv.alone
        /\ srv' = [Quiet EXCEPT !.at = "flag"] \/ srv' = Quiet
    BY DEF SaveAlert, Noted, locals
  <1>2. hangout'.print = Printed(srv.old, srv.body)
    BY <1>1 DEF IInv, TypeParts, TableOK, Row
  <1>3. srv'.at \notin {"send", "save"}
    BY <1>1 DEF Quiet
  <1>4. ~blurred' => hangout'.print = told'
    BY <1>1, <1>2 DEF KnownInv, AlertAlone, Alerting, Printed
  <1>5. WorkerAlone'
    BY <1>1 DEF KnownInv, WorkerAlone, Busy, Alerting
  <1>6. AlertAlone'
    BY <1>3 DEF AlertAlone, Alerting
  <1> QED
    BY <1>4, <1>5, <1>6 DEF KnownInv

LEMMA KnownOther ==
  ASSUME IInv, KnownInv,
         SaveFails \/ ServerCrash \/ FlagGoal \/ Patch \/ Activate \/ Close \/ Tick
           \/ (\E i \in Invitees, a \in {"confirmed", "declined"} : Reply(i, a))
  PROVE  KnownInv'
  <1>1. UNCHANGED <<pc, job, told, blurred>>
    BY DEF SaveFails, ServerCrash, FlagGoal, Patch, Activate, Close, Tick, Reply, locals, history
  <1>2. srv' = srv \/ srv'.at \in {"idle", "evaluate"}
    <2>1. ASSUME NEW i \in Invitees, NEW a \in {"confirmed", "declined"}, Reply(i, a)
          PROVE  srv'.at = "evaluate"
      BY <2>1 DEF Reply, Quiet
    <2>2. CASE SaveFails \/ ServerCrash \/ FlagGoal \/ Patch \/ Activate \/ Close \/ Tick
      <3>1. srv' = srv \/ srv' = Quiet
        BY <2>2 DEF SaveFails, ServerCrash, FlagGoal, Patch, Activate, Close, Tick
      <3>2. Quiet.at = "idle"
        BY DEF Quiet
      <3> QED
        BY <3>1, <3>2
    <2> QED
      BY <2>1, <2>2
  <1>3. \/ hangout' = hangout
        \/ hangout' = [hangout EXCEPT !.goalSent = TRUE]
        \/ \E n, p \in BOOLEAN : hangout' = [hangout EXCEPT !.notify = n, !.phone = p]
        \/ hangout' = [hangout EXCEPT !.status = "active", !.activated = clock]
        \/ hangout' = [hangout EXCEPT !.status = "closed"]
    BY DEF SaveFails, ServerCrash, FlagGoal, Patch, Activate, Close, Tick, Reply
  <1>4. hangout'.print = hangout.print
    BY <1>3 DEF IInv, TypeParts, TableOK, Row
  <1> QED
    BY <1>1, <1>2, <1>4, KnownFrame DEF Busy, Alerting

LEMMA KnownNext == ASSUME IInv, KnownInv, [Next]_vars PROVE KnownInv'
  <1>1. CASE UNCHANGED vars
    BY <1>1, KnownFrame DEF vars, history, locals
  <1> QED
    BY <1>1, KnownSweep, KnownCompose, KnownSend, KnownStore, KnownEvaluate, KnownSendAlert,
       KnownSave, KnownOther
    DEF Next, Alert, Web, Sweep

\* A digest is skipped as unchanged only if the organizer's last text showed the
\* present answers, unless that text was overtaken or its fingerprint lost
\* (services.py:976-1013).
THEOREM SkipsAreKnown == Spec => UnchangedIsKnown
  <1> DEFINE Known == \A w \in Workers : SkipUnchanged(w) => blurred \/ told = rsvp
  <1>1. KnownInv => Known
    BY DEF KnownInv, SkipUnchanged, Unchanged
  <1>2. KnownInv => [Known]_vars
    BY <1>1
  <1>3. Spec => []KnownInv
    <2>1. IInv /\ KnownInv /\ [Next]_vars => KnownInv'
      BY KnownNext
    <2> QED
      BY <2>1, KnownInit, Invariance, PTL DEF Spec
  <1> QED
    BY <1>2, <1>3, PTL DEF UnchangedIsKnown

-----------------------------------------------------------------------------
(* Ticks and alerts end.                                                   *)

\* Only a tick in progress holds the advisory lock.
AdvisoryInv == \A w \in Workers : advisory = w => pc[w] # "idle"

LEMMA AdvisoryStep == ASSUME TypeParts, AdvisoryInv, [Next]_vars PROVE AdvisoryInv'
  <1> USE DEF TypeParts, JobsOK, TableOK, AdvisoryInv
  <1>1. CASE UNCHANGED <<advisory, pc>>
    BY <1>1
  <1>2. ASSUME NEW w \in Workers, EndTick(w) PROVE AdvisoryInv'
    BY <1>2 DEF EndTick, Unlocked, Goto
  <1>3. ASSUME NEW w \in Workers, BeginTick(w) \/ Lock(w) \/ Claim(w) \/ Compose(w) \/ LoseAdvisory(w)
        PROVE  AdvisoryInv'
    BY <1>3 DEF BeginTick, Lock, Claim, Compose, LoseAdvisory, Goto, locals
  <1>4. ASSUME NEW w \in Workers, Send(w), ~EndTick(w) PROVE AdvisoryInv'
    BY <1>4 DEF Send, Goto
  <1>5. UNCHANGED <<advisory, pc>> \/ \E w \in Workers : Sweep(w) \/ Crash(w) \/ LoseAdvisory(w)
    BY DEF Next, vars, locals, Tick, Alert, EvaluateAlert, SendAlert, SaveAlert, SaveFails, FlagGoal,
       Web, Reply, Patch, Activate, Close, ServerCrash
  <1> QED
    BY <1>1, <1>2, <1>3, <1>4, <1>5
    DEF Sweep, LockMisses, Pass, SkipUnchanged, Store, StoreFails, Crash

\* The guards of the tick's actions, and of the alert's.
TickReady(w) ==
  \/ pc[w] \in {"claim", "compose", "send"}
  \/ pc[w] = "decide" /\ hangout.phone \in BOOLEAN
  \/ pc[w] = "store" /\ rowLock = None

AlertReady == srv.at \in {"evaluate", "send"} \/ (srv.at \in {"save", "flag"} /\ rowLock = None)

\* Whatever waits for the row's lock waits for one tick, which can decide and so
\* frees it: no tick and no alert is stuck, and only ticks hold the advisory lock
\* (services.py:961-1042, 219-299).
THEOREM NoticesGoOn ==
  Spec => []( /\ \A w \in Workers : advisory = w => pc[w] # "idle"
              /\ \A w \in Workers : pc[w] # "idle" /\ ~TickReady(w) =>
                   \E v \in Workers \ {w} : rowLock = v /\ pc[v] = "decide" /\ TickReady(v)
              /\ srv.at # "idle" /\ ~AlertReady =>
                   \E v \in Workers : rowLock = v /\ pc[v] = "decide" /\ TickReady(v))
  <1> DEFINE GoOn ==
        /\ \A w \in Workers : advisory = w => pc[w] # "idle"
        /\ \A w \in Workers : pc[w] # "idle" /\ ~TickReady(w) =>
             \E v \in Workers \ {w} : rowLock = v /\ pc[v] = "decide" /\ TickReady(v)
        /\ srv.at # "idle" /\ ~AlertReady =>
             \E v \in Workers : rowLock = v /\ pc[v] = "decide" /\ TickReady(v)
  <1>1. ASSUME IInv, rowLock # None
        PROVE  \E v \in Workers : rowLock = v /\ pc[v] = "decide" /\ TickReady(v)
    BY <1>1 DEF IInv, TypeParts, TableOK, LockInv, TickReady, Row
  <1>2. ASSUME IInv, NEW w \in Workers, pc[w] # "idle", ~TickReady(w)
        PROVE  rowLock # None /\ rowLock # w
    <2>1. hangout.phone \in BOOLEAN /\ pc[w] \in WorkerPlaces
      BY <1>2 DEF IInv, TypeParts, TableOK, JobsOK, Row
    <2>2. pc[w] = "store" /\ rowLock # None
      BY <1>2, <2>1 DEF TickReady, WorkerPlaces
    <2> QED
      BY <1>2, <2>2 DEF IInv, LockInv
  <1>3. ASSUME IInv, srv.at # "idle", ~AlertReady PROVE rowLock # None
    BY <1>3 DEF AlertReady, IInv, TypeParts, Texts, TextPlaces
  <1>4. IInv /\ AdvisoryInv => GoOn
    BY <1>1, <1>2, <1>3 DEF AdvisoryInv
  <1>5. Init => AdvisoryInv
    BY DEF Init, AdvisoryInv
  <1>6. IInv /\ AdvisoryInv /\ [Next]_vars => AdvisoryInv'
    BY AdvisoryStep DEF IInv
  <1> QED
    BY <1>4, <1>5, <1>6, Invariance, PTL DEF Spec

\* The steps that a tick, or an alert, still has to take, at most.
TickRank  == [claim |-> 5, decide |-> 4, compose |-> 3, send |-> 2, store |-> 1, idle |-> 0]
AlertRank == [evaluate |-> 4, send |-> 3, save |-> 2, flag |-> 1, idle |-> 0]

LEMMA QuietAt == Quiet.at = "idle" /\ [Quiet EXCEPT !.at = "flag"].at = "flag"
  BY DEF Quiet

LEMMA MovedAt ==
  ASSUME TypeParts
  PROVE  [srv EXCEPT !.at = "save"].at = "save" /\ [srv EXCEPT !.alone = FALSE].at = srv.at
  BY DEF TypeParts, Texts

\* A tick ends after five steps of its own and an alert after four, whatever the
\* other workers, the handlers and the clock do.
THEOREM NoticesEnd ==
  Spec => [][ /\ \A w \in Workers :
                   /\ Sweep(w) /\ ~BeginTick(w) => TickRank[pc'[w]] < TickRank[pc[w]]
                   /\ ~Sweep(w) /\ pc[w] # "idle" => TickRank[pc'[w]] <= TickRank[pc[w]]
              /\ Alert => AlertRank[srv'.at] < AlertRank[srv.at]
              /\ ~Alert /\ srv.at # "idle" => AlertRank[srv'.at] <= AlertRank[srv.at]]_vars
  <1> DEFINE Ticks == \A w \in Workers :
                        /\ Sweep(w) /\ ~BeginTick(w) => TickRank[pc'[w]] < TickRank[pc[w]]
                        /\ ~Sweep(w) /\ pc[w] # "idle" => TickRank[pc'[w]] <= TickRank[pc[w]]
             Alerts == /\ Alert => AlertRank[srv'.at] < AlertRank[srv.at]
                       /\ ~Alert /\ srv.at # "idle" => AlertRank[srv'.at] <= AlertRank[srv.at]
  <1>1. ASSUME TypeParts, NEW w \in Workers, Sweep(w), ~BeginTick(w)
        PROVE  TickRank[pc'[w]] < TickRank[pc[w]]
    <2>1. \/ pc[w] = "claim" /\ pc'[w] \in {"decide", "idle"}
          \/ pc[w] = "decide" /\ pc'[w] \in {"compose", "idle"}
          \/ pc[w] = "compose" /\ pc'[w] = "send"
          \/ pc[w] = "send" /\ pc'[w] \in {"store", "idle"}
          \/ pc[w] = "store" /\ pc'[w] = "idle"
      BY <1>1 DEF TypeParts, JobsOK, Sweep, Lock, LockMisses, Pass, SkipUnchanged, Claim, Compose, Send, Store,
         StoreFails, EndTick, Goto
    <2> QED
      BY <2>1 DEF TickRank
  <1>2. ASSUME TypeParts, Next, NEW w \in Workers, ~Sweep(w) PROVE pc'[w] \in {pc[w], "idle"}
    <2>1. ASSUME NEW v \in Workers, v # w, Sweep(v) \/ Crash(v) PROVE pc'[w] = pc[w]
      <3>1. ASSUME NEW place \in WorkerPlaces, Goto(v, place) PROVE pc'[w] = pc[w]
        BY <2>1, <3>1, <1>2 DEF TypeParts, JobsOK, Goto
      <3>2. \E place \in WorkerPlaces : Goto(v, place)
        BY <2>1 DEF Sweep, BeginTick, Lock, LockMisses, Pass, SkipUnchanged, Claim, Compose, Send, Store,
           StoreFails, Crash, EndTick, WorkerPlaces
      <3> QED
        BY <3>1, <3>2
    <2>2. CASE Crash(w)
      BY <2>2 DEF Crash, EndTick, Goto, TypeParts, JobsOK
    <2> QED
      BY <1>2, <2>1, <2>2 DEF Next, locals, Tick, Alert, EvaluateAlert, SendAlert, SaveAlert, SaveFails,
         FlagGoal, Web, Reply, Patch, Activate, Close, ServerCrash, LoseAdvisory
  <1>3. ASSUME TypeParts, Alert PROVE AlertRank[srv'.at] < AlertRank[srv.at]
    <2>1. \/ srv.at = "evaluate" /\ srv'.at \in {"send", "idle"}
          \/ srv.at = "send" /\ srv'.at \in {"save", "idle"}
          \/ srv.at = "save" /\ srv'.at \in {"flag", "idle"}
          \/ srv.at = "flag" /\ srv'.at = "idle"
      <3>1. CASE EvaluateAlert
        <4> DEFINE lone == Sending = {}
        <4>1. CASE srv' = Quiet
          BY <3>1, <4>1, QuietAt DEF EvaluateAlert
        <4>2. CASE srv' # Quiet
          <5>1. srv' = [srv EXCEPT !.at = "send", !.old = hangout.print, !.body = rsvp,
                         !.urgent = HighPriority, !.goal = GoalHit, !.alone = lone]
            BY <3>1, <4>2 DEF EvaluateAlert
          <5> HIDE DEF lone
          <5>2. srv'.at = "send"
            BY <1>3, <5>1 DEF TypeParts, Texts
          <5> QED
            BY <3>1, <5>2 DEF EvaluateAlert
        <4> QED
          BY <4>1, <4>2
      <3>2. CASE SendAlert
        BY <1>3, <3>2, QuietAt, MovedAt DEF SendAlert
      <3>3. CASE SaveAlert \/ SaveFails \/ FlagGoal
        BY <3>3, QuietAt DEF SaveAlert, SaveFails, FlagGoal
      <3> QED
        BY <1>3, <3>1, <3>2, <3>3 DEF Alert
    <2> QED
      BY <2>1 DEF AlertRank
  <1>4. ASSUME TypeParts, Next, ~Alert, srv.at # "idle" PROVE srv'.at \in {srv.at, "idle"}
    <2>1. CASE \E w \in Workers : Sweep(w)
      <3>1. UNCHANGED srv \/ srv' = [srv EXCEPT !.alone = FALSE]
        BY <2>1 DEF Sweep, BeginTick, Lock, LockMisses, Pass, SkipUnchanged, Claim, Compose, Send, Store, StoreFails
      <3> QED
        BY <1>4, <3>1, MovedAt
    <2>2. UNCHANGED srv \/ srv' = Quiet \/ \E w \in Workers : Sweep(w)
      BY <1>4 DEF Next, Tick, Web, Reply, Patch, Activate, Close, ServerCrash, Crash, LoseAdvisory
    <2> QED
      BY <1>4, <2>1, <2>2, QuietAt
  <1>5. /\ \A place \in WorkerPlaces : TickRank[place] \in Nat /\ TickRank["idle"] <= TickRank[place]
        /\ \A place \in TextPlaces : AlertRank[place] \in Nat /\ AlertRank["idle"] <= AlertRank[place]
    BY DEF WorkerPlaces, TextPlaces, TickRank, AlertRank
  <1>6. ASSUME TypeParts, Next PROVE Ticks /\ Alerts
    <2>1. srv.at \in TextPlaces /\ \A w \in Workers : pc[w] \in WorkerPlaces
      BY <1>6 DEF TypeParts, JobsOK, Texts
    <2> QED
      BY <1>1, <1>2, <1>3, <1>4, <1>5, <1>6, <2>1
  <1>7. IInv /\ [Next]_vars => [Ticks /\ Alerts]_vars
    BY <1>6 DEF IInv
  <1> QED
    BY <1>7, Invariance, PTL DEF Spec

=============================================================================
