--------------------------- MODULE FollowupsProofs ---------------------------
(***************************************************************************)
(* Proofs about Followups, for every number of workers, invites, hangouts  *)
(* and phones, every list of positive delays and every bound.              *)
(*                                                                         *)
(* The inductive invariant has layers: the types; who holds which row lock *)
(* (LockInv); what the stored clock says of the claims in flight           *)
(* (WindowInv); what a counted follow-up rests on (BudgetInv); and, by     *)
(* itself, what every invitee may still be sent (Accounts).                *)
(***************************************************************************)
EXTENDS Followups, FiniteSetTheorems, TLAPS

-----------------------------------------------------------------------------
(* The settings.                                                           *)

\* Budget is a number, never above the number of delays.
LEMMA BudgetIsNat == Budget \in Nat /\ Budget <= Len(Delays)
  BY SettingsAssumption DEF Budget

\* Every window of the schedule, the grace period included, lasts MinDelay at
\* least (followup_hour_list's entries).
LEMMA WindowAtLeast ==
  ASSUME NEW k \in Nat
  PROVE  Window(k) \in Nat /\ MinDelay <= Window(k)
  <1>1. Len(Delays) \in Nat /\ \A j \in 1..Len(Delays) : Delays[j] \in Nat \ {0}
    BY SettingsAssumption
  <1>2. CASE k < Budget
    <2>1. k + 1 \in 1..Len(Delays)
      BY <1>1, <1>2, BudgetIsNat
    <2> QED
      BY <1>1, <1>2, <2>1, SettingsAssumption DEF Window
  <1>3. CASE ~(k < Budget)
    <2>1. Len(Delays) \in 1..Len(Delays)
      BY <1>1, SettingsAssumption
    <2> QED
      BY <1>1, <1>3, <2>1, SettingsAssumption DEF Window, Grace
  <1> QED
    BY <1>2, <1>3

\* A spent budget is followed by the grace period.
LEMMA GraceWindow == \A k \in Nat : k >= Budget => Window(k) = Grace
  BY BudgetIsNat DEF Window

LEMMA BumpType == \A n \in 0..FailureLimit : Bump(n) \in 0..FailureLimit
  BY SettingsAssumption DEF Bump

-----------------------------------------------------------------------------
(* Type correctness.                                                       *)

\* A worker that works on a candidate has one.
HasCandidate ==
  \A w \in Workers :
    pc[w] \in {"reread", "decide", "dispatch", "result"} => cur[w] \in Invites

\* The part of TypeOK about locks and the locals of the ticks.
LocksOK ==
  /\ advisory \in Workers \cup {Nobody}
  /\ rowLock \in [Invites -> Workers \cup {Nobody}]

LocalsOK ==
  /\ pc \in [Workers -> Places]
  /\ now \in [Workers -> 0..clock]
  /\ todo \in [Workers -> SUBSET Invites]
  /\ cur \in [Workers -> Invites \cup {NoClock}]
  /\ seen \in [Workers -> [sent : Nat, last : Clocks]]
  /\ outcome \in [Workers -> Outcomes]
  /\ HasCandidate

\* The part about the tables.
TablesOK ==
  /\ hangout \in [Hangouts -> HangoutStatus]
  /\ life \in [Invites -> {"absent", "live", "gone"}]
  /\ status \in [Invites -> InviteStatus]
  /\ sent \in [Invites -> Nat]
  /\ last \in [Invites -> 0..clock \cup {NoClock}]
  /\ streak \in [Invites -> 0..FailureLimit]
  /\ optedOut \subseteq Phones

\* The part about the clock, the bounds and the history.
HistoryOK ==
  /\ clock \in 0..MaxClock
  /\ faults \in Nat /\ requests \in Nat
  /\ texted \in [Invites -> SUBSET Nat]
  /\ accepted \in [Invites -> Nat]
  /\ invited \in [Invites -> Nat]
  /\ lost \in 0..faults

TypeInv == LocksOK /\ LocalsOK /\ TablesOK /\ HistoryOK

LEMMA TypeParts == TypeInv => TypeOK
  BY DEF TypeInv, TypeOK, LocksOK, LocalsOK, TablesOK, HistoryOK

LEMMA TypeInit == Init => TypeInv
  BY SettingsAssumption, NamesAssumption, BoundsAssumption
  DEF Init, TypeInv, LocksOK, LocalsOK, TablesOK, HistoryOK, HasCandidate, HangoutStatus, InviteStatus, Clocks, Places,
      Outcomes, NoRead

\* Ending a tick, and ending a candidate's claim, keep locks and locals typed.
LEMMA LeaveTypes ==
  ASSUME LocksOK, LocalsOK, NEW w \in Workers, NEW place \in {"idle", "down"},
         Leave(w, place), clock \in Nat, UNCHANGED clock
  PROVE  LocksOK' /\ LocalsOK'
  <1>1. LocksOK'
    BY DEF LocksOK, Leave, Released, Unlocked
  <1>2. pc' \in [Workers -> Places] /\ now' \in [Workers -> 0..clock']
    BY DEF LocalsOK, Leave, Places
  <1>3. todo' \in [Workers -> SUBSET Invites] /\ cur' \in [Workers -> Invites \cup {NoClock}]
    BY DEF LocalsOK, Leave
  <1>4. seen' \in [Workers -> [sent : Nat, last : Clocks]] /\ outcome' \in [Workers -> Outcomes]
    BY DEF LocalsOK, Leave, NoRead, Clocks, Outcomes
  <1>5. HasCandidate'
    BY DEF LocalsOK, HasCandidate, Leave
  <1> QED
    BY <1>1, <1>2, <1>3, <1>4, <1>5 DEF LocalsOK

LEMMA ContinueTypes ==
  ASSUME LocksOK, LocalsOK, NEW w \in Workers, Continue(w), UNCHANGED clock
  PROVE  LocksOK' /\ LocalsOK'
  <1>1. LocksOK'
    BY DEF LocksOK, Continue, Released
  <1>2. seen' \in [Workers -> [sent : Nat, last : Clocks]] /\ outcome' \in [Workers -> Outcomes]
    BY DEF LocalsOK, Continue, NoRead, Clocks, Outcomes
  <1>3. HasCandidate' /\ pc' \in [Workers -> Places]
    BY DEF LocalsOK, HasCandidate, Continue, Places
  <1> QED
    BY <1>1, <1>2, <1>3 DEF LocalsOK, Continue

\* A worker's step keeps the types: one step of the proof per action.
LEMMA SweepTypes ==
  ASSUME TypeInv, NEW w \in Workers, Sweep(w)
  PROVE  TypeInv'
  <1> USE NamesAssumption DEF TypeInv
  <1>1. CASE BeginTick(w)
    BY <1>1 DEF BeginTick, db, history, Places, LocksOK, LocalsOK, TablesOK, HistoryOK, HasCandidate
  <1>2. CASE Scan(w)
    BY <1>2 DEF Scan, db, history, Places, Candidates, LocksOK, LocalsOK, TablesOK, HistoryOK,
                HasCandidate
  <1>3. CASE Claim(w)
    BY <1>3 DEF Claim, Locked, db, history, Places, LocksOK, LocalsOK, TablesOK, HistoryOK,
                HasCandidate
  <1>4. CASE ClaimMisses(w)
    BY <1>4 DEF ClaimMisses, db, history, LocksOK, LocalsOK, TablesOK, HistoryOK, HasCandidate
  <1>5. CASE CandidateGone(w)
    BY <1>5, LeaveTypes DEF CandidateGone, db, history, TablesOK, HistoryOK
  <1>6. CASE ReRead(w)
    <2>1. cur[w] \in Invites
      BY <1>6 DEF ReRead, LocalsOK, HasCandidate
    <2>2. sent[cur[w]] \in Nat /\ last[cur[w]] \in Clocks
      <3>1. sent[cur[w]] \in Nat /\ last[cur[w]] \in 0..clock \cup {NoClock}
        BY <2>1 DEF TablesOK
      <3> QED
        BY <3>1 DEF Clocks
    <2>3. seen' \in [Workers -> [sent : Nat, last : Clocks]]
      BY <1>6, <2>2 DEF ReRead, LocalsOK
    <2>4. LocalsOK'
      BY <1>6, <2>1, <2>3 DEF ReRead, Places, LocalsOK, HasCandidate
    <2> QED
      BY <1>6, <2>4 DEF ReRead, db, history, LocksOK, TablesOK, HistoryOK
  <1>7. CASE KeepWaiting(w)
    BY <1>7, ContinueTypes DEF KeepWaiting, db, history, TablesOK, HistoryOK
  <1>8. CASE MarkNoResponse(w)
    BY <1>8, ContinueTypes DEF MarkNoResponse, history, TablesOK, HistoryOK, InviteStatus
  <1>9. CASE AdvanceClock(w)
    <2>1. cur[w] \in Invites /\ now[w] \in 0..clock
      BY <1>9 DEF AdvanceClock, LocalsOK, HasCandidate
    <2>2. LocksOK' /\ TablesOK' /\ HistoryOK'
      BY <1>9, <2>1 DEF AdvanceClock, Claimed, Released, history, LocksOK, TablesOK, HistoryOK
    <2>3. LocalsOK'
      BY <1>9, <2>1 DEF AdvanceClock, LocalsOK, HasCandidate, NoRead, Clocks, Places
    <2> QED
      BY <2>2, <2>3
  <1>10. CASE Dispatch(w)
    <2>1. cur[w] \in Invites /\ now[w] \in Nat /\ sent[cur[w]] \in Nat
      <3>1. cur[w] \in Invites
        BY <1>10 DEF Dispatch, LocalsOK, HasCandidate
      <3>2. now[w] \in Nat
        BY DEF LocalsOK, HistoryOK
      <3> QED
        BY <3>1, <3>2 DEF TablesOK
    <2>2. HistoryOK'
      <3>1. texted' \in [Invites -> SUBSET Nat]
        BY <1>10, <2>1 DEF Dispatch, history, HistoryOK
      <3>2. accepted' \in [Invites -> Nat]
        BY <1>10, <2>1 DEF Dispatch, history, HistoryOK
      <3> QED
        BY <1>10, <3>1, <3>2 DEF Dispatch, history, HistoryOK
    <2>3. LocalsOK'
      <3>1. outcome' \in [Workers -> Outcomes]
        BY <1>10 DEF Dispatch, LocalsOK, Outcomes
      <3>2. seen' \in [Workers -> [sent : Nat, last : Clocks]]
        BY <1>10, <2>1 DEF Dispatch, LocalsOK, Clocks
      <3> QED
        BY <1>10, <2>1, <3>1, <3>2 DEF Dispatch, LocalsOK, HasCandidate, Places
    <2> QED
      BY <1>10, <2>2, <2>3 DEF Dispatch, db, LocksOK, TablesOK
  <1>11. CASE RowGone(w)
    BY <1>11, LeaveTypes DEF RowGone, db, history, TablesOK, HistoryOK
  <1>12. CASE SendRaised(w)
    <2>1. streak' \in [Invites -> 0..FailureLimit]
      BY <1>12, BumpType, SettingsAssumption DEF SendRaised, Logged, TablesOK
    <2> QED
      BY <1>12, <2>1, LeaveTypes DEF SendRaised, history, TablesOK, HistoryOK
  <1>13. CASE StoreResult(w)
    <2>1. cur[w] \in Invites /\ seen[w].sent \in Nat
      <3>1. cur[w] \in Invites
        BY <1>13 DEF StoreResult, LocalsOK, HasCandidate
      <3>2. seen[w] \in [sent : Nat, last : Clocks]
        BY DEF LocalsOK
      <3> QED
        BY <3>1, <3>2
    <2>2. streak' \in [Invites -> 0..FailureLimit]
      <3>1. Bump(streak[cur[w]]) \in 0..FailureLimit /\ 0 \in 0..FailureLimit
        <4>1. streak[cur[w]] \in 0..FailureLimit
          BY <2>1 DEF TablesOK
        <4>2. Bump(streak[cur[w]]) \in 0..FailureLimit
          BY <4>1, BumpType
        <4> QED
          BY <4>2, SettingsAssumption
      <3>2. streak' = [streak EXCEPT ![cur[w]] =
                         IF outcome[w] = "ok" THEN 0 ELSE Bump(streak[cur[w]])]
        BY <1>13 DEF StoreResult, Logged
      <3> QED
        BY <2>1, <3>1, <3>2 DEF TablesOK
    <2>3. sent' \in [Invites -> Nat]
      BY <1>13, <2>1 DEF StoreResult, Sent, TablesOK
    <2>4. status' \in [Invites -> InviteStatus]
      BY <1>13, <2>1 DEF StoreResult, TablesOK, InviteStatus
    <2>5. TablesOK' /\ HistoryOK' /\ UNCHANGED clock
      BY <1>13, <2>2, <2>3, <2>4 DEF StoreResult, history, TablesOK, HistoryOK
    <2>6. Continue(w)
      BY <1>13 DEF StoreResult
    <2> QED
      BY <2>5, <2>6, ContinueTypes
  <1>14. CASE EndTick(w)
    BY <1>14, LeaveTypes DEF EndTick, db, history, TablesOK, HistoryOK
  <1> QED
    BY <1>1, <1>2, <1>3, <1>4, <1>5, <1>6, <1>7, <1>8, <1>9, <1>10, <1>11, <1>12, <1>13, <1>14
    DEF Sweep

\* What a setup pass does to the invites, one conjunct per table column.
LEMMA SetupTypes ==
  ASSUME TypeInv, NEW h \in Hangouts, NEW S \in SUBSET InvitesOf(h), NEW Bad \in SUBSET S,
         Setup(h, S, Bad)
  PROVE  TypeInv'
  <1> USE NamesAssumption DEF TypeInv
  <1>1. hangout' \in [Hangouts -> HangoutStatus] /\ UNCHANGED optedOut
    BY DEF Setup, TablesOK, HangoutStatus
  <1>2. life' \in [Invites -> {"absent", "live", "gone"}]
    BY DEF Setup, TablesOK
  <1>3. status' \in [Invites -> InviteStatus]
    BY DEF Setup, TablesOK, InviteStatus
  <1>4. sent' \in [Invites -> Nat] /\ last' \in [Invites -> 0..clock \cup {NoClock}]
    BY DEF Setup, TablesOK, HistoryOK
  <1>5. streak' \in [Invites -> 0..FailureLimit]
    BY BumpType, SettingsAssumption DEF Setup, TablesOK
  <1>6. LocksOK' /\ LocalsOK' /\ HistoryOK'
    BY DEF Setup, Request, locals, LocksOK, LocalsOK, HasCandidate, HistoryOK
  <1>7. UNCHANGED clock
    BY DEF Setup
  <1> QED
    BY <1>1, <1>2, <1>3, <1>4, <1>5, <1>6, <1>7 DEF TablesOK

LEMMA WebTypes ==
  ASSUME TypeInv, Web
  PROVE  TypeInv'
  <1> USE NamesAssumption DEF TypeInv
  <1>1. ASSUME NEW i \in Invites, AddInvitee(i) \/ DeleteInvite(i) PROVE TypeInv'
    <2>1. TablesOK'
      BY <1>1 DEF AddInvitee, DeleteInvite, TablesOK
    <2>2. LocksOK' /\ LocalsOK' /\ HistoryOK'
      BY <1>1 DEF AddInvitee, DeleteInvite, Request, locals, history, LocksOK, LocalsOK,
                  HistoryOK, HasCandidate
    <2> QED
      BY <2>1, <2>2
  <1>2. ASSUME NEW h \in Hangouts, Close(h) PROVE TypeInv'
    BY <1>2 DEF Close, Request, locals, history, HangoutStatus, LocksOK, LocalsOK, TablesOK,
                HistoryOK, HasCandidate
  <1>3. ASSUME NEW p \in Phones, NEW answer \in {"confirmed", "declined"}, Reply(p, answer)
        PROVE TypeInv'
    BY <1>3 DEF Reply, Request, locals, history, InviteStatus, LocksOK, LocalsOK, TablesOK,
                HistoryOK, HasCandidate
  <1>4. ASSUME NEW p \in Phones, Stop(p) \/ Start(p) PROVE TypeInv'
    <2>1. TablesOK'
      BY <1>4 DEF Stop, Start, InviteStatus, TablesOK
    <2>2. LocksOK' /\ LocalsOK' /\ HistoryOK'
      BY <1>4 DEF Stop, Start, Request, locals, history, LocksOK, LocalsOK, HasCandidate, HistoryOK
    <2> QED
      BY <2>1, <2>2
  <1> QED
    BY <1>1, <1>2, <1>3, <1>4, SetupTypes DEF Web

LEMMA TypeStep == TypeInv /\ [Next]_vars => TypeInv'
  <1> SUFFICES ASSUME TypeInv, [Next]_vars PROVE TypeInv'
    OBVIOUS
  <1> USE NamesAssumption DEF TypeInv
  <1>1. CASE UNCHANGED vars
    BY <1>1 DEF vars, db, locals, history, LocksOK, LocalsOK, TablesOK, HistoryOK, HasCandidate
  <1>2. CASE Tick
    BY <1>2, BoundsAssumption
    DEF Tick, db, locals, history, LocksOK, LocalsOK, TablesOK, HistoryOK, HasCandidate
  <1>3. ASSUME NEW w \in Workers, Crash(w) PROVE TypeInv'
    BY <1>3, LeaveTypes DEF Crash, db, history, TablesOK, HistoryOK
  <1>4. ASSUME NEW w \in Workers, Restart(w) \/ LoseAdvisory(w) PROVE TypeInv'
    BY SMTT(60), <1>4 DEF Restart, LoseAdvisory, db, locals, history, Places, LocksOK, LocalsOK, TablesOK,
                HistoryOK, HasCandidate
  <1> QED
    BY <1>1, <1>2, <1>3, <1>4, SweepTypes, WebTypes DEF Next

\* Every behaviour of the sweep and of the web handlers is type correct, and
\* no stored or held clock is ever ahead of the wall clock.
THEOREM TypeCorrect == Spec => []TypeOK
  <1>1. Spec => []TypeInv
    BY TypeInit, TypeStep, PTL DEF Spec
  <1> QED
    BY <1>1, TypeParts, PTL

-----------------------------------------------------------------------------
(* Safety of the sweep: the layers of its inductive invariant.             *)

Claiming == {"reread", "decide"}
Holding  == {"dispatch", "result"}

\* A row lock is held exactly by the worker that decides about the row.
LockOwned ==
  \A i \in Invites : \A w \in Workers : rowLock[i] = w => pc[w] \in Claiming /\ cur[w] = i

LockHeld == \A w \in Workers : pc[w] \in Claiming => rowLock[cur[w]] = w

\* What a worker decides by is what the row holds.
ReadFresh ==
  \A w \in Workers : pc[w] = "decide" => /\ seen[w].last = last[cur[w]]
                                         /\ seen[w].sent = sent[cur[w]]

LockInv == LockOwned /\ LockHeld /\ ReadFresh

\* A claim is never newer than the stored clock of its invite.
ClaimsCovered ==
  \A w \in Workers : pc[w] \in Holding => last[cur[w]] # NoClock /\ now[w] <= last[cur[w]]

TextsCovered ==
  \A i \in Invites : \A t \in texted[i] : last[i] # NoClock /\ t <= last[i]

TextsApart == \A i \in Invites : \A s, t \in texted[i] : s # t => Apart(s, t)

\* A claim that will be texted is a delay away from every text of the invite.
OpenApart ==
  \A w \in Workers : pc[w] = "dispatch" => \A t \in texted[cur[w]] : Apart(t, now[w])

ClaimsApart ==
  \A v, w \in Workers :
    v # w /\ cur[v] = cur[w] /\ pc[v] \in Holding /\ pc[w] \in Holding => Apart(now[v], now[w])

WindowInv == ClaimsCovered /\ TextsCovered /\ TextsApart /\ OpenApart /\ ClaimsApart

\* A counted follow-up, and one about to be counted, was accepted.
BudgetInv ==
  /\ BudgetEarned
  /\ \A w \in Workers :
       pc[w] = "result" /\ outcome[w] = "ok" => seen[w].sent <= accepted[cur[w]]

IInv == TypeInv /\ LockInv /\ WindowInv /\ BudgetInv

LEMMA SafetyInit == Init => LockInv /\ WindowInv /\ BudgetInv
  BY NamesAssumption
  DEF Init, LockInv, LockOwned, LockHeld, ReadFresh, WindowInv, ClaimsCovered, TextsCovered,
      TextsApart, OpenApart, ClaimsApart, BudgetInv, BudgetEarned, Claiming, Holding

-----------------------------------------------------------------------------
(* Row locks.                                                              *)

\* The worker keeps its place in the critical section, and its copy.
SameClaim(v) ==
  /\ pc'[v] \in Claiming <=> pc[v] \in Claiming
  /\ pc[v] \in Claiming => /\ cur'[v] = cur[v]
                           /\ pc'[v] = pc[v] /\ seen'[v] = seen[v]

\* Nobody but the holder of its lock touches the row's clock or count.
RowKept(i) == sent'[i] = sent[i] /\ last'[i] = last[i]

\* A step outside the critical sections, which respects the locks it meets.
LEMMA LockFrame ==
  ASSUME TypeInv, LockInv, UNCHANGED rowLock,
         \A v \in Workers : SameClaim(v),
         \A i \in Invites : rowLock[i] # Nobody => RowKept(i)
  PROVE  LockInv'
  <1>1. LockOwned'
    BY DEF LockInv, LockOwned, SameClaim
  <1>2. LockHeld'
    BY DEF LockInv, LockHeld, SameClaim
  <1>3. ReadFresh'
    <2> SUFFICES ASSUME NEW v \in Workers, pc'[v] = "decide"
                 PROVE  seen'[v].last = last'[cur'[v]] /\ seen'[v].sent = sent'[cur'[v]]
      BY DEF ReadFresh
    <2>1. pc[v] = "decide" /\ cur'[v] = cur[v] /\ seen'[v] = seen[v]
      BY DEF SameClaim, Claiming
    <2>2. cur[v] \in Invites /\ rowLock[cur[v]] = v
      BY <2>1 DEF TypeInv, LocalsOK, HasCandidate, LockInv, LockHeld, Claiming
    <2>3. RowKept(cur[v])
      BY <2>2, NamesAssumption
    <2> QED
      BY <2>1, <2>3 DEF LockInv, ReadFresh, RowKept
  <1> QED
    BY <1>1, <1>2, <1>3 DEF LockInv

\* A step of w that ends its transaction, and with it its critical section.
LEMMA LockRelease ==
  ASSUME TypeInv, LockInv, NEW w \in Workers,
         rowLock' = Released(w), pc'[w] \notin Claiming,
         \A v \in Workers \ {w} : SameClaim(v),
         \A i \in Invites : rowLock[i] \notin {Nobody, w} => RowKept(i)
  PROVE  LockInv'
  <1>1. LockOwned'
    <2> SUFFICES ASSUME NEW i \in Invites, NEW v \in Workers, rowLock'[i] = v
                 PROVE  pc'[v] \in Claiming /\ cur'[v] = i
      BY DEF LockOwned
    <2>1. rowLock[i] = v /\ v # w
      BY NamesAssumption DEF Released
    <2> QED
      BY <2>1 DEF LockInv, LockOwned, SameClaim
  <1>2. ASSUME NEW v \in Workers, pc'[v] \in Claiming
        PROVE  v # w /\ pc[v] \in Claiming /\ cur'[v] = cur[v] /\ cur[v] \in Invites
               /\ rowLock[cur[v]] = v
    <2>1. v # w
      BY <1>2
    <2>2. pc[v] \in Claiming /\ cur'[v] = cur[v]
      BY <1>2, <2>1 DEF SameClaim
    <2> QED
      BY <2>1, <2>2 DEF TypeInv, LocalsOK, HasCandidate, LockInv, LockHeld, Claiming
  <1>3. LockHeld'
    BY <1>2 DEF LockHeld, Released
  <1>4. ReadFresh'
    <2> SUFFICES ASSUME NEW v \in Workers, pc'[v] = "decide"
                 PROVE  seen'[v].last = last'[cur'[v]] /\ seen'[v].sent = sent'[cur'[v]]
      BY DEF ReadFresh
    <2>1. v # w /\ pc[v] \in Claiming /\ cur'[v] = cur[v] /\ cur[v] \in Invites
          /\ rowLock[cur[v]] = v
      BY <1>2 DEF Claiming
    <2>2. pc[v] = "decide" /\ seen'[v] = seen[v]
      BY <2>1 DEF SameClaim
    <2>3. RowKept(cur[v])
      BY <2>1, NamesAssumption
    <2> QED
      BY <2>1, <2>2, <2>3 DEF LockInv, ReadFresh, RowKept
  <1> QED
    BY <1>1, <1>3, <1>4 DEF LockInv

-----------------------------------------------------------------------------
(* Windows.                                                                *)

\* The worker has no claim in flight that it did not have.
SameHolding(v) ==
  pc'[v] \in Holding => pc'[v] = pc[v] /\ cur'[v] = cur[v] /\ now'[v] = now[v]

LEMMA WindowFrame ==
  ASSUME WindowInv, UNCHANGED <<last, texted>>, \A v \in Workers : SameHolding(v)
  PROVE  WindowInv'
  <1>1. ClaimsCovered'
    BY DEF WindowInv, ClaimsCovered, SameHolding
  <1>2. TextsCovered' /\ TextsApart'
    BY DEF WindowInv, TextsCovered, TextsApart
  <1>3. OpenApart'
    BY DEF WindowInv, OpenApart, SameHolding, Holding
  <1>4. ClaimsApart'
    BY DEF WindowInv, ClaimsApart, SameHolding
  <1> QED
    BY <1>1, <1>2, <1>3, <1>4 DEF WindowInv

-----------------------------------------------------------------------------
(* The budget.                                                             *)

SameResult(v) ==
  pc'[v] = "result" => /\ pc[v] = "result" /\ outcome'[v] = outcome[v]
                       /\ cur'[v] = cur[v] /\ seen'[v] = seen[v]

LEMMA BudgetFrame ==
  ASSUME TypeInv, BudgetInv, UNCHANGED accepted,
         \A i \in Invites : sent'[i] = sent[i] \/ sent'[i] = 0,
         \A v \in Workers : SameResult(v)
  PROVE  BudgetInv'
  <1>1. BudgetEarned'
    <2> SUFFICES ASSUME NEW i \in Invites PROVE sent'[i] <= accepted'[i]
      BY DEF BudgetEarned
    <2>1. accepted[i] \in Nat /\ accepted'[i] = accepted[i] /\ sent[i] <= accepted[i]
      BY DEF TypeInv, HistoryOK, BudgetInv, BudgetEarned
    <2> QED
      BY <2>1
  <1> QED
    BY <1>1 DEF BudgetInv, SameResult

-----------------------------------------------------------------------------
(* The steps of a worker.                                                  *)

\* Ending a tick keeps all three layers, whatever it leaves of sent.
LEMMA LeaveSafe ==
  ASSUME TypeInv, LockInv, WindowInv, BudgetInv, NEW w \in Workers,
         NEW place \in {"idle", "down"}, Leave(w, place),
         UNCHANGED <<sent, last, texted, accepted>>
  PROVE  LockInv' /\ WindowInv' /\ BudgetInv'
  <1>1. rowLock' = Released(w) /\ pc'[w] = place
    BY DEF Leave, TypeInv, LocalsOK
  <1>2. \A v \in Workers \ {w} : /\ pc'[v] = pc[v] /\ cur'[v] = cur[v] /\ now'[v] = now[v]
                                 /\ seen'[v] = seen[v] /\ outcome'[v] = outcome[v]
    BY DEF Leave, TypeInv, LocalsOK
  <1>3. LockInv'
    BY <1>1, <1>2, LockRelease DEF SameClaim, RowKept, Claiming
  <1>4. WindowInv'
    BY <1>1, <1>2, WindowFrame DEF SameHolding, Holding
  <1>5. BudgetInv'
    BY <1>1, <1>2, BudgetFrame DEF SameResult
  <1> QED
    BY <1>3, <1>4, <1>5

\* Going on with the next candidate keeps the claims of the other workers.
LEMMA ContinueSafe ==
  ASSUME TypeInv, LockInv, WindowInv, NEW w \in Workers, Continue(w),
         UNCHANGED <<last, texted>>,
         \A i \in Invites : rowLock[i] \notin {Nobody, w} => sent'[i] = sent[i]
  PROVE  /\ LockInv' /\ WindowInv'
         /\ \A v \in Workers : SameResult(v)
  <1>1. rowLock' = Released(w) /\ pc'[w] = "next" /\ UNCHANGED now
    BY DEF Continue, TypeInv, LocalsOK
  <1>2. \A v \in Workers \ {w} : /\ pc'[v] = pc[v] /\ cur'[v] = cur[v]
                                 /\ seen'[v] = seen[v] /\ outcome'[v] = outcome[v]
    BY DEF Continue, TypeInv, LocalsOK
  <1>3. LockInv'
    BY <1>1, <1>2, LockRelease DEF SameClaim, RowKept, Claiming
  <1>4. WindowInv'
    BY <1>1, <1>2, WindowFrame DEF SameHolding, Holding
  <1> QED
    BY <1>1, <1>2, <1>3, <1>4 DEF SameResult

\* The claim is committed: the new clock is a delay past the old one, hence
\* past every text and every claim the invite ever had.
LEMMA AdvanceSafe ==
  ASSUME TypeInv, LockInv, WindowInv, BudgetInv, NEW w \in Workers, AdvanceClock(w)
  PROVE  /\ LockInv' /\ WindowInv' /\ BudgetInv'
         /\ last[cur[w]] # NoClock /\ last[cur[w]] + MinDelay <= now[w]
  <1> DEFINE i == cur[w]
  <1>1. /\ i \in Invites /\ rowLock[i] = w /\ pc[w] = "decide"
        /\ seen[w].last = last[i] /\ seen[w].sent = sent[i]
    BY DEF AdvanceClock, TypeInv, LocalsOK, HasCandidate, LockInv, LockHeld, ReadFresh, Claiming
  <1>2. /\ last' = [last EXCEPT ![i] = now[w]] /\ rowLock' = Released(w)
        /\ pc' = [pc EXCEPT ![w] = "dispatch"] /\ seen' = [seen EXCEPT ![w] = NoRead]
        /\ UNCHANGED <<now, cur, outcome, sent, texted, accepted>>
    BY DEF AdvanceClock, Claimed, history
  <1>3. /\ clock \in Nat /\ now \in [Workers -> 0..clock] /\ sent[i] \in Nat
        /\ last[i] \in 0..clock \cup {NoClock} /\ texted \in [Invites -> SUBSET Nat]
    BY <1>1 DEF TypeInv, LocalsOK, TablesOK, HistoryOK
  <1>4. last[i] # NoClock /\ now[w] >= last[i] + Window(sent[i])
    BY <1>1 DEF AdvanceClock, DueBySeen
  <1>5. MinDelay \in Nat \ {0} /\ Window(sent[i]) \in Nat /\ MinDelay <= Window(sent[i])
    BY <1>3, WindowAtLeast, SettingsAssumption
  <1>6. last[i] + MinDelay <= now[w]
    BY <1>3, <1>4, <1>5
  <1>7. \A v \in Workers \ {w} : pc'[v] = pc[v] /\ seen'[v] = seen[v]
    BY <1>2 DEF TypeInv, LocalsOK
  <1>8. pc'[w] = "dispatch" /\ last'[i] = now[w] /\ \A j \in Invites \ {i} : last'[j] = last[j]
    BY <1>1, <1>2 DEF TypeInv, LocalsOK, TablesOK
  <1>9. LockInv'
    <2>1. \A j \in Invites : rowLock[j] \notin {Nobody, w} => RowKept(j)
      BY <1>1, <1>2, <1>8 DEF RowKept
    <2> QED
      BY <1>2, <1>7, <1>8, <2>1, LockRelease DEF SameClaim, Claiming
  <1>10. now[w] \in Nat /\ NoClock \notin Nat /\ last[i] \in Nat
    BY <1>3, <1>4, NamesAssumption
  <1>11. \A v \in Workers : pc[v] \in Holding /\ cur[v] = i =>
           now[v] \in Nat /\ now[v] + MinDelay <= now[w]
    BY <1>3, <1>5, <1>6, <1>10 DEF WindowInv, ClaimsCovered
  <1>12. \A t \in texted[i] : t \in Nat /\ t + MinDelay <= now[w]
    BY <1>1, <1>3, <1>5, <1>6, <1>10 DEF WindowInv, TextsCovered
  <1>13. ClaimsCovered'
    <2> SUFFICES ASSUME NEW v \in Workers, pc'[v] \in Holding
                 PROVE  last'[cur[v]] # NoClock /\ now[v] <= last'[cur[v]]
      BY <1>2 DEF ClaimsCovered
    <2>1. CASE v = w
      BY <2>1, <1>8, <1>10
    <2>2. CASE v # w
      <3>1. pc[v] \in Holding /\ cur[v] \in Invites
        BY <2>2, <1>7 DEF TypeInv, LocalsOK, HasCandidate, Holding
      <3>2. CASE cur[v] = i
        BY <3>1, <3>2, <1>8, <1>10, <1>11, <1>5
      <3>3. CASE cur[v] # i
        BY <3>1, <3>3, <1>8 DEF WindowInv, ClaimsCovered
      <3> QED
        BY <3>2, <3>3
    <2> QED
      BY <2>1, <2>2
  <1>14. TextsCovered'
    <2> SUFFICES ASSUME NEW j \in Invites, NEW t \in texted[j]
                 PROVE  last'[j] # NoClock /\ t <= last'[j]
      BY <1>2 DEF TextsCovered
    <2>1. CASE j = i
      BY <2>1, <1>8, <1>10, <1>12, <1>5
    <2>2. CASE j # i
      BY <2>2, <1>8 DEF WindowInv, TextsCovered
    <2> QED
      BY <2>1, <2>2
  <1>15. TextsApart'
    BY <1>2 DEF WindowInv, TextsApart
  <1>16. OpenApart'
    <2> SUFFICES ASSUME NEW v \in Workers, pc'[v] = "dispatch", NEW t \in texted[cur[v]]
                 PROVE  Apart(t, now[v])
      BY <1>2 DEF OpenApart
    <2>1. CASE v = w
      BY <2>1, <1>12 DEF Apart
    <2>2. CASE v # w
      BY <2>2, <1>7 DEF WindowInv, OpenApart
    <2> QED
      BY <2>1, <2>2
  <1>17. ClaimsApart'
    <2> SUFFICES ASSUME NEW u \in Workers, NEW v \in Workers, u # v, cur[u] = cur[v],
                        pc'[u] \in Holding, pc'[v] \in Holding
                 PROVE  Apart(now[u], now[v])
      BY <1>2 DEF ClaimsApart
    <2>1. CASE u = w
      <3>1. pc[v] \in Holding /\ cur[v] = i
        BY <2>1, <1>7
      <3> QED
        BY <2>1, <3>1, <1>11 DEF Apart
    <2>2. CASE v = w
      <3>1. pc[u] \in Holding /\ cur[u] = i
        BY <2>2, <1>7
      <3> QED
        BY <2>2, <3>1, <1>11 DEF Apart
    <2>3. CASE u # w /\ v # w
      BY <2>3, <1>7 DEF WindowInv, ClaimsApart
    <2> QED
      BY <2>1, <2>2, <2>3
  <1>18. BudgetInv'
    BY <1>2, <1>7, <1>8, BudgetFrame DEF SameResult
  <1> QED
    BY <1>4, <1>6, <1>9, <1>13, <1>14, <1>15, <1>16, <1>17, <1>18 DEF WindowInv

\* A text goes out for a claim that stands apart from every other one.
LEMMA DispatchSafe ==
  ASSUME TypeInv, LockInv, WindowInv, BudgetInv, NEW w \in Workers, Dispatch(w)
  PROVE  LockInv' /\ WindowInv' /\ BudgetInv'
  <1> DEFINE i == cur[w]
  <1>1. /\ i \in Invites /\ now[w] \in Nat /\ sent[i] \in Nat /\ pc[w] = "dispatch"
    <2>1. i \in Invites /\ pc[w] = "dispatch"
      BY DEF Dispatch, TypeInv, LocalsOK, HasCandidate
    <2>2. now[w] \in Nat
      BY DEF TypeInv, LocalsOK, HistoryOK
    <2> QED
      BY <2>1, <2>2 DEF TypeInv, TablesOK
  <1>2. /\ pc' = [pc EXCEPT ![w] = "result"]
        /\ seen' = [seen EXCEPT ![w] = [sent |-> sent[i] + 1, last |-> NoClock]]
        /\ UNCHANGED <<now, cur, last, sent, rowLock>>
    BY DEF Dispatch, db
  <1>3. /\ \A v \in Workers \ {w} : /\ pc'[v] = pc[v] /\ seen'[v] = seen[v]
                                    /\ outcome'[v] = outcome[v]
        /\ pc'[w] = "result"
    BY <1>2 DEF Dispatch, TypeInv, LocalsOK
  <1>4. LockInv'
    BY <1>1, <1>2, <1>3, LockFrame DEF SameClaim, RowKept, Claiming
  <1>5. \/ UNCHANGED texted
        \/ texted' = [texted EXCEPT ![i] = @ \cup {now[w]}]
    BY DEF Dispatch, history
  <1>6. \A j \in Invites : \A t \in texted'[j] : t \in texted[j] \/ (j = i /\ t = now[w])
    BY <1>1, <1>5 DEF TypeInv, HistoryOK
  <1>7. ClaimsCovered'
    BY <1>1, <1>2, <1>3 DEF WindowInv, ClaimsCovered, Holding
  <1>8. TextsCovered'
    BY <1>1, <1>2, <1>6 DEF WindowInv, TextsCovered, ClaimsCovered, Holding
  <1>9. TextsApart'
    BY <1>1, <1>6 DEF WindowInv, TextsApart, OpenApart, Apart
  <1>10. OpenApart'
    <2> SUFFICES ASSUME NEW v \in Workers, pc'[v] = "dispatch", NEW t \in texted'[cur[v]]
                 PROVE  Apart(t, now[v])
      BY <1>2 DEF OpenApart
    <2>1. v # w /\ pc[v] = "dispatch" /\ cur[v] \in Invites
      BY <1>3 DEF TypeInv, LocalsOK, HasCandidate
    <2>2. CASE t \in texted[cur[v]]
      BY <2>1, <2>2 DEF WindowInv, OpenApart
    <2>3. CASE t \notin texted[cur[v]]
      <3>1. cur[v] = i /\ t = now[w]
        BY <2>1, <2>3, <1>6
      <3> QED
        BY <1>1, <2>1, <3>1 DEF WindowInv, ClaimsApart, Holding
    <2> QED
      BY <2>2, <2>3
  <1>11. ClaimsApart'
    BY <1>1, <1>2, <1>3 DEF WindowInv, ClaimsApart, Holding
  <1>12. accepted \in [Invites -> Nat]
    BY DEF TypeInv, HistoryOK
  <1>13. /\ \A j \in Invites : accepted[j] <= accepted'[j]
         /\ outcome'[w] = "ok" => accepted'[i] = accepted[i] + 1
    <2>1. CASE outcome' = [outcome EXCEPT ![w] = "dnc"] /\ UNCHANGED history
      BY <2>1, <1>12 DEF history, TypeInv, LocalsOK
    <2>2. ASSUME NEW o \in Outcomes, outcome' = [outcome EXCEPT ![w] = o],
                 accepted' = IF o = "ok" THEN [accepted EXCEPT ![cur[w]] = @ + 1] ELSE accepted
          PROVE  /\ \A j \in Invites : accepted[j] <= accepted'[j]
                 /\ outcome'[w] = "ok" => accepted'[i] = accepted[i] + 1
      <3>1. outcome'[w] = o
        BY <2>2 DEF TypeInv, LocalsOK
      <3> QED
        BY <3>1, <2>2, <1>1, <1>12
    <2> QED
      BY <2>1, <2>2 DEF Dispatch
  <1>14. BudgetEarned'
    <2> SUFFICES ASSUME NEW j \in Invites PROVE sent[j] <= accepted'[j]
      BY <1>2 DEF BudgetEarned
    <2>1. /\ sent[j] \in Nat /\ accepted[j] \in Nat /\ accepted'[j] \in Nat
          /\ sent[j] <= accepted[j]
      BY <1>12, TypeStep DEF TypeInv, TablesOK, HistoryOK, BudgetInv, BudgetEarned, Next, Sweep
    <2> QED
      BY <2>1, <1>13
  <1>15. ASSUME NEW v \in Workers, pc'[v] = "result", outcome'[v] = "ok"
         PROVE  seen'[v].sent <= accepted'[cur'[v]]
    <2>1. CASE v = w
      <3>1. seen'[w].sent = sent[i] + 1
        BY <1>2 DEF TypeInv, LocalsOK
      <3>2. accepted'[i] = accepted[i] + 1
        BY <2>1, <1>13, <1>15
      <3>3. sent[i] <= accepted[i] /\ accepted[i] \in Nat
        BY <1>1, <1>12 DEF BudgetInv, BudgetEarned
      <3> QED
        BY <2>1, <3>1, <3>2, <3>3, <1>1, <1>2
    <2>2. CASE v # w
      <3>1. pc[v] = "result" /\ outcome[v] = "ok" /\ seen'[v] = seen[v] /\ cur[v] \in Invites
        BY <2>2, <1>3, <1>15 DEF TypeInv, LocalsOK, HasCandidate
      <3>2. seen[v].sent <= accepted[cur[v]] /\ seen[v].sent \in Nat
        BY <3>1 DEF BudgetInv, TypeInv, LocalsOK
      <3>3. accepted[cur[v]] \in Nat /\ accepted'[cur[v]] \in Nat
        BY <3>1, TypeStep DEF TypeInv, HistoryOK, Next, Sweep
      <3> QED
        BY <3>1, <3>2, <3>3, <1>2, <1>13
    <2> QED
      BY <2>1, <2>2
  <1> QED
    BY <1>4, <1>7, <1>8, <1>9, <1>10, <1>11, <1>14, <1>15 DEF WindowInv, BudgetInv

\* The result is stored: a success counts what was accepted.
LEMMA StoreSafe ==
  ASSUME TypeInv, LockInv, WindowInv, BudgetInv, NEW w \in Workers, StoreResult(w)
  PROVE  LockInv' /\ WindowInv' /\ BudgetInv'
  <1> DEFINE i == cur[w]
  <1>1. i \in Invites /\ pc[w] = "result" /\ rowLock[i] = Nobody
    BY DEF StoreResult, Writable, TypeInv, LocalsOK, HasCandidate
  <1>2. /\ Continue(w) /\ UNCHANGED <<last, texted, accepted>>
        /\ sent' = Sent(w)
    BY DEF StoreResult, history
  <1>3. \A j \in Invites \ {i} : sent'[j] = sent[j]
    BY <1>1, <1>2 DEF Sent, TypeInv, TablesOK
  <1>4. sent'[i] <= accepted[i]
    BY <1>1, <1>2 DEF Sent, TypeInv, TablesOK, BudgetInv, BudgetEarned
  <1>5. LockInv' /\ WindowInv' /\ \A v \in Workers : SameResult(v)
    BY <1>1, <1>2, <1>3, ContinueSafe
  <1>6. BudgetInv'
    BY <1>2, <1>3, <1>4, <1>5 DEF BudgetInv, BudgetEarned, SameResult
  <1> QED
    BY <1>5, <1>6

LEMMA SweepSafe ==
  ASSUME TypeInv, LockInv, WindowInv, BudgetInv, NEW w \in Workers, Sweep(w)
  PROVE  LockInv' /\ WindowInv' /\ BudgetInv'
  <1>1. CASE BeginTick(w) \/ Scan(w) \/ ClaimMisses(w)
    <2>1. UNCHANGED <<rowLock, sent, last, texted, accepted>>
      BY <1>1 DEF BeginTick, Scan, ClaimMisses, db, history
    <2>2. \A v \in Workers : SameClaim(v) /\ SameHolding(v) /\ SameResult(v)
      BY <1>1 DEF BeginTick, Scan, ClaimMisses, SameClaim, SameHolding, SameResult, Claiming,
                  Holding, TypeInv, LocalsOK
    <2> QED
      BY <2>1, <2>2, LockFrame, WindowFrame, BudgetFrame DEF RowKept
  <1>2. CASE Claim(w)
    <2>1. PICK i \in Invites :
            /\ pc[w] = "next" /\ rowLock[i] = Nobody
            /\ rowLock' = [rowLock EXCEPT ![i] = w]
            /\ cur' = [cur EXCEPT ![w] = i]
            /\ pc' = [pc EXCEPT ![w] = "reread"]
            /\ UNCHANGED <<sent, last, now, seen, outcome, texted, accepted>>
      BY <1>2 DEF Claim, Locked, db, history, TypeInv, LocalsOK
    <2>2. /\ pc'[w] = "reread" /\ cur'[w] = i /\ rowLock'[i] = w
          /\ \A v \in Workers \ {w} : pc'[v] = pc[v] /\ cur'[v] = cur[v]
          /\ \A j \in Invites \ {i} : rowLock'[j] = rowLock[j]
      BY <2>1 DEF TypeInv, LocalsOK, LocksOK
    <2>3. \A v \in Workers : pc[v] \in Claiming => v # w /\ cur[v] \in Invites \ {i}
      BY <2>1, NamesAssumption DEF LockInv, LockHeld, TypeInv, LocalsOK, HasCandidate, Claiming
    <2>4. LockOwned'
      BY <2>1, <2>2, NamesAssumption DEF LockInv, LockOwned, Claiming
    <2>5. LockHeld' /\ ReadFresh'
      BY <2>1, <2>2, <2>3 DEF LockInv, LockHeld, ReadFresh, Claiming
    <2>6. \A v \in Workers : SameHolding(v) /\ SameResult(v)
      BY <2>1, <2>2 DEF SameHolding, SameResult, Holding
    <2> QED
      BY <2>1, <2>4, <2>5, <2>6, WindowFrame, BudgetFrame DEF LockInv
  <1>3. CASE CandidateGone(w) \/ RowGone(w) \/ SendRaised(w) \/ EndTick(w)
    <2>1. Leave(w, "idle") /\ UNCHANGED <<sent, last, texted, accepted>>
      BY <1>3 DEF CandidateGone, RowGone, SendRaised, EndTick, db, history
    <2> QED
      BY <2>1, LeaveSafe
  <1>4. CASE ReRead(w)
    <2>1. /\ pc[w] = "reread" /\ pc'[w] = "decide"
          /\ seen'[w] = [sent |-> sent[cur[w]], last |-> last[cur[w]]]
          /\ \A v \in Workers \ {w} : pc'[v] = pc[v] /\ seen'[v] = seen[v]
          /\ UNCHANGED <<rowLock, cur, now, outcome, sent, last, texted, accepted>>
      BY <1>4 DEF ReRead, db, history, TypeInv, LocalsOK
    <2>2. LockOwned' /\ LockHeld' /\ ReadFresh'
      BY <2>1 DEF LockInv, LockOwned, LockHeld, ReadFresh, Claiming
    <2>3. \A v \in Workers : SameHolding(v) /\ SameResult(v)
      BY <2>1 DEF SameHolding, SameResult, Holding
    <2> QED
      BY <2>1, <2>2, <2>3, WindowFrame, BudgetFrame DEF LockInv
  <1>5. CASE KeepWaiting(w) \/ MarkNoResponse(w)
    <2>1. Continue(w) /\ UNCHANGED <<sent, last, texted, accepted>>
      BY <1>5 DEF KeepWaiting, MarkNoResponse, db, history
    <2> QED
      BY <2>1, ContinueSafe, BudgetFrame
  <1> QED
    BY <1>1, <1>2, <1>3, <1>4, <1>5, AdvanceSafe, DispatchSafe, StoreSafe DEF Sweep

-----------------------------------------------------------------------------
(* The web handlers.                                                       *)

\* A setup pass restarts clocks at the present, which is past every claim.
LEMMA SetupSafe ==
  ASSUME TypeInv, LockInv, WindowInv, BudgetInv, NEW h \in Hangouts,
         NEW S \in SUBSET InvitesOf(h), NEW Bad \in SUBSET S, Setup(h, S, Bad)
  PROVE  LockInv' /\ WindowInv' /\ BudgetInv'
  <1> DEFINE texts == {i \in S : SetupTexts(i)}
  <1>1. /\ sent' = [i \in Invites |-> IF i \in texts THEN 0 ELSE sent[i]]
        /\ last' = [i \in Invites |-> IF i \in texts THEN clock ELSE last[i]]
        /\ UNCHANGED <<rowLock, pc, now, cur, seen, outcome, texted, accepted>>
        /\ \A i \in texts : rowLock[i] = Nobody
    BY DEF Setup, Writable, locals
  <1>2. clock \in Nat /\ NoClock # clock
    BY NamesAssumption DEF TypeInv, HistoryOK
  <1>3. LockInv'
    <2>1. \A i \in Invites : rowLock[i] # Nobody => RowKept(i)
      BY <1>1 DEF RowKept
    <2>2. \A v \in Workers : SameClaim(v)
      BY <1>1 DEF SameClaim
    <2> QED
      BY <1>1, <2>1, <2>2, LockFrame
  <1>4. \A i \in Invites : last[i] # NoClock =>
          /\ last'[i] # NoClock
          /\ \A t \in Nat : t <= last[i] => t <= last'[i]
    BY <1>1, <1>2 DEF TypeInv, TablesOK
  <1>5. ClaimsCovered'
    <2> SUFFICES ASSUME NEW v \in Workers, pc[v] \in Holding
                 PROVE  last'[cur[v]] # NoClock /\ now[v] <= last'[cur[v]]
      BY <1>1 DEF ClaimsCovered
    <2>1. cur[v] \in Invites
      BY DEF TypeInv, LocalsOK, HasCandidate, Holding
    <2>2. now[v] \in Nat
      BY <1>2 DEF TypeInv, LocalsOK
    <2>3. last[cur[v]] # NoClock /\ now[v] <= last[cur[v]]
      BY DEF WindowInv, ClaimsCovered
    <2> QED
      BY <1>4, <2>1, <2>2, <2>3
  <1>6. TextsCovered'
    BY <1>1, <1>4 DEF WindowInv, TextsCovered, TypeInv, HistoryOK
  <1>7. TextsApart' /\ OpenApart' /\ ClaimsApart'
    BY <1>1 DEF WindowInv, TextsApart, OpenApart, ClaimsApart
  <1>8. BudgetInv'
    BY <1>1, BudgetFrame DEF SameResult
  <1> QED
    BY <1>3, <1>5, <1>6, <1>7, <1>8 DEF WindowInv

LEMMA WebSafe ==
  ASSUME TypeInv, LockInv, WindowInv, BudgetInv, Web
  PROVE  LockInv' /\ WindowInv' /\ BudgetInv'
  <1>1. CASE UNCHANGED <<rowLock, locals, sent, last, texted, accepted>>
    <2>1. \A v \in Workers : SameClaim(v) /\ SameHolding(v) /\ SameResult(v)
      BY <1>1 DEF locals, SameClaim, SameHolding, SameResult
    <2> QED
      BY <1>1, <2>1, LockFrame, WindowFrame, BudgetFrame DEF RowKept
  <1>2. CASE \E h \in Hangouts : \E S \in SUBSET InvitesOf(h) : \E Bad \in SUBSET S :
               Setup(h, S, Bad)
    BY <1>2, SetupSafe
  <1> QED
    BY <1>1, <1>2 DEF Web, AddInvitee, DeleteInvite, Close, Reply, Stop, Start, history

LEMMA SafetyStep == IInv /\ [Next]_vars => IInv'
  <1> SUFFICES ASSUME TypeInv, LockInv, WindowInv, BudgetInv, [Next]_vars
               PROVE  LockInv' /\ WindowInv' /\ BudgetInv'
    BY TypeStep DEF IInv
  <1>1. CASE Tick \/ UNCHANGED vars \/ \E w \in Workers : LoseAdvisory(w)
    <2>1. UNCHANGED <<rowLock, locals, sent, last, texted, accepted>>
      BY <1>1 DEF Tick, LoseAdvisory, vars, db, history
    <2>2. \A v \in Workers : SameClaim(v) /\ SameHolding(v) /\ SameResult(v)
      BY <2>1 DEF locals, SameClaim, SameHolding, SameResult
    <2> QED
      BY <2>1, <2>2, LockFrame, WindowFrame, BudgetFrame DEF RowKept
  <1>2. ASSUME NEW w \in Workers, Crash(w) PROVE LockInv' /\ WindowInv' /\ BudgetInv'
    <2>1. Leave(w, "down") /\ UNCHANGED <<sent, last, texted, accepted>>
      BY <1>2 DEF Crash, db, history
    <2> QED
      BY <2>1, LeaveSafe
  <1>3. ASSUME NEW w \in Workers, Restart(w) PROVE LockInv' /\ WindowInv' /\ BudgetInv'
    <2>1. UNCHANGED <<rowLock, cur, now, seen, outcome, sent, last, texted, accepted>>
      BY <1>3 DEF Restart, db, history
    <2>2. \A v \in Workers : SameClaim(v) /\ SameHolding(v) /\ SameResult(v)
      BY <1>3, <2>1 DEF Restart, SameClaim, SameHolding, SameResult, Claiming, Holding, TypeInv,
                        LocalsOK
    <2> QED
      BY <2>1, <2>2, LockFrame, WindowFrame, BudgetFrame DEF RowKept
  <1> QED
    BY <1>1, <1>2, <1>3, SweepSafe, WebSafe DEF Next

\* The inductive invariant of the sweep.
THEOREM Invariance == Spec => []IInv
  <1>1. Init => IInv
    BY TypeInit, SafetyInit DEF IInv
  <1> QED
    BY <1>1, SafetyStep, PTL DEF Spec

-----------------------------------------------------------------------------
(* The theorems.                                                           *)

\* Times a delay apart are different times (MinDelay is positive).
LEMMA ApartDiffer == \A t \in Nat : ~Apart(t, t)
  BY SettingsAssumption DEF Apart

\* No interleaving of any number of workers, crashes and lost advisory locks
\* texts an invitee twice for one window of the schedule.
THEOREM OneText == Spec => []OneTextPerWindow
  <1>1. IInv => OneTextPerWindow
    <2> SUFFICES ASSUME IInv PROVE OneTextPerWindow
      OBVIOUS
    <2>1. \A i \in Invites : \A s, t \in texted[i] : s # t => Apart(s, t)
      BY DEF IInv, WindowInv, TextsApart
    <2>2. ASSUME NEW w \in Workers, pc[w] = "dispatch", now[w] \in texted[cur[w]] PROVE FALSE
      <3>1. now[w] \in Nat
        BY DEF IInv, TypeInv, LocalsOK, HistoryOK
      <3>2. Apart(now[w], now[w])
        BY <2>2 DEF IInv, WindowInv, OpenApart
      <3> QED
        BY <3>1, <3>2, ApartDiffer
    <2>3. \A v, w \in Workers :
            v # w /\ cur[v] = cur[w] /\ pc[v] \in {"dispatch", "result"}
            /\ pc[w] \in {"dispatch", "result"} => Apart(now[v], now[w])
      BY DEF IInv, WindowInv, ClaimsApart, Holding
    <2> QED
      BY <2>1, <2>2, <2>3 DEF OneTextPerWindow
  <1> QED
    BY <1>1, Invariance, PTL

\* A follow-up is counted only if the provider accepted it, under every crash
\* and every interleaving with setup passes.
THEOREM BudgetIsEarned == Spec => []BudgetEarned
  <1>1. IInv => BudgetEarned
    BY DEF IInv, BudgetInv
  <1> QED
    BY <1>1, Invariance, PTL

\* The step of NoResponseIsEarned.
GivesUpEarned ==
  \A i \in Invites :
    status'[i] = "no_response" /\ status[i] # "no_response"
    => /\ sent[i] >= Budget
       /\ last[i] # NoClock /\ clock >= last[i] + Grace

LEMMA OnlySweepGivesUp ==
  ASSUME TypeInv, [Next]_vars, NEW i \in Invites,
         status'[i] = "no_response", status[i] # "no_response"
  PROVE  \E w \in Workers : MarkNoResponse(w) /\ cur[w] = i
  <1> USE DEF TypeInv, TablesOK, LocalsOK
  <1>1. status' # status
    OBVIOUS
  <1>2. ~Web
    <2>1. ASSUME NEW h \in Hangouts, NEW S \in SUBSET InvitesOf(h), NEW Bad \in SUBSET S,
                 Setup(h, S, Bad)
          PROVE  FALSE
      BY <2>1 DEF Setup
    <2>2. ASSUME NEW p \in Phones,
                 Reply(p, "confirmed") \/ Reply(p, "declined") \/ Stop(p) \/ Start(p)
          PROVE  FALSE
      BY <2>2 DEF Reply, Stop, Start
    <2>3. ASSUME NEW j \in Invites, AddInvitee(j) \/ DeleteInvite(j) PROVE FALSE
      BY <2>3 DEF AddInvitee, DeleteInvite
    <2>4. ASSUME NEW h \in Hangouts, Close(h) PROVE FALSE
      BY <2>4 DEF Close
    <2> QED
      BY <2>1, <2>2, <2>3, <2>4 DEF Web
  <1>3. PICK w \in Workers : Sweep(w)
    BY <1>1, <1>2 DEF Next, Tick, Crash, Restart, LoseAdvisory, vars, db
  <1>4. ~StoreResult(w)
    BY DEF StoreResult
  <1>5. MarkNoResponse(w)
    BY <1>1, <1>3, <1>4
    DEF Sweep, BeginTick, Scan, Claim, ClaimMisses, CandidateGone, ReRead, KeepWaiting,
        AdvanceClock, Dispatch, RowGone, SendRaised, EndTick, db
  <1>6. cur[w] = i
    BY <1>5 DEF MarkNoResponse
  <1> QED
    BY <1>5, <1>6

\* Whatever ran between its read and its write, the sweep gives up only on an
\* invitee whose stored budget is spent and whose grace period has passed.
THEOREM NoResponseEarned == Spec => NoResponseIsEarned
  <1>1. IInv /\ [Next]_vars => GivesUpEarned
    <2> SUFFICES ASSUME IInv, [Next]_vars, NEW i \in Invites,
                        status'[i] = "no_response", status[i] # "no_response"
                 PROVE  sent[i] >= Budget /\ last[i] # NoClock /\ clock >= last[i] + Grace
      BY DEF GivesUpEarned
    <2>1. PICK w \in Workers : MarkNoResponse(w) /\ cur[w] = i
      BY OnlySweepGivesUp DEF IInv
    <2>2. seen[w].last = last[i] /\ seen[w].sent = sent[i]
      BY <2>1 DEF MarkNoResponse, IInv, LockInv, ReadFresh
    <2>3. last[i] # NoClock /\ now[w] >= last[i] + Window(sent[i]) /\ sent[i] >= Budget
      BY <2>1, <2>2 DEF MarkNoResponse, DueBySeen
    <2>4. sent[i] \in Nat /\ now[w] \in Nat /\ clock \in Nat /\ now[w] <= clock
          /\ last[i] \in 0..clock \cup {NoClock}
      BY DEF IInv, TypeInv, TablesOK, LocalsOK, HistoryOK
    <2>5. Window(sent[i]) = Grace /\ Window(sent[i]) \in Nat
      BY <2>3, <2>4, GraceWindow, WindowAtLeast
    <2> QED
      BY <2>3, <2>4, <2>5
  <1>2. IInv /\ [Next]_vars => [GivesUpEarned]_vars
    BY <1>1
  <1> QED
    BY <1>2, Invariance, PTL DEF Spec, NoResponseIsEarned, GivesUpEarned

-----------------------------------------------------------------------------
(* Refinement.  The sweep, its crashes and the web handlers implement      *)
(* ReminderWindows: a committed claim opens a window, the text uses it, and *)
(* whatever stops the worker between the two forfeits it.                  *)

\* The windows that are open: claimed by a worker that has not sent yet.
WindowOf(w) == <<cur[w], now[w]>>
Open == {WindowOf(w) : w \in {v \in Workers : pc[v] = "dispatch"}}

\* The worker's place among the open windows is what it was.
SameOpen(v) ==
  /\ pc'[v] = "dispatch" <=> pc[v] = "dispatch"
  /\ pc[v] = "dispatch" => cur'[v] = cur[v] /\ now'[v] = now[v]

LEMMA OpenKept ==
  ASSUME \A v \in Workers : SameOpen(v)
  PROVE  Open' = Open
  BY DEF Open, WindowOf, SameOpen

LEMMA OpenOne ==
  ASSUME NEW w \in Workers, pc[w] # "dispatch", pc'[w] = "dispatch",
         UNCHANGED <<cur, now>>, \A v \in Workers \ {w} : SameOpen(v)
  PROVE  Open' = Open \cup {WindowOf(w)}
  BY DEF Open, WindowOf, SameOpen

\* No two workers hold one window, so closing w's leaves the others open.
LEMMA CloseOne ==
  ASSUME TypeInv, WindowInv, NEW w \in Workers, pc[w] = "dispatch", pc'[w] # "dispatch",
         \A v \in Workers \ {w} : SameOpen(v)
  PROVE  Open' = Open \ {WindowOf(w)}
  <1>1. ASSUME NEW v \in Workers, v # w, pc[v] = "dispatch" PROVE WindowOf(v) # WindowOf(w)
    <2> SUFFICES ASSUME cur[v] = cur[w], now[v] = now[w] PROVE FALSE
      BY DEF WindowOf
    <2>1. Apart(now[v], now[w])
      BY <1>1 DEF WindowInv, ClaimsApart, Holding
    <2>2. now[w] \in Nat
      BY DEF TypeInv, LocalsOK, HistoryOK
    <2> QED
      BY <2>1, <2>2, ApartDiffer
  <1>2. \A v \in Workers \ {w} : pc'[v] = "dispatch" => WindowOf(v)' = WindowOf(v)
    BY DEF WindowOf, SameOpen
  <1>3. Open' \subseteq Open \ {WindowOf(w)}
    <2> SUFFICES ASSUME NEW v \in Workers, pc'[v] = "dispatch"
                 PROVE  WindowOf(v)' \in Open \ {WindowOf(w)}
      BY DEF Open
    <2>1. v # w /\ pc[v] = "dispatch" /\ WindowOf(v)' = WindowOf(v)
      BY <1>2 DEF SameOpen
    <2> QED
      BY <2>1, <1>1 DEF Open
  <1>4. Open \ {WindowOf(w)} \subseteq Open'
    <2> SUFFICES ASSUME NEW v \in Workers, pc[v] = "dispatch", WindowOf(v) # WindowOf(w)
                 PROVE  WindowOf(v) \in Open'
      BY DEF Open
    <2>1. v # w
      OBVIOUS
    <2>2. pc'[v] = "dispatch" /\ WindowOf(v)' = WindowOf(v)
      BY <2>1, <1>2 DEF SameOpen
    <2> QED
      BY <2>2 DEF Open
  <1> QED
    BY <1>3, <1>4

\* A candidate being decided or sent names a window of the abstraction.
LEMMA Candidate ==
  ASSUME TypeInv, NEW w \in Workers, pc[w] \in {"decide", "dispatch"}
  PROVE  \E i \in Invites, t \in 0..MaxClock : i = cur[w] /\ t = now[w]
  <1>1. cur[w] \in Invites
    BY DEF TypeInv, LocalsOK, HasCandidate
  <1>2. now[w] \in 0..clock /\ clock \in 0..MaxClock
    BY DEF TypeInv, LocalsOK, HistoryOK
  <1>3. now[w] \in 0..MaxClock
    BY <1>2, BoundsAssumption
  <1> QED
    BY <1>1, <1>3

LEMMA WindowsInit == Init => Windows!Init
  BY DEF Init, Windows!Init

\* Leaving a candidate: a stutter, or a forfeit of the worker's window.
LEMMA LeaveRefines ==
  ASSUME IInv, NEW w \in Workers, UNCHANGED <<last, texted>>,
         pc'[w] # "dispatch", \A v \in Workers \ {w} : SameOpen(v)
  PROVE  [Windows!Next]_Windows!wvars
  <1>1. CASE pc[w] # "dispatch"
    <2>1. Open' = Open
      BY <1>1, OpenKept DEF SameOpen
    <2> QED
      BY <2>1 DEF Windows!wvars, Open, WindowOf
  <1>2. CASE pc[w] = "dispatch"
    <2>1. Open' = Open \ {WindowOf(w)} /\ WindowOf(w) \in Open
      BY <1>2, CloseOne DEF IInv, Open
    <2>2. PICK i \in Invites, t \in 0..MaxClock : i = cur[w] /\ t = now[w]
      BY <1>2, Candidate DEF IInv
    <2>3. Windows!Forfeit(i, t)
      BY <2>1, <2>2 DEF Windows!Forfeit, Open, WindowOf
    <2> QED
      BY <2>2, <2>3 DEF Windows!Next
  <1> QED
    BY <1>1, <1>2

LEMMA AdvanceRefines ==
  ASSUME IInv, NEW w \in Workers, AdvanceClock(w)
  PROVE  Windows!Next
  <1>1. PICK i \in Invites, t \in 0..MaxClock : i = cur[w] /\ t = now[w]
    BY Candidate DEF AdvanceClock, IInv
  <1>2. last[cur[w]] # NoClock /\ last[cur[w]] + MinDelay <= now[w]
    BY AdvanceSafe DEF IInv
  <1>3. Open' = Open \cup {WindowOf(w)}
    <2>1. pc[w] # "dispatch" /\ UNCHANGED <<cur, now>> /\ pc' = [pc EXCEPT ![w] = "dispatch"]
      BY DEF AdvanceClock
    <2>2. pc'[w] = "dispatch" /\ \A v \in Workers \ {w} : SameOpen(v)
      BY <2>1 DEF SameOpen, IInv, TypeInv, LocalsOK
    <2> QED
      BY <2>1, <2>2, OpenOne
  <1>4. last' = [last EXCEPT ![cur[w]] = now[w]] /\ UNCHANGED texted
    BY DEF AdvanceClock, Claimed, history
  <1>5. Windows!OpenWindow(i, t)
    BY <1>1, <1>2, <1>3, <1>4 DEF Windows!OpenWindow, Open, WindowOf
  <1> QED
    BY <1>1, <1>5 DEF Windows!Next

LEMMA DispatchRefines ==
  ASSUME IInv, NEW w \in Workers, Dispatch(w)
  PROVE  [Windows!Next]_Windows!wvars
  <1>1. /\ pc[w] = "dispatch" /\ pc'[w] # "dispatch" /\ UNCHANGED last
        /\ \A v \in Workers \ {w} : SameOpen(v)
    BY DEF Dispatch, db, SameOpen, IInv, TypeInv, LocalsOK
  <1>2. CASE UNCHANGED texted
    BY <1>1, <1>2, LeaveRefines
  <1>3. CASE texted' = [texted EXCEPT ![cur[w]] = @ \cup {now[w]}]
    <2>1. Open' = Open \ {WindowOf(w)} /\ WindowOf(w) \in Open
      BY <1>1, CloseOne DEF IInv, Open
    <2>2. PICK i \in Invites, t \in 0..MaxClock : i = cur[w] /\ t = now[w]
      BY <1>1, Candidate DEF IInv
    <2>3. Windows!UseWindow(i, t)
      BY <1>1, <1>3, <2>1, <2>2 DEF Windows!UseWindow, Open, WindowOf
    <2> QED
      BY <2>2, <2>3 DEF Windows!Next
  <1> QED
    BY <1>2, <1>3 DEF Dispatch, history

LEMMA SetupRefines ==
  ASSUME IInv, NEW h \in Hangouts, NEW S \in SUBSET InvitesOf(h), NEW Bad \in SUBSET S,
         Setup(h, S, Bad)
  PROVE  Windows!Next
  <1> DEFINE texts == {i \in S : SetupTexts(i)}
  <1>1. texts \in SUBSET Invites /\ clock \in 0..MaxClock
    BY DEF InvitesOf, IInv, TypeInv, HistoryOK
  <1>2. last' = [i \in Invites |-> IF i \in texts THEN clock ELSE last[i]]
        /\ UNCHANGED <<texted, pc, cur, now>>
    BY DEF Setup, locals
  <1>3. \A i \in texts : last[i] = NoClock \/ last[i] <= clock
    BY <1>1 DEF IInv, TypeInv, TablesOK
  <1>4. Open' = Open
    BY <1>2, OpenKept DEF SameOpen
  <1>5. Windows!Invite(texts, clock)
    BY <1>2, <1>3, <1>4 DEF Windows!Invite, Open, WindowOf
  <1> QED
    BY <1>1, <1>5 DEF Windows!Next

\* A step that leaves the clocks, the texts and every open window alone.
LEMMA Stutters ==
  ASSUME UNCHANGED <<last, texted>>, \A v \in Workers : SameOpen(v)
  PROVE  UNCHANGED Windows!wvars
  BY OpenKept DEF Windows!wvars, Open, WindowOf

LEMMA WindowsStep == IInv /\ [Next]_vars => [Windows!Next]_Windows!wvars
  <1> SUFFICES ASSUME IInv, [Next]_vars PROVE [Windows!Next]_Windows!wvars
    OBVIOUS
  <1>1. CASE UNCHANGED <<pc, cur, now, last, texted>>
    BY <1>1, Stutters DEF SameOpen
  <1>2. ASSUME NEW w \in Workers,
               Crash(w) \/ CandidateGone(w) \/ RowGone(w) \/ SendRaised(w) \/ EndTick(w)
        PROVE  [Windows!Next]_Windows!wvars
    <2>1. UNCHANGED <<last, texted>> /\ (Leave(w, "idle") \/ Leave(w, "down"))
      BY <1>2 DEF Crash, CandidateGone, RowGone, SendRaised, EndTick, db, history
    <2>2. pc'[w] # "dispatch" /\ \A v \in Workers \ {w} : SameOpen(v)
      BY <2>1 DEF Leave, SameOpen, IInv, TypeInv, LocalsOK
    <2> QED
      BY <2>1, <2>2, LeaveRefines
  <1>3. ASSUME NEW w \in Workers, KeepWaiting(w) \/ MarkNoResponse(w) \/ StoreResult(w)
        PROVE  [Windows!Next]_Windows!wvars
    <2>1. UNCHANGED <<last, texted>> /\ Continue(w)
      BY <1>3 DEF KeepWaiting, MarkNoResponse, StoreResult, db, history
    <2>2. pc'[w] # "dispatch" /\ \A v \in Workers \ {w} : SameOpen(v)
      BY <2>1 DEF Continue, SameOpen, IInv, TypeInv, LocalsOK
    <2> QED
      BY <2>1, <2>2, LeaveRefines
  <1>4. ASSUME NEW w \in Workers,
               BeginTick(w) \/ Scan(w) \/ Claim(w) \/ ClaimMisses(w) \/ ReRead(w) \/ Restart(w)
        PROVE  [Windows!Next]_Windows!wvars
    <2>1. UNCHANGED <<last, texted>>
      BY <1>4 DEF BeginTick, Scan, Claim, ClaimMisses, ReRead, Restart, db, history
    <2>2. \A v \in Workers : SameOpen(v)
      BY <1>4 DEF BeginTick, Scan, Claim, ClaimMisses, ReRead, Restart, SameOpen, IInv, TypeInv,
                  LocalsOK
    <2> QED
      BY <2>1, <2>2, Stutters
  <1>5. CASE Tick \/ UNCHANGED vars \/ \E w \in Workers : LoseAdvisory(w)
    BY <1>1, <1>5 DEF Tick, LoseAdvisory, vars, db, locals, history
  <1>6. CASE Web
    <2>1. CASE \E h \in Hangouts : \E S \in SUBSET InvitesOf(h) : \E Bad \in SUBSET S :
                 Setup(h, S, Bad)
      BY <2>1, SetupRefines
    <2> QED
      BY <1>1, <1>6, <2>1 DEF Web, AddInvitee, DeleteInvite, Close, Reply, Stop, Start, locals, history
  <1> QED
    BY <1>2, <1>3, <1>4, <1>5, <1>6, AdvanceRefines, DispatchRefines DEF Next, Sweep

\* The whole system - workers, web handlers, crashes - implements the promise
\* of ReminderWindows: a window of the schedule is used at most once.
THEOREM Refinement == Spec => WindowsSpec
  <1>1. Spec => Windows!Init
    BY WindowsInit DEF Spec
  <1> QED
    BY <1>1, WindowsStep, Invariance, PTL DEF Spec, WindowsSpec, Windows!Spec

-----------------------------------------------------------------------------
(* The budget, kept.  Every invitation and every lost lock pays a budget, and *)
(* every crash one text; an account of what an invitee got and may still get *)
(* never exceeds what was paid.                                              *)

\* The follow-ups still due after n.
Due(n) == IF n < Budget THEN Budget - n ELSE 0

\* The candidate of the tick that holds the advisory lock.
Held(i)    == advisory \in Workers /\ cur[advisory] = i
Unstored(w) == pc[w] = "result" /\ outcome[w] = "ok"

\* What the invitee may still be sent by the ticks that hold the lock: the
\* holder sends a claimed text although the count has grown since, and may be
\* about to store a count below the one in the row.
Left(i) ==
  IF life[i] = "gone" \/ last[i] = NoClock THEN 0
  ELSE IF Held(i) /\ pc[advisory] = "dispatch" THEN IF sent[i] < Budget THEN Due(sent[i]) ELSE 1
  ELSE IF Held(i) /\ Unstored(advisory)
       THEN Due(IF sent[i] + 1 < seen[advisory].sent THEN sent[i] + 1 ELSE seen[advisory].sent)
  ELSE Due(sent[i])

\* The ticks that go on without the lock: those that may text the invitee yet,
\* and those that have texted and not stored the count.
Ahead(i)  == {w \in Workers : /\ advisory # w
                              /\ \/ pc[w] = "scan" \/ i \in todo[w]
                                 \/ cur[w] = i /\ pc[w] \in {"reread", "decide", "dispatch"}}
Behind(i) == {w \in Workers : advisory # w /\ Unstored(w) /\ cur[w] = i}

Weight(A, B) == Budget * Cardinality(A) + Due(1) * Cardinality(B)

Account(i) ==
  /\ IsFiniteSet(Ahead(i)) /\ IsFiniteSet(Behind(i))
  /\ accepted[i] + Left(i) + Weight(Ahead(i), Behind(i))
       <= Budget * (invited[i] + lost) + (faults - lost)

\* What a worker holds while it texts.
Attempts ==
  \A w \in Workers :
    /\ pc[w] \in Claiming \cup Holding => cur[w] \notin todo[w]
    /\ pc[w] \in Holding => Budget >= 1
    /\ pc[w] = "result" => seen[w].sent >= 1

Accounts == Attempts /\ \A i \in Invites : Account(i)

\* Arithmetic of the account.
LEMMA DueIsNat == \A n \in Nat : Due(n) \in 0..Budget /\ Due(n + 1) <= Due(n) /\ Due(n) <= Due(n + 1) + 1
  BY BudgetIsNat DEF Due

LEMMA DueFalls == \A m, n \in Nat : m <= n => Due(n) <= Due(m)
  BY BudgetIsNat DEF Due

LEMMA TimesMonotone == ASSUME NEW b \in Nat, NEW m \in Nat, NEW n \in Nat, m <= n
                       PROVE  b * m \in Nat /\ b * m <= b * n /\ b * (m + 1) = b * m + b
  <1>1. PICK d \in Nat : n = m + d
    <2>1. n - m \in Nat /\ n = m + (n - m)
      OBVIOUS
    <2> QED
      BY <2>1
  <1>2. b * n = b * m + b * d /\ b * d \in Nat /\ b * m \in Nat
    BY <1>1
  <1>3. b * (m + 1) = b * m + b
    OBVIOUS
  <1> QED
    BY <1>2, <1>3

LEMMA WeightFalls ==
  ASSUME NEW A, NEW B, IsFiniteSet(A), IsFiniteSet(B), NEW C \in SUBSET A, NEW D \in SUBSET B
  PROVE  /\ IsFiniteSet(C) /\ IsFiniteSet(D)
         /\ Weight(C, D) \in Nat /\ Weight(A, B) \in Nat /\ Weight(C, D) <= Weight(A, B)
  <1>1. /\ IsFiniteSet(C) /\ IsFiniteSet(D)
        /\ Cardinality(C) \in Nat /\ Cardinality(A) \in Nat /\ Cardinality(C) <= Cardinality(A)
        /\ Cardinality(D) \in Nat /\ Cardinality(B) \in Nat /\ Cardinality(D) <= Cardinality(B)
    BY FS_Subset, FS_CardinalityType
  <1>2. Budget \in Nat /\ Due(1) \in Nat
    BY BudgetIsNat DEF Due
  <1>3. /\ Budget * Cardinality(C) \in Nat /\ Budget * Cardinality(A) \in Nat
        /\ Budget * Cardinality(C) <= Budget * Cardinality(A)
    BY <1>1, <1>2, TimesMonotone
  <1>4. /\ Due(1) * Cardinality(D) \in Nat /\ Due(1) * Cardinality(B) \in Nat
        /\ Due(1) * Cardinality(D) <= Due(1) * Cardinality(B)
    BY <1>1, <1>2, TimesMonotone
  <1> QED
    BY <1>1, <1>3, <1>4 DEF Weight

\* One worker more among those ahead weighs a budget, among those behind a text less.
LEMMA WeightOfOne ==
  ASSUME NEW A, NEW B, IsFiniteSet(A), IsFiniteSet(B), NEW w
  PROVE  /\ IsFiniteSet(A \cup {w}) /\ IsFiniteSet(B \cup {w})
         /\ w \notin A => Weight(A \cup {w}, B) = Weight(A, B) + Budget
         /\ w \notin B => Weight(A, B \cup {w}) = Weight(A, B) + Due(1)
  <1>1. /\ IsFiniteSet(A \cup {w}) /\ IsFiniteSet(B \cup {w})
        /\ w \notin A => Cardinality(A \cup {w}) = Cardinality(A) + 1
        /\ w \notin B => Cardinality(B \cup {w}) = Cardinality(B) + 1
        /\ Cardinality(A) \in Nat /\ Cardinality(B) \in Nat
    BY FS_AddElement, FS_CardinalityType
  <1>2. Budget \in Nat /\ Due(1) \in Nat
    BY BudgetIsNat DEF Due
  <1>3. /\ Budget * (Cardinality(A) + 1) = Budget * Cardinality(A) + Budget
        /\ Budget * Cardinality(A) \in Nat
    BY <1>1, <1>2, TimesMonotone
  <1>4. /\ Due(1) * (Cardinality(B) + 1) = Due(1) * Cardinality(B) + Due(1)
        /\ Due(1) * Cardinality(B) \in Nat
    BY <1>1, <1>2, TimesMonotone
  <1> QED
    BY <1>1, <1>2, <1>3, <1>4 DEF Weight

\* The worker's locals are what they were.
SameLocals(v) ==
  pc'[v] = pc[v] /\ cur'[v] = cur[v] /\ seen'[v] = seen[v] /\ outcome'[v] = outcome[v] /\ todo'[v] = todo[v]

\* A step of w that leaves the others' locals, and their hold on the lock, alone.
Only(w) ==
  /\ \A v \in Workers \ {w} : SameLocals(v)
  /\ advisory' = advisory \/ (advisory \in {w, Nobody} /\ advisory' \in {w, Nobody})

LEMMA LocalTypes ==
  ASSUME TypeInv
  PROVE  /\ pc \in [Workers -> Places] /\ todo \in [Workers -> SUBSET Invites]
         /\ cur \in [Workers -> Invites \cup {NoClock}]
         /\ seen \in [Workers -> [sent : Nat, last : Clocks]] /\ outcome \in [Workers -> Outcomes]
  BY DEF TypeInv, LocalsOK

LEMMA LeaveOnly ==
  ASSUME TypeInv, NEW w \in Workers, NEW place, Leave(w, place)
  PROVE  Only(w) /\ pc'[w] = place /\ todo'[w] = {}
  <1>1. pc'[w] = place /\ todo'[w] = {} /\ \A v \in Workers \ {w} : SameLocals(v)
    BY LocalTypes DEF Leave, SameLocals
  <1>2. advisory' = advisory \/ (advisory = w /\ advisory' = Nobody)
    BY DEF Leave, Unlocked
  <1> QED
    BY <1>1, <1>2 DEF Only

LEMMA ContinueOnly ==
  ASSUME TypeInv, NEW w \in Workers, Continue(w)
  PROVE  Only(w) /\ pc'[w] = "next" /\ UNCHANGED <<advisory, todo>>
  BY LocalTypes DEF Continue, SameLocals, Only

\* Every step of a worker is its own.
LEMMA SweepOnly ==
  ASSUME TypeInv, NEW w \in Workers, Sweep(w) \/ Crash(w) \/ Restart(w) \/ LoseAdvisory(w)
  PROVE  Only(w)
  <1> USE LocalTypes DEF Only, SameLocals
  <1>1. CASE BeginTick(w)
    BY <1>1 DEF BeginTick
  <1>2. CASE Scan(w) \/ ClaimMisses(w) \/ ReRead(w) \/ AdvanceClock(w) \/ Restart(w)
    BY <1>2 DEF Scan, ClaimMisses, ReRead, AdvanceClock, Restart
  <1>3. CASE Claim(w)
    BY <1>3 DEF Claim
  <1>4. CASE Dispatch(w)
    BY <1>4 DEF Dispatch
  <1>5. CASE CandidateGone(w) \/ RowGone(w) \/ SendRaised(w) \/ EndTick(w) \/ Crash(w)
    <2>1. Leave(w, "idle") \/ Leave(w, "down")
      BY <1>5 DEF CandidateGone, RowGone, SendRaised, EndTick, Crash
    <2> QED
      BY <2>1, LeaveOnly
  <1>6. CASE KeepWaiting(w) \/ MarkNoResponse(w) \/ StoreResult(w)
    BY <1>6, ContinueOnly DEF KeepWaiting, MarkNoResponse, StoreResult
  <1>7. CASE LoseAdvisory(w)
    BY <1>7 DEF LoseAdvisory, locals
  <1> QED
    BY <1>1, <1>2, <1>3, <1>4, <1>5, <1>6, <1>7 DEF Sweep

\* Attempts is kept: a claim leaves the list, is made within the budget, and
\* its attempt has a number above the count.
LEMMA AttemptsStep ==
  ASSUME TypeInv, Attempts, [Next]_vars PROVE Attempts'
  <1> DEFINE OK(v) == /\ pc[v] \in Claiming \cup Holding => cur[v] \notin todo[v]
                      /\ pc[v] \in Holding => Budget >= 1
                      /\ pc[v] = "result" => seen[v].sent >= 1
  <1>0. \A v \in Workers : OK(v)
    BY DEF Attempts
  <1>1. CASE UNCHANGED locals
    BY <1>1 DEF locals, Attempts
  <1>2. ASSUME NEW w \in Workers, Sweep(w) \/ Crash(w) \/ Restart(w) PROVE Attempts'
    <2>1. \A v \in Workers \ {w} : OK(v)'
      BY <1>0, <1>2, SweepOnly DEF Only, SameLocals
    <2>2. OK(w)'
      <3>1. CASE pc'[w] \notin Claiming \cup Holding
        BY <3>1 DEF Claiming, Holding
      <3>2. CASE Claim(w)
        BY <3>2, LocalTypes DEF Claim, Claiming, Holding
      <3>3. CASE ReRead(w)
        BY <1>0, <3>3, LocalTypes DEF ReRead, Claiming, Holding
      <3>4. CASE AdvanceClock(w)
        <4>1. seen[w].sent \in Nat /\ seen[w].sent < Budget
          BY <3>4, LocalTypes DEF AdvanceClock
        <4> QED
          BY <1>0, <3>4, <4>1, LocalTypes, BudgetIsNat DEF AdvanceClock, Claiming, Holding
      <3>5. CASE Dispatch(w)
        <4>1. cur[w] \in Invites
          BY <3>5 DEF Dispatch, TypeInv, LocalsOK, HasCandidate
        <4>2. sent[cur[w]] \in Nat
          BY <4>1 DEF TypeInv, TablesOK
        <4>3. seen'[w].sent = sent[cur[w]] + 1 /\ pc'[w] = "result" /\ pc[w] = "dispatch"
              /\ UNCHANGED <<cur, todo>>
          BY <3>5, LocalTypes DEF Dispatch
        <4> QED
          BY <1>0, <4>2, <4>3 DEF Claiming, Holding
      <3>6. ASSUME pc'[w] \in Claiming \cup Holding PROVE Claim(w) \/ ReRead(w) \/ AdvanceClock(w) \/ Dispatch(w)
        <4>1. ~Restart(w)
          BY <3>6, LocalTypes DEF Restart, Claiming, Holding
        <4>2. ~(\E p \in {"idle", "down"} : Leave(w, p)) /\ ~Continue(w)
          BY <3>6, LocalTypes DEF Leave, Continue, Claiming, Holding
        <4>3. ~BeginTick(w) /\ ~Scan(w) /\ ~ClaimMisses(w)
          BY <3>6, LocalTypes DEF BeginTick, Scan, ClaimMisses, Claiming, Holding
        <4> QED
          BY <1>2, <4>1, <4>2, <4>3 DEF Sweep, Crash, CandidateGone, RowGone, SendRaised, EndTick,
             KeepWaiting, MarkNoResponse, StoreResult
      <3> QED
        BY <3>1, <3>2, <3>3, <3>4, <3>5, <3>6
    <2> QED
      BY <2>1, <2>2 DEF Attempts
  <1>3. CASE Tick \/ UNCHANGED vars \/ Web \/ \E w \in Workers : LoseAdvisory(w)
    BY ZenonT(60), <1>1, <1>3 DEF Tick, vars, LoseAdvisory, Web, AddInvitee, DeleteInvite, Close, Setup, Reply, Stop, Start
  <1> QED
    BY <1>2, <1>3 DEF Next

\* What the invitee may be sent by a tick that is not in the middle of a text.
Plain(i) == IF life[i] = "gone" \/ last[i] = NoClock THEN 0 ELSE Due(sent[i])

Texting(i) == Held(i) /\ (pc[advisory] = "dispatch" \/ Unstored(advisory))

LeftBounded ==
  \A i \in Invites :
    /\ Left(i) \in 0..Budget /\ Plain(i) \in 0..Budget /\ Plain(i) <= Left(i) + 1
    /\ ~Texting(i) => Left(i) = Plain(i)
    /\ Texting(i) => Budget >= 1

LEMMA LeftBounds == TypeInv /\ Attempts => LeftBounded
  <1> SUFFICES ASSUME TypeInv, Attempts, NEW i \in Invites
               PROVE  /\ Left(i) \in 0..Budget /\ Plain(i) \in 0..Budget /\ Plain(i) <= Left(i) + 1
                      /\ ~Texting(i) => Left(i) = Plain(i)
                      /\ Texting(i) => Budget >= 1
    BY DEF LeftBounded
  <1>0. sent[i] \in Nat /\ sent[i] + 1 \in Nat /\ Budget \in Nat
    BY BudgetIsNat DEF TypeInv, TablesOK
  <1>1. sent[i] \in Nat /\ Budget \in Nat /\ Due(sent[i]) \in 0..Budget
        /\ Due(sent[i]) <= Due(sent[i] + 1) + 1 /\ Due(sent[i] + 1) \in 0..Budget
    BY <1>0, DueIsNat
  <1>2. Plain(i) \in 0..Budget
    BY <1>1 DEF Plain
  <1>3. ~Texting(i) => Left(i) = Plain(i)
    BY DEF Texting, Left, Plain
  <1>4. ASSUME Texting(i) PROVE Budget >= 1 /\ seen[advisory].sent \in Nat
    BY <1>4, LocalTypes DEF Texting, Held, Attempts, Holding, Unstored
  <1>5. ASSUME Texting(i) PROVE Left(i) \in 0..Budget /\ Plain(i) <= Left(i) + 1
    <2>1. CASE life[i] = "gone" \/ last[i] = NoClock
      BY <1>1, <2>1 DEF Left, Plain
    <2>2. CASE ~(life[i] = "gone" \/ last[i] = NoClock) /\ pc[advisory] = "dispatch"
      BY <1>1, <1>4, <1>5, <2>2 DEF Left, Plain, Texting, Due
    <2>3. CASE ~(life[i] = "gone" \/ last[i] = NoClock) /\ pc[advisory] # "dispatch"
      <3> DEFINE s == seen[advisory].sent
      <3>1. Left(i) = Due(IF sent[i] + 1 < s THEN sent[i] + 1 ELSE s) /\ s \in Nat
        BY <1>4, <1>5, <2>3 DEF Left, Texting
      <3> HIDE DEF s
      <3>2. Due(s) \in 0..Budget
        BY <3>1, DueIsNat
      <3>3. CASE sent[i] + 1 < s
        BY <1>1, <2>3, <3>1, <3>3 DEF Plain
      <3>4. CASE ~(sent[i] + 1 < s)
        <4>1. Due(sent[i] + 1) <= Due(s)
          BY <1>1, <3>1, <3>4, DueFalls
        <4> QED
          BY <1>1, <2>3, <3>1, <3>2, <3>4, <4>1 DEF Plain
      <3> QED
        BY <3>3, <3>4
    <2> QED
      BY <2>1, <2>2, <2>3
  <1> QED
    BY <1>1, <1>2, <1>3, <1>4, <1>5

LEMMA LeftBoundsNext == (TypeInv /\ Attempts)' => LeftBounded'
  BY LeftBounds, PTL

\* The books of an invitee when nothing of it grows.
LEMMA AccountFrame ==
  ASSUME TypeInv, TypeInv', Attempts, Attempts', NEW i \in Invites, Account(i),
         Ahead(i)' \subseteq Ahead(i), Behind(i)' \subseteq Behind(i), Left(i)' <= Left(i),
         accepted'[i] = accepted[i], invited'[i] = invited[i], UNCHANGED <<lost, faults>>
  PROVE  Account(i)'
  <1>1. /\ IsFiniteSet(Ahead(i)') /\ IsFiniteSet(Behind(i)')
        /\ Weight(Ahead(i), Behind(i))' <= Weight(Ahead(i), Behind(i))
        /\ Weight(Ahead(i), Behind(i))' \in Nat /\ Weight(Ahead(i), Behind(i)) \in Nat
    BY WeightFalls DEF Account, Weight, Due
  <1>2. Left(i) \in Nat /\ Left(i)' \in Nat /\ accepted[i] \in Nat
    BY LeftBounds, LeftBoundsNext, BudgetIsNat DEF LeftBounded, TypeInv, HistoryOK
  <1>3. Budget * (invited[i] + lost) + (faults - lost) \in Int
    BY BudgetIsNat DEF TypeInv, HistoryOK
  <1> QED
    BY <1>1, <1>2, <1>3 DEF Account

\* The account of an invitee whose columns, and whose workers, are left alone.
LEMMA LeftSame ==
  ASSUME NEW i \in Invites, NEW w \in Workers, Only(w), advisory # w, advisory' = advisory,
         sent'[i] = sent[i], last'[i] = last[i], life'[i] = life[i]
  PROVE  Left(i)' = Left(i)
  BY DEF Only, SameLocals, Left, Held, Unstored

\* The other workers stay ahead or behind.
LEMMA OthersStay ==
  ASSUME NEW i \in Invites, NEW w \in Workers, Only(w)
  PROVE  /\ Ahead(i)' \ {w} = Ahead(i) \ {w}
         /\ Behind(i)' \ {w} = Behind(i) \ {w}
  <1>1. \A v \in Workers \ {w} : (advisory' # v) = (advisory # v)
    BY NamesAssumption DEF Only
  <1> QED
    BY <1>1 DEF Only, SameLocals, Ahead, Behind, Unstored

\* A worker that is not in the middle of a text.
Quiet(w) == pc[w] # "dispatch" /\ ~Unstored(w)

LEMMA QuietLeft ==
  ASSUME TypeInv, TypeInv', Attempts, Attempts', NEW i \in Invites, NEW w \in Workers, Only(w),
         Quiet(w), Quiet(w)', sent'[i] = sent[i], last'[i] = last[i], life'[i] = life[i]
  PROVE  Left(i)' = Left(i)
  <1>1. CASE advisory # w /\ advisory' = advisory
    BY <1>1, LeftSame
  <1>2. CASE advisory \in {w, Nobody} /\ advisory' \in {w, Nobody}
    <2>1. ~Texting(i) /\ ~Texting(i)'
      BY <1>2, NamesAssumption DEF Texting, Held, Quiet, Unstored
    <2>2. Left(i) = Plain(i) /\ Left(i)' = Plain(i)'
      BY <2>1, LeftBounds, LeftBoundsNext DEF LeftBounded
    <2> QED
      BY <2>2 DEF Plain
  <1> QED
    BY <1>1, <1>2 DEF Only

LEMMA QuietKeeps ==
  ASSUME TypeInv, TypeInv', Attempts, Attempts', NEW i \in Invites, Account(i),
         NEW w \in Workers, Only(w), Quiet(w), Quiet(w)', w \in Ahead(i)' => w \in Ahead(i),
         sent'[i] = sent[i], last'[i] = last[i], life'[i] = life[i],
         UNCHANGED <<accepted, invited, lost, faults>>
  PROVE  Account(i)'
  <1>1. Ahead(i)' \subseteq Ahead(i)
    BY OthersStay
  <1>2. Behind(i)' \subseteq Behind(i)
    <2>1. w \notin Behind(i)'
      BY DEF Behind, Quiet
    <2> QED
      BY <2>1, OthersStay
  <1>3. Left(i)' <= Left(i)
    <2>1. Left(i)' = Left(i) /\ Left(i) \in 0..Budget
      BY QuietLeft, LeftBounds DEF LeftBounded
    <2> QED
      BY <2>1, BudgetIsNat
  <1> QED
    BY <1>1, <1>2, <1>3, AccountFrame

\* The steps of a tick between two texts.
LEMMA AccountBetween ==
  ASSUME TypeInv, TypeInv', Attempts, Attempts', NEW i \in Invites, Account(i), NEW w \in Workers,
         Sweep(w) \/ Restart(w), ~AdvanceClock(w), ~Dispatch(w), ~RowGone(w), ~StoreResult(w)
  PROVE  Account(i)'
  <1>1. Only(w)
    BY SweepOnly
  <1> USE LocalTypes
  <1>2. CASE BeginTick(w)
    <2>1. Quiet(w) /\ Quiet(w)' /\ w \notin Ahead(i)'
      BY <1>2 DEF BeginTick, Quiet, Unstored, Ahead
    <2> QED
      BY <1>1, <1>2, <2>1, QuietKeeps DEF BeginTick, db, history
  <1>3. CASE Scan(w)
    <2>1. Quiet(w) /\ Quiet(w)' /\ (w \in Ahead(i)' => w \in Ahead(i))
      BY <1>3 DEF Scan, Quiet, Unstored, Ahead
    <2> QED
      BY <1>1, <1>3, <2>1, QuietKeeps DEF Scan, db, history
  <1>4. CASE Claim(w)
    <2>1. Quiet(w) /\ Quiet(w)' /\ (w \in Ahead(i)' => w \in Ahead(i))
      BY <1>4 DEF Claim, Quiet, Unstored, Ahead
    <2> QED
      BY <1>1, <1>4, <2>1, QuietKeeps DEF Claim, db, history
  <1>5. CASE ClaimMisses(w)
    <2>1. Quiet(w) /\ Quiet(w)' /\ (w \in Ahead(i)' => w \in Ahead(i))
      BY <1>5 DEF ClaimMisses, Quiet, Unstored, Ahead
    <2> QED
      BY <1>1, <1>5, <2>1, QuietKeeps DEF ClaimMisses, db, history
  <1>6. CASE CandidateGone(w) \/ SendRaised(w) \/ EndTick(w)
    <2>1. Leave(w, "idle")
      BY <1>6 DEF CandidateGone, SendRaised, EndTick
    <2>2. pc'[w] = "idle" /\ todo'[w] = {}
      BY <2>1, LeaveOnly
    <2>3. Quiet(w) /\ Quiet(w)' /\ w \notin Ahead(i)'
      BY <1>6, <2>2 DEF CandidateGone, SendRaised, EndTick, Quiet, Unstored, Ahead
    <2> QED
      BY <1>1, <1>6, <2>3, QuietKeeps DEF CandidateGone, SendRaised, EndTick, db, history
  <1>7. CASE KeepWaiting(w) \/ MarkNoResponse(w)
    <2>1. Continue(w)
      BY <1>7 DEF KeepWaiting, MarkNoResponse
    <2>2. pc'[w] = "next" /\ UNCHANGED <<advisory, todo>>
      BY <2>1, ContinueOnly
    <2>3. Quiet(w) /\ Quiet(w)' /\ (w \in Ahead(i)' => w \in Ahead(i))
      BY <1>7, <2>2 DEF KeepWaiting, MarkNoResponse, Quiet, Unstored, Ahead
    <2> QED
      BY <1>1, <1>7, <2>3, QuietKeeps DEF KeepWaiting, MarkNoResponse, db, history
  <1>8. CASE ReRead(w)
    <2>1. Quiet(w) /\ Quiet(w)' /\ (w \in Ahead(i)' => w \in Ahead(i))
      BY <1>8 DEF ReRead, Quiet, Unstored, Ahead
    <2> QED
      BY <1>1, <1>8, <2>1, QuietKeeps DEF ReRead, db, history
  <1>9. CASE Restart(w)
    <2>1. Quiet(w) /\ Quiet(w)' /\ (w \in Ahead(i)' => w \in Ahead(i))
      BY <1>9 DEF Restart, Quiet, Unstored, Ahead
    <2> QED
      BY <1>1, <1>9, <2>1, QuietKeeps DEF Restart, db, history
  <1> QED
    BY <1>2, <1>3, <1>4, <1>5, <1>6, <1>7, <1>8, <1>9 DEF Sweep

\* The claim: there is a follow-up left to send, or the lock is lost already.
LEMMA AccountAdvance ==
  ASSUME TypeInv, TypeInv', LockInv, Attempts, Attempts', NEW i \in Invites, Account(i),
         NEW w \in Workers, AdvanceClock(w)
  PROVE  Account(i)'
  <1> USE LocalTypes
  <1>1. Only(w)
    BY SweepOnly DEF Sweep
  <1>2. /\ pc[w] = "decide" /\ pc'[w] = "dispatch" /\ cur[w] \in Invites /\ rowLock[cur[w]] = w
        /\ UNCHANGED <<advisory, cur, todo, sent, life, accepted, invited, lost, faults>>
        /\ seen[w].last = last[cur[w]] /\ seen[w].sent = sent[cur[w]]
    BY DEF AdvanceClock, history, TypeInv, LocalsOK, HasCandidate, LockInv, LockHeld, ReadFresh, Claiming
  <1>3. last' = [last EXCEPT ![cur[w]] = now[w]] /\ now[w] # NoClock /\ last[cur[w]] # NoClock
        /\ sent[cur[w]] < Budget
    BY <1>2, NamesAssumption DEF AdvanceClock, Claimed, DueBySeen, TypeInv, LocalsOK, HistoryOK
  <1>4. (last'[i] = NoClock) = (last[i] = NoClock)
    BY <1>2, <1>3 DEF TypeInv, TablesOK
  <1>5. Ahead(i)' \subseteq Ahead(i) /\ Behind(i)' \subseteq Behind(i)
    <2>1. w \in Ahead(i)' => w \in Ahead(i)
      BY <1>2 DEF Ahead
    <2>2. w \notin Behind(i)'
      BY <1>2 DEF Behind, Unstored
    <2> QED
      BY <1>1, <2>1, <2>2, OthersStay
  <1>6. Left(i)' = Left(i)
    <2>1. CASE advisory # w
      BY <1>1, <1>2, <1>4, <2>1 DEF Only, SameLocals, Left, Held, Unstored
    <2>2. CASE advisory = w /\ cur[w] = i
      <3>1. sent[i] < Budget
        BY <1>3, <2>2
      <3>2. Left(i) = Plain(i)
        BY <1>2, <2>2, LeftBounds DEF LeftBounded, Texting, Unstored
      <3> QED
        BY <1>2, <1>4, <2>2, <3>1, <3>2 DEF Left, Plain, Held
    <2>3. CASE advisory = w /\ cur[w] # i
      BY <1>2, <1>4, <2>3 DEF Left, Held
    <2> QED
      BY <2>1, <2>2, <2>3
  <1>7. Left(i)' <= Left(i)
    BY <1>6, LeftBounds, BudgetIsNat DEF LeftBounded
  <1> QED
    BY <1>2, <1>5, <1>7, AccountFrame

\* A tick that ends without a lock does nothing to the account; the one that
\* holds the lock may end with a text uncounted.
LEMMA LeaveAccount ==
  ASSUME TypeInv, TypeInv', Attempts, Attempts', NEW i \in Invites, NEW w \in Workers,
         NEW place \in {"idle", "down"}, Leave(w, place), UNCHANGED <<sent, last, life>>
  PROVE  /\ Ahead(i)' \subseteq Ahead(i) /\ Behind(i)' \subseteq Behind(i)
         /\ Left(i)' \in Nat /\ Left(i) \in Nat /\ Left(i)' <= Left(i) + 1
         /\ cur[w] # i => Left(i)' = Left(i)
         /\ life[i] = "gone" => Left(i)' = Left(i)
  <1>1. Only(w) /\ pc'[w] = place /\ todo'[w] = {}
    BY LeaveOnly
  <1>2. w \notin Ahead(i)' /\ w \notin Behind(i)'
    BY <1>1 DEF Ahead, Behind, Unstored
  <1>3. Ahead(i)' \subseteq Ahead(i) /\ Behind(i)' \subseteq Behind(i)
    BY <1>1, <1>2, OthersStay
  <1>4. Left(i) \in Nat /\ Left(i)' \in Nat /\ Plain(i) <= Left(i) + 1 /\ Plain(i) \in Nat
    BY LeftBounds, LeftBoundsNext, BudgetIsNat DEF LeftBounded
  <1>5. CASE advisory # w
    <2>1. advisory' = advisory
      BY <1>5 DEF Leave, Unlocked
    <2>2. Left(i)' = Left(i)
      BY <1>1, <1>5, <2>1, LeftSame
    <2> QED
      BY <1>3, <1>4, <2>2
  <1>6. CASE advisory = w
    <2>1. advisory' = Nobody
      BY <1>6 DEF Leave, Unlocked
    <2>2. ~Texting(i)'
      BY <2>1, NamesAssumption DEF Texting, Held
    <2>3. Left(i)' = Plain(i)
      <3>1. Left(i)' = Plain(i)'
        BY <2>2, LeftBoundsNext DEF LeftBounded
      <3> QED
        BY <3>1 DEF Plain
    <2>4. cur[w] # i => Left(i) = Plain(i)
      BY <1>6, LeftBounds DEF LeftBounded, Texting, Held
    <2>5. life[i] = "gone" => Left(i) = Plain(i)
      BY DEF Left, Plain
    <2> QED
      BY <1>3, <1>4, <2>3, <2>4, <2>5
  <1> QED
    BY <1>5, <1>6

LEMMA AccountGone ==
  ASSUME TypeInv, TypeInv', Attempts, Attempts', NEW i \in Invites, Account(i), NEW w \in Workers,
         RowGone(w)
  PROVE  Account(i)'
  <1>1. Leave(w, "idle") /\ UNCHANGED <<sent, last, life, accepted, invited, lost, faults>>
        /\ life[cur[w]] = "gone"
    BY DEF RowGone, db, history
  <1>2. /\ Ahead(i)' \subseteq Ahead(i) /\ Behind(i)' \subseteq Behind(i)
        /\ Left(i) \in Nat /\ Left(i)' = Left(i)
    BY <1>1, LeaveAccount
  <1> QED
    BY <1>1, <1>2, AccountFrame

\* A crash pays for the text it may leave uncounted.
LEMMA AccountCrash ==
  ASSUME TypeInv, TypeInv', Attempts, Attempts', NEW i \in Invites, Account(i), NEW w \in Workers,
         Crash(w)
  PROVE  Account(i)'
  <1>1. Leave(w, "down") /\ UNCHANGED <<sent, last, life, accepted, invited, lost>>
        /\ faults' = faults + 1
    BY DEF Crash, db, history
  <1>2. /\ Ahead(i)' \subseteq Ahead(i) /\ Behind(i)' \subseteq Behind(i)
        /\ Left(i) \in Nat /\ Left(i)' \in Nat /\ Left(i)' <= Left(i) + 1
    BY <1>1, LeaveAccount
  <1>3. /\ IsFiniteSet(Ahead(i)') /\ IsFiniteSet(Behind(i)')
        /\ Weight(Ahead(i), Behind(i))' <= Weight(Ahead(i), Behind(i))
        /\ Weight(Ahead(i), Behind(i))' \in Nat /\ Weight(Ahead(i), Behind(i)) \in Nat
    BY <1>2, WeightFalls DEF Account, Weight, Due
  <1>4. /\ Budget * (invited[i] + lost) \in Int /\ faults \in Nat /\ lost \in Nat
        /\ accepted[i] \in Nat
    BY BudgetIsNat DEF TypeInv, HistoryOK
  <1>5. Budget * (invited[i] + lost)' = Budget * (invited[i] + lost)
    BY <1>1
  <1> QED
    BY <1>1, <1>2, <1>3, <1>4, <1>5 DEF Account

\* A lost lock pays a budget: the tick goes on, ahead of its text or behind it.
LEMMA AccountLost ==
  ASSUME TypeInv, TypeInv', Attempts, Attempts', NEW i \in Invites, Account(i), NEW w \in Workers,
         LoseAdvisory(w)
  PROVE  Account(i)'
  <1>1. /\ advisory = w /\ advisory' = Nobody /\ lost' = lost + 1 /\ faults' = faults + 1
        /\ UNCHANGED <<sent, last, life, accepted, invited, pc, cur, seen, outcome, todo>>
    BY DEF LoseAdvisory, db, locals
  <1>2. Left(i)' = Plain(i)
    <2>1. Left(i)' = Plain(i)'
      BY <1>1, LeftBoundsNext, NamesAssumption DEF LeftBounded, Texting, Held
    <2> QED
      BY <1>1, <2>1 DEF Plain
  <1>3. w \notin Ahead(i) /\ w \notin Behind(i)
    BY <1>1 DEF Ahead, Behind
  <1>4. Ahead(i)' \subseteq Ahead(i) \cup {w} /\ Behind(i)' \subseteq Behind(i) \cup {w}
    BY <1>1 DEF Ahead, Behind, Unstored
  <1>5. IsFiniteSet(Ahead(i)) /\ IsFiniteSet(Behind(i))
    BY DEF Account
  <1>6. /\ IsFiniteSet(Ahead(i) \cup {w}) /\ IsFiniteSet(Behind(i) \cup {w})
        /\ Weight(Ahead(i) \cup {w}, Behind(i)) = Weight(Ahead(i), Behind(i)) + Budget
        /\ Weight(Ahead(i), Behind(i) \cup {w}) = Weight(Ahead(i), Behind(i)) + Due(1)
    BY <1>3, <1>5, WeightOfOne
  <1>7. /\ Left(i) \in Nat /\ Plain(i) \in Nat /\ Plain(i) <= Left(i) + 1 /\ Budget \in Nat
        /\ ~Texting(i) => Left(i) = Plain(i)
        /\ Texting(i) => Budget >= 1 /\ Due(1) = Budget - 1
    BY LeftBounds, BudgetIsNat DEF LeftBounded, Due
  <1>8. /\ IsFiniteSet(Ahead(i)') /\ IsFiniteSet(Behind(i)')
        /\ Weight(Ahead(i)', Behind(i)') \in Nat /\ Weight(Ahead(i), Behind(i)) \in Nat
        /\ Left(i)' + Weight(Ahead(i)', Behind(i)') <= Left(i) + Weight(Ahead(i), Behind(i)) + Budget
    <2>1. CASE w \in Behind(i)'
      <3>1. w \notin Ahead(i)' /\ Texting(i)
        <4>1. pc[w] = "result" /\ cur[w] = i /\ outcome[w] = "ok"
          BY <1>1, <2>1 DEF Behind, Unstored
        <4>2. i \notin todo[w]
          BY <4>1 DEF Attempts, Holding
        <4> QED
          BY <1>1, <4>1, <4>2 DEF Ahead, Texting, Held, Unstored
      <3>2. Ahead(i)' \subseteq Ahead(i)
        BY <1>4, <3>1
      <3>3. /\ IsFiniteSet(Ahead(i)') /\ IsFiniteSet(Behind(i)')
            /\ Weight(Ahead(i)', Behind(i)') \in Nat
            /\ Weight(Ahead(i)', Behind(i)') <= Weight(Ahead(i), Behind(i) \cup {w})
        BY <1>4, <1>5, <1>6, <3>2, WeightFalls
      <3>4. Weight(Ahead(i), Behind(i)) \in Nat
        BY <1>5, WeightFalls
      <3> QED
        BY <1>2, <1>6, <1>7, <3>1, <3>3, <3>4
    <2>2. CASE w \notin Behind(i)'
      <3>1. Behind(i)' \subseteq Behind(i)
        BY <1>4, <2>2
      <3>2. /\ IsFiniteSet(Ahead(i)') /\ IsFiniteSet(Behind(i)')
            /\ Weight(Ahead(i)', Behind(i)') \in Nat
            /\ Weight(Ahead(i)', Behind(i)') <= Weight(Ahead(i) \cup {w}, Behind(i))
        BY <1>4, <1>5, <1>6, <3>1, WeightFalls
      <3>3. Weight(Ahead(i), Behind(i)) \in Nat
        BY <1>5, WeightFalls
      <3>4. Plain(i) <= Left(i)
        <4>1. CASE ~Texting(i)
          BY <1>7, <4>1
        <4>2. CASE Texting(i)
          <5>1. pc[w] = "dispatch" /\ Held(i)
            BY <1>1, <2>2, <4>2, NamesAssumption DEF Texting, Held, Behind, Unstored
          <5>2. sent[i] \in Nat
            BY DEF TypeInv, TablesOK
          <5> QED
            BY <1>1, <5>1, <5>2, BudgetIsNat DEF Left, Plain, Due
        <4> QED
          BY <4>1, <4>2
      <3> QED
        BY <1>2, <1>6, <1>7, <3>2, <3>3, <3>4
    <2> QED
      BY <2>1, <2>2
  <1>9. /\ accepted[i] \in Nat /\ invited[i] \in Nat /\ lost \in Nat /\ faults \in Nat
        /\ Budget * (invited[i] + lost) \in Int
        /\ Budget * (invited[i] + lost + 1) = Budget * (invited[i] + lost) + Budget
    <2>1. accepted[i] \in Nat /\ invited[i] \in Nat /\ lost \in Nat /\ faults \in Nat /\ invited[i] + lost \in Nat
      BY DEF TypeInv, HistoryOK
    <2> QED
      BY <2>1, TimesMonotone, BudgetIsNat
  <1>10. invited'[i] + lost' = invited[i] + lost + 1 /\ faults' - lost' = faults - lost
    BY <1>1, <1>9
  <1>11. accepted[i] + Left(i) + Weight(Ahead(i), Behind(i)) <= Budget * (invited[i] + lost) + (faults - lost)
    BY DEF Account
  <1>12. Left(i)' \in Nat
    BY <1>2, <1>7
  <1>13. accepted'[i] + Left(i)' + Weight(Ahead(i)', Behind(i)') <= Budget * (invited'[i] + lost') + (faults' - lost')
    BY <1>1, <1>7, <1>8, <1>9, <1>10, <1>11, <1>12
  <1>14. Weight(Ahead(i), Behind(i))' = Weight(Ahead(i)', Behind(i)')
    BY DEF Weight, Due
  <1> QED
    BY <1>8, <1>13, <1>14 DEF Account

\* A text that the provider accepts was still due to the tick that sends it.
LEMMA AccountDispatch ==
  ASSUME TypeInv, TypeInv', WindowInv, Attempts, Attempts', NEW i \in Invites, Account(i),
         NEW w \in Workers, Dispatch(w)
  PROVE  Account(i)'
  <1> USE LocalTypes
  <1>1. Only(w)
    BY SweepOnly DEF Sweep
  <1>2. /\ pc[w] = "dispatch" /\ pc'[w] = "result" /\ cur[w] \in Invites /\ Budget >= 1
        /\ seen'[w].sent = sent[cur[w]] + 1 /\ last[cur[w]] # NoClock
        /\ UNCHANGED <<advisory, cur, todo, sent, last, life, invited, lost, faults>>
        /\ cur[w] \notin todo[w] /\ life[cur[w]] = "live"
    BY DEF Dispatch, db, history, TypeInv, LocalsOK, HasCandidate, WindowInv, ClaimsCovered, Holding, Attempts
  <1>3. \/ outcome'[w] # "ok" /\ accepted'[i] = accepted[i]
        \/ outcome'[w] = "ok" /\ cur[w] # i /\ accepted'[i] = accepted[i]
        \/ outcome'[w] = "ok" /\ cur[w] = i /\ accepted'[i] = accepted[i] + 1
    <2>0. accepted \in [Invites -> Nat]
      BY DEF TypeInv, HistoryOK
    <2>1. CASE outcome' = [outcome EXCEPT ![w] = "dnc"] /\ UNCHANGED history
      BY <2>1 DEF history
    <2>2. ASSUME NEW o \in Outcomes, outcome' = [outcome EXCEPT ![w] = o],
                 accepted' = IF o = "ok" THEN [accepted EXCEPT ![cur[w]] = @ + 1] ELSE accepted
          PROVE  \/ outcome'[w] # "ok" /\ accepted'[i] = accepted[i]
                 \/ outcome'[w] = "ok" /\ cur[w] # i /\ accepted'[i] = accepted[i]
                 \/ outcome'[w] = "ok" /\ cur[w] = i /\ accepted'[i] = accepted[i] + 1
      BY <1>2, <2>0, <2>2
    <2> QED
      BY <2>1, <2>2 DEF Dispatch
  <1>4. sent[i] \in Nat /\ accepted[i] \in Nat /\ Budget \in Nat /\ invited[i] \in Nat
        /\ lost \in Nat /\ faults \in Nat /\ Budget * (invited[i] + lost) \in Int
    BY SMTT(60), BudgetIsNat DEF TypeInv, TablesOK, HistoryOK
  <1>5. Left(i) \in Nat /\ Left(i)' \in Nat
    BY LeftBounds, LeftBoundsNext, BudgetIsNat DEF LeftBounded
  <1>6. IsFiniteSet(Ahead(i)) /\ IsFiniteSet(Behind(i))
    BY DEF Account
  <1>7. CASE cur[w] # i
    <2>1. Ahead(i)' \subseteq Ahead(i) /\ Behind(i)' \subseteq Behind(i)
      <3>1. w \in Ahead(i)' => w \in Ahead(i)
        BY <1>2, <1>7 DEF Ahead
      <3>2. w \notin Behind(i)'
        BY <1>2, <1>7 DEF Behind
      <3> QED
        BY <1>1, <3>1, <3>2, OthersStay
    <2>2. Left(i)' = Left(i)
      <3>1. CASE advisory # w
        BY <1>1, <1>2, <3>1, LeftSame
      <3>2. CASE advisory = w
        BY <1>2, <1>7, <3>2 DEF Left, Held
      <3> QED
        BY <3>1, <3>2
    <2>3. accepted'[i] = accepted[i] /\ Left(i)' <= Left(i)
      BY <1>3, <1>5, <1>7, <2>2
    <2> QED
      BY <1>2, <2>1, <2>3, AccountFrame
  <1>8. CASE cur[w] = i /\ advisory # w
    <2>1. Left(i)' = Left(i)
      BY <1>1, <1>2, <1>8, LeftSame
    <2>2. w \in Ahead(i) /\ w \notin Ahead(i)' /\ w \notin Behind(i)
      BY <1>2, <1>8 DEF Ahead, Behind, Unstored
    <2>3. Ahead(i)' = Ahead(i) \ {w} /\ Behind(i)' \ {w} = Behind(i)
      BY <1>1, <2>2, OthersStay
    <2>4. CASE outcome'[w] # "ok"
      <3>1. w \notin Behind(i)'
        BY <2>4 DEF Behind, Unstored
      <3>2. Ahead(i)' \subseteq Ahead(i) /\ Behind(i)' \subseteq Behind(i)
        BY <2>3, <3>1
      <3>3. accepted'[i] = accepted[i] /\ Left(i)' <= Left(i)
        BY <1>3, <1>5, <2>1, <2>4
      <3> QED
        BY <1>2, <3>2, <3>3, AccountFrame
    <2>5. CASE outcome'[w] = "ok"
      <3>1. w \in Behind(i)'
        BY <1>2, <1>8, <2>5 DEF Behind, Unstored
      <3>2. Behind(i)' = Behind(i) \cup {w}
        BY <2>3, <3>1
      <3> DEFINE A == Ahead(i) \ {w}
                 B == Behind(i)
      <3>3. IsFiniteSet(A) /\ IsFiniteSet(B) /\ w \notin A /\ w \notin B /\ A \cup {w} = Ahead(i)
        BY <1>6, <2>2, WeightFalls
      <3>4. /\ IsFiniteSet(B \cup {w})
            /\ Weight(Ahead(i), B) = Weight(A, B) + Budget
            /\ Weight(A, B \cup {w}) = Weight(A, B) + Due(1)
            /\ Weight(A, B) \in Nat
        <4> HIDE DEF A, B
        <4>1. IsFiniteSet(B \cup {w}) /\ Weight(A, B \cup {w}) = Weight(A, B) + Due(1)
          BY <3>3, WeightOfOne
        <4>2. Weight(A \cup {w}, B) = Weight(A, B) + Budget
          BY <3>3, WeightOfOne
        <4>3. Weight(A, B) \in Nat
          BY <3>3, WeightFalls
        <4> QED
          BY <3>3, <4>1, <4>2, <4>3
      <3>5. Due(1) = Budget - 1
        BY <1>2, <1>4 DEF Due
      <3>6. accepted'[i] + Left(i)' + Weight(A, B \cup {w}) <= Budget * (invited[i] + lost) + (faults - lost)
        <4>1. accepted[i] + Left(i) + Weight(Ahead(i), B) <= Budget * (invited[i] + lost) + (faults - lost)
          BY DEF Account
        <4>2. accepted'[i] = accepted[i] + 1
          BY <1>3, <1>8, <2>5
        <4> HIDE DEF A, B
        <4> QED
          BY <1>4, <1>5, <2>1, <3>4, <3>5, <4>1, <4>2
      <3>7. Weight(Ahead(i), Behind(i))' = Weight(A, B \cup {w})
        BY <2>3, <3>2 DEF Weight, Due
      <3> QED
        BY <1>2, <2>3, <3>2, <3>3, <3>4, <3>6, <3>7 DEF Account
    <2> QED
      BY <2>4, <2>5
  <1>9. CASE cur[w] = i /\ advisory = w
    <2>1. w \notin Ahead(i) /\ w \notin Ahead(i)' /\ w \notin Behind(i) /\ w \notin Behind(i)'
      BY <1>2, <1>9 DEF Ahead, Behind
    <2>2. Ahead(i)' = Ahead(i) /\ Behind(i)' = Behind(i)
      <3>1. Ahead(i)' \ {w} = Ahead(i) \ {w} /\ Behind(i)' \ {w} = Behind(i) \ {w}
        BY <1>1, OthersStay
      <3> DEFINE A == Ahead(i)'
                 B == Behind(i)'
      <3>2. ASSUME NEW S, NEW T, S \ {w} = T \ {w}, w \notin S, w \notin T PROVE S = T
        <4>1. S \subseteq T
          BY <3>2
        <4>2. T \subseteq S
          BY <3>2
        <4> QED
          BY <4>1, <4>2
      <3>3. A = Ahead(i)
        <4> HIDE DEF A
        <4> QED
          BY <2>1, <3>1, <3>2 DEF A
      <3>4. B = Behind(i)
        <4> HIDE DEF B
        <4> QED
          BY <2>1, <3>1, <3>2 DEF B
      <3> QED
        BY <3>3, <3>4
    <2>3. Left(i) = IF sent[i] < Budget THEN Due(sent[i]) ELSE 1
      BY <1>2, <1>9 DEF Left, Held
    <2>4. Held(i)' /\ pc'[advisory'] = "result" /\ life'[i] # "gone" /\ last'[i] # NoClock
          /\ sent'[i] = sent[i]
      BY <1>2, <1>9 DEF Held
    <2>5. CASE outcome'[w] # "ok"
      <3>1. Left(i)' = Due(sent[i])
        BY <1>2, <1>9, <2>4, <2>5 DEF Left, Unstored, Due
      <3>2. Left(i)' <= Left(i)
        BY <1>4, <2>3, <3>1 DEF Due
      <3> QED
        BY <1>2, <1>3, <2>2, <2>5, <3>2, AccountFrame
    <2>6. CASE outcome'[w] = "ok"
      <3>1. Left(i)' = Due(sent[i] + 1)
        BY <1>2, <1>4, <1>9, <2>4, <2>6 DEF Left, Unstored, Due
      <3>2. Left(i)' + 1 <= Left(i)
        BY <1>2, <1>4, <2>3, <3>1 DEF Due
      <3>3. Weight(Ahead(i), Behind(i))' = Weight(Ahead(i), Behind(i)) /\ Weight(Ahead(i), Behind(i)) \in Nat
        <4>1. Weight(Ahead(i), Behind(i)) \in Nat
          BY <1>6, WeightFalls
        <4> QED
          BY <2>2, <4>1 DEF Weight, Due
      <3>4. accepted'[i] = accepted[i] + 1
        BY <1>3, <1>9, <2>6
      <3>5. accepted[i] + Left(i) + Weight(Ahead(i), Behind(i)) <= Budget * (invited[i] + lost) + (faults - lost)
        BY DEF Account
      <3>6. accepted'[i] + Left(i)' + Weight(Ahead(i), Behind(i))' <= Budget * (invited[i] + lost) + (faults - lost)
        BY <1>4, <1>5, <3>2, <3>3, <3>4, <3>5
      <3> QED
        BY <1>2, <1>6, <2>2, <3>6 DEF Account
    <2> QED
      BY <2>5, <2>6
  <1> QED
    BY <1>7, <1>8, <1>9

\* The count that a late tick stores puts back at most what it stands for.
LEMMA AccountStore ==
  ASSUME TypeInv, TypeInv', Attempts, Attempts', NEW i \in Invites, Account(i),
         NEW w \in Workers, StoreResult(w)
  PROVE  Account(i)'
  <1> USE LocalTypes
  <1>1. Only(w) /\ pc'[w] = "next" /\ UNCHANGED <<advisory, todo>>
    BY ContinueOnly DEF StoreResult
  <1>2. /\ pc[w] = "result" /\ cur[w] \in Invites /\ Budget >= 1
        /\ seen[w].sent \in Nat /\ seen[w].sent >= 1
        /\ UNCHANGED <<last, life, accepted, invited, lost, faults>>
        /\ sent' = IF outcome[w] = "ok" THEN [sent EXCEPT ![cur[w]] = seen[w].sent] ELSE sent
    BY DEF StoreResult, history, Sent, TypeInv, LocalsOK, HasCandidate, Holding, Attempts
  <1>3. sent \in [Invites -> Nat] /\ sent[i] \in Nat /\ Budget \in Nat /\ accepted[i] \in Nat
        /\ Budget * (invited[i] + lost) + (faults - lost) \in Int
    <2>1. sent \in [Invites -> Nat] /\ accepted[i] \in Nat /\ invited[i] \in Nat /\ lost \in Nat /\ faults \in Nat
      BY DEF TypeInv, TablesOK, HistoryOK
    <2> QED
      BY <2>1, BudgetIsNat
  <1>4. Left(i) \in Nat /\ Left(i)' \in Nat
    BY LeftBounds, LeftBoundsNext, BudgetIsNat DEF LeftBounded
  <1>5. Ahead(i)' \subseteq Ahead(i) /\ Behind(i)' \subseteq Behind(i)
    <2>1. w \in Ahead(i)' => w \in Ahead(i)
      BY <1>1, <1>2 DEF Ahead
    <2>2. w \notin Behind(i)'
      BY <1>1 DEF Behind, Unstored
    <2> QED
      BY <1>1, <2>1, <2>2, OthersStay
  <1>6. CASE sent'[i] = sent[i]
    <2>1. Left(i)' <= Left(i)
      <3>1. CASE advisory # w
        <4>1. Left(i)' = Left(i)
          BY <1>1, <1>2, <1>6, <3>1, LeftSame
        <4> QED
          BY <1>4, <4>1
      <3>2. CASE advisory = w
        <4>1. Left(i)' = Plain(i)'
          BY <1>1, <3>2, LeftBoundsNext DEF LeftBounded, Texting, Held, Unstored
        <4>2. Left(i)' = Plain(i)
          BY <1>2, <1>6, <4>1 DEF Plain
        <4>3. CASE ~Texting(i)
          BY <4>2, <4>3, <1>4, LeftBounds DEF LeftBounded
        <4>4. CASE Texting(i)
          <5>1. cur[w] = i /\ outcome[w] = "ok" /\ sent[i] = seen[w].sent
            BY <1>2, <1>3, <1>6, <3>2, <4>4 DEF Texting, Held, Unstored
          <5>2. Left(i) = Plain(i)
            BY <1>2, <1>3, <3>2, <4>4, <5>1 DEF Left, Plain, Held, Unstored, Texting
          <5> QED
            BY <1>4, <4>2, <5>2
        <4> QED
          BY <4>3, <4>4
      <3> QED
        BY <3>1, <3>2
    <2> QED
      BY <1>2, <1>5, <2>1, AccountFrame
  <1>7. CASE sent'[i] # sent[i]
    <2>1. cur[w] = i /\ outcome[w] = "ok" /\ sent'[i] = seen[w].sent
      BY <1>2, <1>3, <1>7
    <2>2. CASE advisory = w
      <3>1. Left(i)' = Plain(i)'
        BY <1>1, <2>2, LeftBoundsNext DEF LeftBounded, Texting, Held, Unstored
      <3>2. Plain(i)' <= Left(i)
        <4>1. CASE life[i] = "gone" \/ last[i] = NoClock
          BY <1>2, <1>4, <4>1 DEF Plain
        <4>2. CASE ~(life[i] = "gone" \/ last[i] = NoClock)
          <5> DEFINE s == seen[w].sent
                     least == IF sent[i] + 1 < s THEN sent[i] + 1 ELSE s
          <5>1. Left(i) = Due(least) /\ least \in Nat /\ s \in Nat /\ least <= s
            BY <1>2, <1>3, <2>1, <2>2, <4>2 DEF Left, Held, Unstored
          <5>2. Plain(i)' = Due(s)
            BY <1>2, <2>1, <4>2 DEF Plain, Due
          <5> HIDE DEF s, least
          <5> QED
            BY <5>1, <5>2, DueFalls
        <4> QED
          BY <4>1, <4>2
      <3> QED
        BY <1>2, <1>5, <3>1, <3>2, AccountFrame
    <2>3. CASE advisory # w
      <3>1. w \in Behind(i)
        BY <1>2, <2>1, <2>3 DEF Behind, Unstored
      <3>2. Left(i)' <= Left(i) + Due(1)
        <4>1. Due(1) \in Nat /\ \A n \in Nat : n >= 1 => Due(n) <= Due(1)
          BY DueFalls, DueIsNat, BudgetIsNat
        <4>2. CASE life[i] = "gone" \/ last[i] = NoClock
          BY <1>2, <1>4, <4>1, <4>2 DEF Left
        <4>3. CASE ~(life[i] = "gone" \/ last[i] = NoClock) /\ Held(i) /\ pc[advisory] = "dispatch"
          <5>1. advisory \in Workers \ {w} /\ pc'[advisory] = "dispatch" /\ cur'[advisory] = i
            BY <1>1, <2>3, <4>3 DEF Held, Only, SameLocals
          <5>2. Left(i) >= 1
            BY <1>3, <4>3 DEF Left, Due
          <5>3. Left(i)' = IF seen[w].sent < Budget THEN Due(seen[w].sent) ELSE 1
            BY <1>1, <1>2, <2>1, <4>3, <5>1 DEF Left, Held, Due
          <5> QED
            BY <1>2, <1>4, <4>1, <5>2, <5>3
        <4>4. CASE ~(life[i] = "gone" \/ last[i] = NoClock) /\ Held(i) /\ Unstored(advisory)
          <5> DEFINE v == advisory
          <5>1. v \in Workers \ {w} /\ pc'[v] = "result" /\ cur'[v] = i /\ outcome'[v] = "ok"
                /\ seen'[v] = seen[v] /\ seen[v].sent >= 1 /\ seen[v].sent \in Nat
            BY <1>1, <2>3, <4>4 DEF Held, Unstored, Only, SameLocals, Attempts
          <5>2. Left(i)' = Due(IF seen[w].sent + 1 < seen[v].sent THEN seen[w].sent + 1 ELSE seen[v].sent)
            BY <1>1, <1>2, <2>1, <4>4, <5>1 DEF Left, Held, Unstored, Due
          <5> QED
            BY <1>2, <1>4, <4>1, <5>1, <5>2
        <4>5. CASE ~(life[i] = "gone" \/ last[i] = NoClock) /\ ~Texting(i)
          <5>1. ~Texting(i)'
            BY <1>1, <2>3, <4>5 DEF Texting, Held, Unstored, Only, SameLocals
          <5>2. Left(i)' = Due(seen[w].sent)
            BY <1>2, <2>1, <4>5, <5>1 DEF Left, Texting, Due
          <5> QED
            BY <1>2, <1>4, <4>1, <5>2
        <4> QED
          BY <4>2, <4>3, <4>4, <4>5 DEF Texting
      <3> DEFINE A == Ahead(i)
                 B == Behind(i) \ {w}
      <3>3. IsFiniteSet(A) /\ IsFiniteSet(B) /\ w \notin B /\ B \cup {w} = Behind(i)
        BY <3>1, WeightFalls DEF Account
      <3>4. Ahead(i)' \subseteq A /\ Behind(i)' \subseteq B
        <4>1. w \notin Behind(i)'
          BY <1>1 DEF Behind, Unstored
        <4> QED
          BY <1>5, <4>1
      <3>5. /\ IsFiniteSet(Ahead(i)') /\ IsFiniteSet(Behind(i)')
            /\ Weight(Ahead(i)', Behind(i)') \in Nat
            /\ Weight(Ahead(i)', Behind(i)') <= Weight(A, B)
            /\ Weight(A, Behind(i)) = Weight(A, B) + Due(1)
            /\ Weight(A, B) \in Nat
        <4> HIDE DEF A, B
        <4>1. Weight(A, B \cup {w}) = Weight(A, B) + Due(1)
          BY <3>3, WeightOfOne
        <4>2. /\ IsFiniteSet(Ahead(i)') /\ IsFiniteSet(Behind(i)')
              /\ Weight(Ahead(i)', Behind(i)') \in Nat /\ Weight(A, B) \in Nat
              /\ Weight(Ahead(i)', Behind(i)') <= Weight(A, B)
          BY <3>3, <3>4, WeightFalls
        <4> QED
          BY <3>3, <4>1, <4>2
      <3>6. accepted[i] + Left(i) + Weight(A, Behind(i)) <= Budget * (invited[i] + lost) + (faults - lost)
        BY DEF Account
      <3>7. Due(1) \in Nat
        BY DueIsNat, BudgetIsNat
      <3>8. accepted[i] + Left(i)' + Weight(Ahead(i)', Behind(i)') <= Budget * (invited[i] + lost) + (faults - lost)
        <4> HIDE DEF A, B
        <4> QED
          BY <1>3, <1>4, <3>2, <3>5, <3>6, <3>7
      <3>9. Weight(Ahead(i), Behind(i))' = Weight(Ahead(i)', Behind(i)')
        BY DEF Weight, Due
      <3> QED
        BY <1>2, <3>5, <3>8, <3>9 DEF Account
    <2> QED
      BY <2>2, <2>3
  <1> QED
    BY <1>6, <1>7

\* An invitation pays for the budget it gives back.
LEMMA AccountWeb ==
  ASSUME TypeInv, TypeInv', Attempts, Attempts', NEW i \in Invites, Account(i), Web
  PROVE  Account(i)'
  <1>1. UNCHANGED <<advisory, pc, cur, seen, outcome, todo, accepted, lost, faults>>
    BY ZenonT(60) DEF Web, AddInvitee, DeleteInvite, Close, Setup, Reply, Stop, Start, locals, history
  <1>2. Ahead(i)' = Ahead(i) /\ Behind(i)' = Behind(i)
    BY <1>1 DEF Ahead, Behind, Unstored
  <1>3. Left(i) \in Nat /\ Left(i)' \in Nat /\ Left(i)' <= Budget /\ Budget \in Nat
    BY LeftBounds, LeftBoundsNext, BudgetIsNat DEF LeftBounded
  <1>4. CASE /\ sent'[i] = sent[i] /\ last'[i] = last[i] /\ invited'[i] = invited[i]
             /\ life'[i] = "gone" \/ (life[i] = "gone") = (life'[i] = "gone")
    <2>1. Left(i)' = 0 \/ Left(i)' = Left(i)
      BY <1>1, <1>4 DEF Left, Held, Unstored
    <2> QED
      BY <1>1, <1>2, <1>3, <1>4, <2>1, AccountFrame
  <1>5. CASE invited'[i] = invited[i] + 1
    <2>1. /\ accepted[i] \in Nat /\ invited[i] \in Nat /\ lost \in Nat /\ faults \in Nat
          /\ invited[i] + lost \in Nat
      BY DEF TypeInv, HistoryOK
    <2>2. /\ Budget * (invited[i] + lost) \in Nat
          /\ Budget * (invited[i] + lost + 1) = Budget * (invited[i] + lost) + Budget
      BY <2>1, TimesMonotone, BudgetIsNat
    <2>3. IsFiniteSet(Ahead(i)) /\ IsFiniteSet(Behind(i))
          /\ accepted[i] + Left(i) + Weight(Ahead(i), Behind(i)) <= Budget * (invited[i] + lost) + (faults - lost)
      BY DEF Account
    <2>4. Weight(Ahead(i), Behind(i))' = Weight(Ahead(i), Behind(i)) /\ Weight(Ahead(i), Behind(i)) \in Nat
      <3>1. Weight(Ahead(i), Behind(i)) \in Nat
        BY <2>3, WeightFalls
      <3> QED
        BY <1>2, <3>1 DEF Weight, Due
    <2>5. invited'[i] + lost' = invited[i] + lost + 1
      BY <1>1, <1>5, <2>1
    <2>6. accepted'[i] + Left(i)' + Weight(Ahead(i), Behind(i))'
            <= Budget * (invited'[i] + lost') + (faults' - lost')
      BY <1>1, <1>3, <2>1, <2>2, <2>3, <2>4, <2>5
    <2> QED
      BY <1>2, <2>3, <2>6 DEF Account
  <1>6. CASE \E h \in Hangouts : \E S \in SUBSET InvitesOf(h) : \E Bad \in SUBSET S : Setup(h, S, Bad)
    <2> PICK h \in Hangouts : \E S \in SUBSET InvitesOf(h) : \E Bad \in SUBSET S : Setup(h, S, Bad)
      BY <1>6
    <2> PICK S \in SUBSET InvitesOf(h) : \E Bad \in SUBSET S : Setup(h, S, Bad)
      OBVIOUS
    <2> PICK Bad \in SUBSET S : Setup(h, S, Bad)
      OBVIOUS
    <2> DEFINE texts == {j \in S : SetupTexts(j)}
               left  == {j \in InvitesOf(h) \ S : life[j] = "live" /\ last[j] = NoClock}
    <2>1. /\ sent'   = [j \in Invites |-> IF j \in texts THEN 0 ELSE sent[j]]
          /\ last'   = [j \in Invites |-> IF j \in texts THEN clock ELSE last[j]]
          /\ invited' = [j \in Invites |-> IF j \in texts THEN invited[j] + 1 ELSE invited[j]]
          /\ life'   = [j \in Invites |-> IF j \in S THEN "live" ELSE IF j \in left THEN "gone" ELSE life[j]]
          /\ \A j \in S : life[j] # "gone"
      BY DEF Setup
    <2>2. CASE i \in texts
      BY <1>5, <2>1, <2>2
    <2>3. CASE i \notin texts
      BY <1>4, <2>1, <2>3
    <2> QED
      BY <2>2, <2>3
  <1>7. CASE ~\E h \in Hangouts : \E S \in SUBSET InvitesOf(h) : \E Bad \in SUBSET S : Setup(h, S, Bad)
    <2>1. UNCHANGED <<sent, last, invited>>
      BY <1>7 DEF Web, AddInvitee, DeleteInvite, Close, Reply, Stop, Start, history
    <2>2. life'[i] = "gone" \/ (life[i] = "gone") = (life'[i] = "gone")
      <3>1. CASE \E j \in Invites : AddInvitee(j) \/ DeleteInvite(j)
        BY <3>1 DEF AddInvitee, DeleteInvite, TypeInv, TablesOK
      <3>2. CASE UNCHANGED life
        BY <3>2
      <3> QED
        BY <1>7, <3>1, <3>2 DEF Web, Close, Reply, Stop, Start
    <2> QED
      BY <1>4, <2>1, <2>2
  <1> QED
    BY <1>6, <1>7

LEMMA AccountsInit == Init => Accounts
  <1> SUFFICES ASSUME Init PROVE Accounts
    OBVIOUS
  <1>1. Attempts
    BY DEF Init, Attempts, Claiming, Holding
  <1>2. ASSUME NEW i \in Invites PROVE Account(i)
    <2>1. Ahead(i) = {} /\ Behind(i) = {}
      BY DEF Init, Ahead, Behind, Unstored
    <2>2. Weight({}, {}) = 0 /\ IsFiniteSet({})
      BY FS_EmptySet, BudgetIsNat DEF Weight, Due
    <2>3. Left(i) = 0 /\ accepted[i] = 0 /\ invited[i] = 0 /\ lost = 0 /\ faults = 0
      BY DEF Init, Left
    <2> QED
      BY <2>1, <2>2, <2>3, BudgetIsNat DEF Account
  <1> QED
    BY <1>1, <1>2 DEF Accounts

LEMMA AccountsStep == IInv /\ Accounts /\ [Next]_vars => Accounts'
  <1> SUFFICES ASSUME IInv, Accounts, [Next]_vars PROVE Accounts'
    OBVIOUS
  <1>1. TypeInv /\ TypeInv' /\ LockInv /\ WindowInv /\ Attempts /\ Attempts'
    BY TypeStep, AttemptsStep DEF IInv, Accounts
  <1>2. ASSUME NEW i \in Invites PROVE Account(i)'
    <2>1. Account(i)
      BY DEF Accounts
    <2>2. CASE Tick \/ UNCHANGED vars
      <3>1. UNCHANGED <<advisory, pc, cur, seen, outcome, todo, sent, last, life, accepted, invited, lost, faults>>
        BY <2>2 DEF Tick, vars, db, locals, history
      <3>2. Ahead(i)' = Ahead(i) /\ Behind(i)' = Behind(i) /\ Left(i)' = Left(i)
        BY <3>1 DEF Ahead, Behind, Left, Held, Unstored, Due
      <3>3. Left(i) \in Nat
        BY <1>1, LeftBounds, BudgetIsNat DEF LeftBounded
      <3> QED
        BY <1>1, <2>1, <3>1, <3>2, <3>3, AccountFrame
    <2>3. CASE Web
      BY <1>1, <2>1, <2>3, AccountWeb
    <2>4. ASSUME NEW w \in Workers, Sweep(w) \/ Crash(w) \/ Restart(w) \/ LoseAdvisory(w)
          PROVE  Account(i)'
      BY <1>1, <2>1, <2>4, AccountBetween, AccountAdvance, AccountDispatch, AccountGone, AccountStore,
         AccountCrash, AccountLost
    <2> QED
      BY <2>2, <2>3, <2>4 DEF Next
  <1> QED
    BY <1>1, <1>2 DEF Accounts

\* However many workers, crashes, lost locks and setup passes there are, an
\* invitee is sent at most a budget of follow-ups for each invitation and for
\* each lost lock, and one for each crash (services.py:903-960).
THEOREM BudgetIsKept == Spec => []BudgetKept
  <1>1. Init => IInv /\ Accounts
    BY TypeInit, SafetyInit, AccountsInit DEF IInv
  <1>2. IInv /\ Accounts /\ [Next]_vars => (IInv /\ Accounts)'
    BY SafetyStep, AccountsStep
  <1>3. IInv /\ Accounts => BudgetKept
    <2> SUFFICES ASSUME IInv, Accounts, NEW i \in Invites
                 PROVE  accepted[i] <= Budget * (invited[i] + lost) + (faults - lost)
      BY DEF BudgetKept
    <2>1. IsFiniteSet(Ahead(i)) /\ IsFiniteSet(Behind(i))
          /\ accepted[i] + Left(i) + Weight(Ahead(i), Behind(i)) <= Budget * (invited[i] + lost) + (faults - lost)
      BY DEF Accounts, Account
    <2>2. Left(i) \in Nat /\ accepted[i] \in Nat
      BY LeftBounds, BudgetIsNat DEF LeftBounded, IInv, Accounts, TypeInv, HistoryOK
    <2>3. Weight(Ahead(i), Behind(i)) \in Nat
      BY <2>1, WeightFalls
    <2>4. Budget * (invited[i] + lost) + (faults - lost) \in Int
      <3>1. invited[i] \in Nat /\ lost \in Nat /\ faults \in Nat
        BY DEF IInv, TypeInv, HistoryOK
      <3> QED
        BY <3>1, BudgetIsNat
    <2> QED
      BY <2>1, <2>2, <2>3, <2>4
  <1> QED
    BY <1>1, <1>2, <1>3, PTL DEF Spec

-----------------------------------------------------------------------------
(* No tick is stuck, and every tick ends.                                  *)

InTick == Places \ {"down", "idle"}

\* What a tick has still to do is of the tables: no row that it knows was never
\* there; and only a tick holds the advisory lock.
KnownRows ==
  /\ \A w \in Workers : \A i \in todo[w] : life[i] # "absent"
  /\ \A w \in Workers : pc[w] \in Claiming \cup Holding => life[cur[w]] # "absent"
  /\ \A w \in Workers : advisory = w => pc[w] \in InTick

\* The guards of the tick's actions: w's next step can be taken.
Ready(w) ==
  \/ pc[w] \in {"scan", "reread", "decide"}
  \/ pc[w] = "next" /\ \/ todo[w] = {}
                       \/ \E i \in todo[w] : life[i] \in {"live", "gone"} \/ rowLock[i] # Nobody
  \/ pc[w] = "dispatch" /\ life[cur[w]] \in {"live", "gone"}
  \/ pc[w] = "result" /\ \/ life[cur[w]] = "gone"
                         \/ life[cur[w]] = "live" /\ rowLock[cur[w]] = Nobody

LEMMA KnownRowsSweep ==
  ASSUME TypeInv, KnownRows, NEW w \in Workers, Sweep(w) PROVE KnownRows'
  <1> USE NamesAssumption DEF TypeInv, LocksOK, LocalsOK, KnownRows, InTick, Places, Claiming, Holding
  <1>1. CASE BeginTick(w)
    BY <1>1 DEF BeginTick, db
  <1>2. CASE Scan(w)
    BY <1>2 DEF Scan, db, Candidates
  <1>3. CASE Claim(w)
    BY <1>3 DEF Claim, db
  <1>4. CASE ClaimMisses(w)
    BY <1>4 DEF ClaimMisses, db
  <1>5. CASE Leave(w, "idle") /\ UNCHANGED life
    BY <1>5 DEF Leave, Unlocked
  <1>6. CASE Continue(w) /\ UNCHANGED life
    BY <1>6 DEF Continue
  <1>7. CASE ReRead(w) \/ AdvanceClock(w) \/ Dispatch(w)
    BY ZenonT(60), <1>7 DEF ReRead, AdvanceClock, Dispatch, db
  <1> QED
    BY <1>1, <1>2, <1>3, <1>4, <1>5, <1>6, <1>7
    DEF Sweep, CandidateGone, RowGone, SendRaised, EndTick, KeepWaiting, MarkNoResponse, StoreResult, db

LEMMA KnownRowsStep == ASSUME TypeInv, KnownRows, [Next]_vars PROVE KnownRows'
  <1> USE NamesAssumption DEF TypeInv, LocksOK, LocalsOK, KnownRows
  <1>1. CASE UNCHANGED <<life, advisory, pc, todo, cur>>
    BY <1>1
  <1>2. CASE Web
    <2>1. UNCHANGED <<advisory, pc, todo, cur>>
      BY ZenonT(60), <1>2 DEF Web, AddInvitee, DeleteInvite, Close, Setup, Reply, Stop, Start, locals
    <2>2. ASSUME NEW i \in Invites, life[i] # "absent" PROVE life'[i] # "absent"
      <3>1. ASSUME NEW h \in Hangouts, NEW S \in SUBSET InvitesOf(h), NEW Bad \in SUBSET S, Setup(h, S, Bad)
            PROVE  life'[i] # "absent"
        BY <2>2, <3>1 DEF Setup
      <3> QED
        BY <1>2, <2>2, <3>1 DEF Web, AddInvitee, DeleteInvite, Close, Reply, Stop, Start, TablesOK
    <2> QED
      BY <2>1, <2>2 DEF HasCandidate, Claiming, Holding
  <1>3. ASSUME NEW w \in Workers, Crash(w) PROVE KnownRows'
    BY <1>3 DEF Crash, Leave, Unlocked, db, InTick, Claiming, Holding, Places
  <1>4. ASSUME NEW w \in Workers, Restart(w) PROVE KnownRows'
    BY <1>4 DEF Restart, db, InTick, Claiming, Holding, Places
  <1>5. ASSUME NEW w \in Workers, LoseAdvisory(w) PROVE KnownRows'
    BY <1>5 DEF LoseAdvisory, db, locals, InTick, Claiming, Holding, Places
  <1> QED
    BY <1>1, <1>2, <1>3, <1>4, <1>5, KnownRowsSweep DEF Next, Tick, vars, db, locals

LEMMA KnownRowsAlways == Spec => [](IInv /\ KnownRows)
  <1>1. Init => IInv /\ KnownRows
    BY TypeInit, SafetyInit, NamesAssumption DEF IInv, Init, KnownRows, Claiming, Holding
  <1>2. IInv /\ KnownRows /\ [Next]_vars => (IInv /\ KnownRows)'
    BY SafetyStep, KnownRowsStep DEF IInv
  <1> QED
    BY <1>1, <1>2, PTL DEF Spec

\* A tick in progress can take its next step, unless it waits to store a result
\* for the row lock of another tick, which can take its own; and the advisory lock
\* is held by ticks in progress only (services.py:822-958, locks.py:26-56).
THEOREM TicksGoOn ==
  Spec => [](\A w \in Workers :
               /\ advisory = w => pc[w] \in InTick
               /\ pc[w] \in InTick =>
                    Ready(w) \/ \E v \in Workers \ {w} : cur[v] = cur[w] /\ pc[v] \in Claiming /\ Ready(v))
  <1> DEFINE Moves(w) ==
        /\ advisory = w => pc[w] \in InTick
        /\ pc[w] \in InTick =>
             Ready(w) \/ \E v \in Workers \ {w} : cur[v] = cur[w] /\ pc[v] \in Claiming /\ Ready(v)
  <1>1. ASSUME IInv, KnownRows, NEW w \in Workers, pc[w] \in InTick, ~Ready(w)
        PROVE  \E v \in Workers \ {w} : cur[v] = cur[w] /\ pc[v] \in Claiming /\ Ready(v)
    <2>1. pc[w] # "next"
      BY <1>1 DEF Ready, KnownRows, IInv, TypeInv, TablesOK, LocalsOK
    <2>2. pc[w] \in Holding /\ cur[w] \in Invites
      BY <1>1, <2>1 DEF InTick, Places, Ready, Holding, IInv, TypeInv, LocalsOK, HasCandidate
    <2>3. life[cur[w]] \in {"live", "gone"}
      BY <1>1, <2>2 DEF KnownRows, IInv, TypeInv, TablesOK
    <2>4. pc[w] = "result" /\ rowLock[cur[w]] # Nobody
      BY <1>1, <2>2, <2>3 DEF Ready, Holding
    <2>5. PICK v \in Workers : rowLock[cur[w]] = v
      BY <2>2, <2>4, <1>1 DEF IInv, TypeInv, LocksOK
    <2>6. pc[v] \in Claiming /\ cur[v] = cur[w]
      BY <1>1, <2>2, <2>5 DEF IInv, LockInv, LockOwned
    <2> QED
      BY <2>4, <2>6 DEF Claiming, Ready
  <1>2. IInv /\ KnownRows => \A w \in Workers : Moves(w)
    BY <1>1 DEF KnownRows
  <1> QED
    BY <1>2, KnownRowsAlways, PTL

\* The steps a tick still has to take, at most: six for each row it knows.
Place == [scan |-> 2, next |-> 1, reread |-> 5, decide |-> 4, dispatch |-> 3, result |-> 2,
          idle |-> 0, down |-> 0]

TickEffort(w) ==
  6 * Cardinality(IF pc[w] = "scan" THEN Invites ELSE IF pc[w] \in InTick THEN todo[w] ELSE {})
    + Place[pc[w]]

LEMMA FewerRows ==
  ASSUME NEW S \in SUBSET Invites
  PROVE  /\ Cardinality(S) \in Nat /\ Cardinality(S) <= Cardinality(Invites)
         /\ Cardinality(Invites) \in Nat
         /\ \A i \in S : Cardinality(S \ {i}) = Cardinality(S) - 1
  BY RowsAssumption, FS_Subset, FS_CardinalityType, FS_RemoveElement

LEMMA TickEffortIsNat ==
  ASSUME TypeInv, NEW w \in Workers
  PROVE  TickEffort(w) \in Nat /\ (pc[w] \in InTick => TickEffort(w) > 0)
  <1> DEFINE S == IF pc[w] = "scan" THEN Invites ELSE IF pc[w] \in InTick THEN todo[w] ELSE {}
  <1>1. S \subseteq Invites
    BY DEF TypeInv, LocalsOK
  <1>2. Cardinality(S) \in Nat
    BY <1>1, FewerRows
  <1>3. Place[pc[w]] \in Nat /\ (pc[w] \in InTick => Place[pc[w]] > 0)
    BY DEF TypeInv, LocalsOK, Places, Place, InTick
  <1> HIDE DEF S
  <1>4. TickEffort(w) = 6 * Cardinality(S) + Place[pc[w]]
    BY DEF TickEffort, S
  <1> QED
    BY <1>2, <1>3, <1>4

\* A worker's step is a step of its own tick.
LEMMA TickEffortFalls ==
  ASSUME TypeInv, NEW w \in Workers, Sweep(w), ~BeginTick(w)
  PROVE  TickEffort(w)' < TickEffort(w)
  <1> DEFINE n == Cardinality(todo[w])
  <1>1. /\ todo[w] \subseteq Invites /\ n \in Nat
        /\ Cardinality(Invites) \in Nat
    BY FewerRows DEF TypeInv, LocalsOK
  <1>2. pc[w] \in InTick => TickEffort(w) > 0 /\ TickEffort(w) \in Nat
    BY TickEffortIsNat
  <1>3. CASE Scan(w)
    <2>1. pc[w] = "scan" /\ pc'[w] = "next" /\ todo'[w] = Candidates
      BY <1>3 DEF Scan, TypeInv, LocalsOK
    <2>2. Cardinality(Candidates) \in Nat /\ Cardinality(Candidates) <= Cardinality(Invites)
      BY FewerRows DEF Candidates
    <2>3. TickEffort(w) = 6 * Cardinality(Invites) + 2 /\ TickEffort(w)' = 6 * Cardinality(Candidates) + 1
      BY <2>1 DEF TickEffort, Place, InTick, Places
    <2> QED
      BY <1>1, <2>2, <2>3
  <1>4. CASE Claim(w) \/ ClaimMisses(w)
    <2>1. PICK i \in todo[w] : todo' = [todo EXCEPT ![w] = @ \ {i}]
      BY <1>4 DEF Claim, ClaimMisses
    <2>2. pc[w] = "next" /\ pc'[w] \in {"next", "reread"} /\ todo'[w] = todo[w] \ {i}
      BY <1>4, <2>1 DEF Claim, ClaimMisses, TypeInv, LocalsOK
    <2>3. Cardinality(todo'[w]) = n - 1
      BY <1>1, <2>2, FewerRows
    <2>4. TickEffort(w) = 6 * n + 1 /\ TickEffort(w)' \in {6 * (n - 1) + 1, 6 * (n - 1) + 5}
      BY <1>1, <2>2, <2>3 DEF TickEffort, Place, InTick, Places
    <2> QED
      BY <1>1, <2>4
  <1>5. CASE Leave(w, "idle") /\ pc[w] \in InTick
    <2>1. pc'[w] = "idle"
      BY <1>5 DEF Leave, TypeInv, LocalsOK
    <2>2. TickEffort(w)' = 0
      BY <2>1, FS_EmptySet DEF TickEffort, Place, InTick
    <2> QED
      BY <1>2, <1>5, <2>2
  <1>6. CASE ReRead(w) \/ AdvanceClock(w) \/ Dispatch(w)
    BY <1>1, <1>6 DEF ReRead, AdvanceClock, Dispatch, TickEffort, Place, InTick, Places, TypeInv, LocalsOK
  <1>7. CASE Continue(w) /\ pc[w] \in {"decide", "result"}
    BY <1>1, <1>7 DEF Continue, TickEffort, Place, InTick, Places, TypeInv, LocalsOK
  <1> QED
    BY <1>3, <1>4, <1>5, <1>6, <1>7
    DEF Sweep, CandidateGone, RowGone, SendRaised, EndTick, KeepWaiting, MarkNoResponse, StoreResult,
        InTick, Places

\* Whatever the other workers, the web handlers and the clock do to a tick
\* leaves its place and its rows alone; a crash ends it.
LEMMA TickEffortOfOthers ==
  ASSUME TypeInv, [Next]_vars, NEW w \in Workers, ~Sweep(w), pc[w] \in InTick
  PROVE  TickEffort(w)' <= TickEffort(w)
  <1>1. UNCHANGED <<pc[w], todo[w]>> \/ pc'[w] = "down"
    <2>1. CASE UNCHANGED vars \/ Tick \/ Web
      BY ZenonT(60), <2>1 DEF vars, locals, Tick, Web, AddInvitee, DeleteInvite, Close, Setup, Reply, Stop, Start
    <2>2. ASSUME NEW v \in Workers, v # w, Sweep(v) PROVE pc'[w] = pc[w] /\ todo'[w] = todo[w]
      BY <2>2 DEF Sweep, BeginTick, Scan, Claim, ClaimMisses, CandidateGone, ReRead, KeepWaiting, MarkNoResponse,
         AdvanceClock, Dispatch, RowGone, SendRaised, StoreResult, EndTick, Leave, Continue, TypeInv, LocalsOK
    <2>3. ASSUME NEW v \in Workers, Crash(v) \/ Restart(v) \/ LoseAdvisory(v)
          PROVE  UNCHANGED <<pc[w], todo[w]>> \/ pc'[w] = "down"
      BY <2>3 DEF Crash, Restart, LoseAdvisory, Leave, locals, InTick, TypeInv, LocalsOK
    <2> QED
      BY <2>1, <2>2, <2>3 DEF Next
  <1>2. TickEffort(w) \in Nat
    BY TickEffortIsNat
  <1>3. CASE pc'[w] = pc[w] /\ todo'[w] = todo[w]
    <2>1. TickEffort(w)' = TickEffort(w)
      BY <1>3 DEF TickEffort
    <2> QED
      BY <1>2, <2>1
  <1>4. CASE pc'[w] = "down"
    <2>1. TickEffort(w)' = 0
      BY <1>4, FS_EmptySet DEF TickEffort, Place, InTick
    <2> QED
      BY <1>2, <2>1
  <1> QED
    BY <1>1, <1>3, <1>4

\* A tick ends after six steps for each invite of the table and two more,
\* whatever the other workers and the handlers do: with TicksGoOn, what
\* AdvisoryReturns asks of the sweep apart from the scheduling.
THEOREM TicksEnd ==
  Spec => /\ [](\A w \in Workers : TickEffort(w) \in Nat /\ (pc[w] \in InTick => TickEffort(w) > 0))
          /\ [][\A w \in Workers :
                  /\ Sweep(w) /\ ~BeginTick(w) => TickEffort(w)' < TickEffort(w)
                  /\ ~Sweep(w) /\ pc[w] \in InTick => TickEffort(w)' <= TickEffort(w)]_vars
  <1> DEFINE Counted == \A w \in Workers : TickEffort(w) \in Nat /\ (pc[w] \in InTick => TickEffort(w) > 0)
             Falls   == \A w \in Workers :
                          /\ Sweep(w) /\ ~BeginTick(w) => TickEffort(w)' < TickEffort(w)
                          /\ ~Sweep(w) /\ pc[w] \in InTick => TickEffort(w)' <= TickEffort(w)
  <1>1. IInv => Counted
    BY TickEffortIsNat DEF IInv
  <1>2. IInv /\ [Next]_vars => [Falls]_vars
    BY TickEffortFalls, TickEffortOfOthers DEF IInv
  <1> QED
    BY <1>1, <1>2, Invariance, PTL DEF Spec

Decides(w) == KeepWaiting(w) \/ MarkNoResponse(w) \/ AdvanceClock(w)

\* A tick never passes over an invite that it has claimed and that is due at the
\* tick's time by the row as it stands: its clock moves or it is given up
\* (services.py:877-913).  This is the step on which DueIsServed rests.
THEOREM DueIsDecided ==
  Spec => [][\A w \in Workers :
               Decides(w) /\ last[cur[w]] # NoClock /\ now[w] >= last[cur[w]] + Window(sent[cur[w]])
               => last'[cur[w]] = now[w] \/ status'[cur[w]] = "no_response"]_vars
  <1> DEFINE Decided == \A w \in Workers :
               Decides(w) /\ last[cur[w]] # NoClock /\ now[w] >= last[cur[w]] + Window(sent[cur[w]])
               => last'[cur[w]] = now[w] \/ status'[cur[w]] = "no_response"
  <1>1. ASSUME IInv, NEW w \in Workers, Decides(w), last[cur[w]] # NoClock,
               now[w] >= last[cur[w]] + Window(sent[cur[w]])
        PROVE  last'[cur[w]] = now[w] \/ status'[cur[w]] = "no_response"
    <2>1. pc[w] = "decide" /\ cur[w] \in Invites
      BY <1>1 DEF Decides, KeepWaiting, MarkNoResponse, AdvanceClock, IInv, TypeInv, LocalsOK, HasCandidate
    <2>2. seen[w].sent = sent[cur[w]] /\ seen[w].last = last[cur[w]]
      BY <1>1, <2>1 DEF IInv, LockInv, ReadFresh
    <2>3. DueBySeen(w)
      BY <1>1, <2>2 DEF DueBySeen
    <2>4. MarkNoResponse(w) \/ AdvanceClock(w)
      BY <1>1, <2>3 DEF Decides, KeepWaiting
    <2> QED
      BY <1>1, <2>1, <2>4 DEF MarkNoResponse, AdvanceClock, Claimed, IInv, TypeInv, TablesOK
  <1>2. IInv => Decided
    BY <1>1
  <1>3. IInv /\ [Next]_vars => [Decided]_vars
    BY <1>2
  <1> QED
    BY <1>3, Invariance, PTL DEF Spec

=============================================================================
