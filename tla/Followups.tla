------------------------------ MODULE Followups ------------------------------
(***************************************************************************)
(* The follow-up sweep (process_followups) as N worker processes run it    *)
(* against one database, with every web handler that writes the rows the   *)
(* sweep reads: setup, the draft form, close, contact deletion, inbound    *)
(* SMS.                                                                    *)
(*                                                                         *)
(* A sweep is not one transaction.  It takes a lock-free snapshot of       *)
(* candidates, then for each one: locks the row (FOR UPDATE SKIP LOCKED),  *)
(* re-reads it, decides, and commits the new clock; only then is the SMS   *)
(* sent, and a last commit stores the result.  Each of these is an action, *)
(* so other workers, web handlers and crashes may come between any two.    *)
(***************************************************************************)
EXTENDS Integers, Sequences, FiniteSets

CONSTANTS
  Workers,       \* worker processes (hangout-worker units)
  Invites,       \* ids of hangout_invites rows, a set of numbers
  Hangouts, HangoutOf,
  Phones, PhoneOf,
  Delays,        \* settings.followup_hour_list, in clock units
  MaxFollowups,  \* settings.max_followups
  MinDelay,      \* a lower bound of Delays, used by the properties
  FailureLimit,  \* FOLLOWUP_FAILURE_LIMIT
  NoClock,       \* last_outbound_at IS NULL
  Nobody,        \* a lock without a holder
  MaxClock, MaxFaults, MaxRequests   \* bounds of the instances

\* FOLLOWUP_HOURS may be any list: what the sweep needs is that every entry is
\* a positive delay, as in the default "24,48" (app/config.py:100).
ASSUME SettingsAssumption ==
  /\ Delays \in Seq(Nat \ {0}) /\ Len(Delays) > 0
  /\ MaxFollowups \in Nat
  /\ FailureLimit \in Nat \ {0}
  /\ MinDelay \in Nat \ {0}
  /\ \A k \in 1..Len(Delays) : MinDelay <= Delays[k]

ASSUME NamesAssumption ==
  /\ Invites \subseteq Nat
  /\ HangoutOf \in [Invites -> Hangouts]
  /\ PhoneOf \in [Invites -> Phones]
  /\ NoClock \notin Nat
  /\ Nobody \notin Workers

\* A table has finitely many rows.
ASSUME RowsAssumption == IsFiniteSet(Invites)

ASSUME BoundsAssumption == {MaxClock, MaxFaults, MaxRequests} \subseteq Nat

VARIABLES
  clock,      \* wall-clock time
  hangout,    \* hangouts.status
  life,       \* does the hangout_invites row exist?
  status,     \* hangout_invites.status
  sent,       \* hangout_invites.followups_sent
  last,       \* hangout_invites.last_outbound_at
  streak,     \* failed message_logs rows of the invite since its last success
  optedOut,   \* sms_opt_outs
  advisory,   \* holder of the advisory lock JOB_KEYS["followups"]
  rowLock,    \* holder of the FOR UPDATE lock of each row
  pc, now, todo, cur, seen, outcome,   \* locals of each worker's tick
  faults, requests,                      \* bound counters
  texted,     \* history: claim times of the follow-ups given to the provider
  accepted,   \* history: follow-ups the provider accepted
  invited,    \* history: setup passes that texted the invitee
  lost        \* history: advisory locks lost in the middle of a tick

db      == <<hangout, life, status, sent, last, streak, optedOut>>
locals  == <<pc, now, todo, cur, seen, outcome>>
history == <<texted, accepted, invited, lost>>
vars    == <<clock, db, advisory, rowLock, locals, faults, requests, history>>

HangoutStatus == {"draft", "active", "closed"}
InviteStatus ==
  {"pending", "confirmed", "remind", "declined", "no_response", "failed_send"}
Outcomes == {"ok", "failed", "raised", "dnc"}
Clocks   == Nat \cup {NoClock}

-----------------------------------------------------------------------------
(* The sweep's parameters.                                                 *)

Budget == IF MaxFollowups < Len(Delays) THEN MaxFollowups ELSE Len(Delays)

\* The final follow-up gets the last delay as its own answer window.
Grace == Delays[Len(Delays)]

\* Seeded fault: a spent budget is resolved in the pass that spent it.
Window_NoGrace(k) == IF k < Budget THEN Delays[k + 1] ELSE 0

\* Delay that follows the k-th follow-up, then the grace period.
Window(k) == IF k < Budget THEN Delays[k + 1] ELSE Grace

\* The failure streak only matters up to the limit, so it saturates there.
Bump(n) == IF n < FailureLimit THEN n + 1 ELSE n

InvitesOf(h) == {i \in Invites : HangoutOf[i] = h}
Active(i)    == hangout[HangoutOf[i]] = "active"
Waiting(i)   == status[i] \in {"pending", "remind"}

\* A writer of the row waits for the FOR UPDATE lock of a sweep.
Writable(S) == \A i \in S : rowLock[i] = Nobody

NoRead == [sent |-> 0, last |-> NoClock]

-----------------------------------------------------------------------------
Init ==
  /\ clock = 0
  /\ hangout = [h \in Hangouts |-> "draft"]
  /\ life    = [i \in Invites |-> "absent"]
  /\ status  = [i \in Invites |-> "pending"]
  /\ sent    = [i \in Invites |-> 0]
  /\ last    = [i \in Invites |-> NoClock]
  /\ streak  = [i \in Invites |-> 0]
  /\ optedOut = {}
  /\ advisory = Nobody
  /\ rowLock = [i \in Invites |-> Nobody]
  /\ pc      = [w \in Workers |-> "idle"]
  /\ now     = [w \in Workers |-> 0]
  /\ todo    = [w \in Workers |-> {}]
  /\ cur     = [w \in Workers |-> NoClock]
  /\ seen    = [w \in Workers |-> NoRead]
  /\ outcome = [w \in Workers |-> "ok"]
  /\ faults = 0 /\ requests = 0
  /\ texted   = [i \in Invites |-> {}]
  /\ accepted = [i \in Invites |-> 0]
  /\ invited  = [i \in Invites |-> 0]
  /\ lost = 0

-----------------------------------------------------------------------------
(* One worker's tick.                                                      *)

\* Seeded fault: the unlock misses the connection that holds the lock.
Unlocked_Stranded(w) == advisory

Unlocked(w) == IF advisory = w THEN Nobody ELSE advisory

\* Ending the transaction ends its row locks.
Released(w) == [i \in Invites |-> IF rowLock[i] = w THEN Nobody ELSE rowLock[i]]

\* The tick is over: its locals are garbage, db.close() frees the row lock and
\* advisory_lock's finally frees the advisory lock.
Leave(w, place) ==
  /\ pc'      = [pc EXCEPT ![w] = place]
  /\ now'     = [now EXCEPT ![w] = 0]
  /\ todo'    = [todo EXCEPT ![w] = {}]
  /\ cur'     = [cur EXCEPT ![w] = NoClock]
  /\ seen'    = [seen EXCEPT ![w] = NoRead]
  /\ outcome' = [outcome EXCEPT ![w] = "ok"]
  /\ rowLock' = Released(w)
  /\ advisory' = Unlocked(w)

\* A commit ends the claim of the current candidate; the sweep goes on.
Continue(w) ==
  /\ pc'      = [pc EXCEPT ![w] = "next"]
  /\ cur'     = [cur EXCEPT ![w] = NoClock]
  /\ seen'    = [seen EXCEPT ![w] = NoRead]
  /\ outcome' = [outcome EXCEPT ![w] = "ok"]
  /\ rowLock' = Released(w)
  /\ UNCHANGED <<now, todo, advisory>>

\* A tick that finds the lock taken is skipped and changes nothing.
BeginTick(w) ==
  /\ pc[w] = "idle" /\ advisory = Nobody
  /\ advisory' = w
  /\ pc' = [pc EXCEPT ![w] = "scan"]
  /\ UNCHANGED <<clock, db, rowLock, now, todo, cur, seen, outcome, faults, requests, history>>

\* Seeded fault: the query also drops the invites whose budget is spent.
Candidates_Unspent ==
  {i \in Invites : life[i] = "live" /\ Active(i) /\ Waiting(i) /\ sent[i] < Budget}

\* The candidate snapshot, taken without locks.
Candidates == {i \in Invites : life[i] = "live" /\ Active(i) /\ Waiting(i)}

Scan(w) ==
  /\ pc[w] = "scan"
  /\ now'  = [now EXCEPT ![w] = clock]
  /\ todo' = [todo EXCEPT ![w] = Candidates]
  /\ pc'   = [pc EXCEPT ![w] = "next"]
  /\ UNCHANGED <<clock, db, advisory, rowLock, cur, seen, outcome, faults, requests, history>>

\* Seeded fault: a plain SELECT.
Locked_Plain(w, i) == rowLock

Locked(w, i) == [rowLock EXCEPT ![i] = w]

\* FOR UPDATE SKIP LOCKED obtains the row.
Claim(w) ==
  \E i \in todo[w] :
    /\ pc[w] = "next"
    /\ life[i] = "live" /\ rowLock[i] = Nobody
    /\ rowLock' = Locked(w, i)
    /\ cur'  = [cur EXCEPT ![w] = i]
    /\ todo' = [todo EXCEPT ![w] = @ \ {i}]
    /\ pc'   = [pc EXCEPT ![w] = "reread"]
    /\ UNCHANGED <<clock, db, advisory, now, seen, outcome, faults, requests, history>>

\* Another worker holds the row, or it vanished just before the claim.
ClaimMisses(w) ==
  \E i \in todo[w] :
    /\ pc[w] = "next"
    /\ life[i] = "gone" \/ rowLock[i] # Nobody
    /\ todo' = [todo EXCEPT ![w] = @ \ {i}]
    /\ UNCHANGED <<clock, db, advisory, rowLock, pc, now, cur, seen, outcome,
                   faults, requests, history>>

\* candidate.id is refreshed after the snapshot commit: a deleted row raises
\* ObjectDeletedError, which ends the whole tick.
CandidateGone(w) ==
  /\ pc[w] = "next"
  /\ \E i \in todo[w] : life[i] = "gone"
  /\ Leave(w, "idle")
  /\ UNCHANGED <<clock, db, faults, requests, history>>

ReRead(w) ==
  /\ pc[w] = "reread"
  /\ seen' = [seen EXCEPT ![w] = [sent |-> sent[cur[w]], last |-> last[cur[w]]]]
  /\ pc'   = [pc EXCEPT ![w] = "decide"]
  /\ UNCHANGED <<clock, db, advisory, rowLock, now, todo, cur, outcome,
                 faults, requests, history>>

\* What the decision compares: this tick's clock with the re-read row.
DueBySeen(w) ==
  /\ seen[w].last # NoClock
  /\ now[w] >= seen[w].last + Window(seen[w].sent)

KeepWaiting(w) ==
  /\ pc[w] = "decide"
  /\ ~DueBySeen(w)
  /\ Continue(w)
  /\ UNCHANGED <<clock, db, faults, requests, history>>

MarkNoResponse(w) ==
  /\ pc[w] = "decide"
  /\ DueBySeen(w) /\ seen[w].sent >= Budget
  /\ status' = [status EXCEPT ![cur[w]] = "no_response"]
  /\ Continue(w)
  /\ UNCHANGED <<clock, hangout, life, sent, last, streak, optedOut, faults, requests, history>>

\* Seeded faults: the clock is left for the result's commit, or set to the
\* next due time.
Claimed_Later(w) == seen[w].last
Claimed_Ahead(w) == now[w] + Window(seen[w].sent)

Claimed(w) == now[w]

\* The claim: the clock is advanced and committed before anything is sent.
AdvanceClock(w) ==
  /\ pc[w] = "decide"
  /\ DueBySeen(w) /\ seen[w].sent < Budget
  /\ last' = [last EXCEPT ![cur[w]] = Claimed(w)]
  /\ rowLock' = Released(w)
  /\ seen' = [seen EXCEPT ![w] = NoRead]
  /\ pc' = [pc EXCEPT ![w] = "dispatch"]
  /\ UNCHANGED <<clock, hangout, life, status, sent, streak, optedOut, advisory, now, todo,
                 cur, outcome, faults, requests, history>>

\* The row is refreshed for the attempt number (kept in seen.sent), then
\* send_sms asks the do-not-contact list and then the provider.
Dispatch(w) ==
  /\ pc[w] = "dispatch"
  /\ life[cur[w]] = "live"
  /\ seen' = [seen EXCEPT ![w] = [sent |-> sent[cur[w]] + 1, last |-> NoClock]]
  /\ \/ /\ PhoneOf[cur[w]] \in optedOut
        /\ outcome' = [outcome EXCEPT ![w] = "dnc"]
        /\ UNCHANGED history
     \/ /\ PhoneOf[cur[w]] \notin optedOut
        /\ \E o \in Outcomes \ {"dnc"} :
             /\ outcome' = [outcome EXCEPT ![w] = o]
             /\ accepted' = IF o = "ok" THEN [accepted EXCEPT ![cur[w]] = @ + 1] ELSE accepted
        /\ texted' = [texted EXCEPT ![cur[w]] = @ \cup {now[w]}]
        /\ UNCHANGED <<invited, lost>>
  /\ pc' = [pc EXCEPT ![w] = "result"]
  /\ UNCHANGED <<clock, db, advisory, rowLock, now, todo, cur, faults, requests>>

\* The row was deleted after the claim (the refresh fails) or after the send
\* (the log row's foreign key or the UPDATE fails): the exception ends the tick.
RowGone(w) ==
  /\ pc[w] \in {"dispatch", "result"}
  /\ life[cur[w]] = "gone"
  /\ Leave(w, "idle")
  /\ UNCHANGED <<clock, db, faults, requests, history>>

\* Seeded fault: every attempt burns budget.
Sent_Burnt(w) == [sent EXCEPT ![cur[w]] = seen[w].sent]

\* Seeded fault: the last attempt of the budget is not counted.
Sent_ButLast(w) ==
  IF outcome[w] = "ok" /\ seen[w].sent < Budget THEN [sent EXCEPT ![cur[w]] = seen[w].sent] ELSE sent

\* followups_sent moves to the attempt number only after a success.
Sent(w) == IF outcome[w] = "ok" THEN [sent EXCEPT ![cur[w]] = seen[w].sent] ELSE sent

\* A success ends the failure streak, every other result is logged as a failure.
Logged(w) == [streak EXCEPT ![cur[w]] = IF outcome[w] = "ok" THEN 0 ELSE Bump(@)]

\* The result's commit.  Only the columns assigned here are written, so
\* whatever was committed to the others meanwhile stays.
StoreResult(w) ==
  LET i == cur[w] IN
  /\ pc[w] = "result" /\ outcome[w] # "raised"
  /\ life[i] = "live" /\ Writable({i})
  /\ sent'   = Sent(w)
  /\ streak' = Logged(w)
  /\ \/ outcome[w] = "ok" /\ UNCHANGED status
     \/ outcome[w] = "dnc" /\ status' = [status EXCEPT ![i] = "declined"]
     \/ /\ outcome[w] = "failed" /\ Bump(streak[i]) < FailureLimit
        /\ UNCHANGED status
     \/ /\ outcome[w] = "failed" /\ Bump(streak[i]) >= FailureLimit
        /\ status' = [status EXCEPT ![i] = "failed_send"]
  /\ Continue(w)
  /\ UNCHANGED <<clock, hangout, life, last, optedOut, faults, requests, history>>

\* An exception of the provider: the failure row is committed, the tick ends.
SendRaised(w) ==
  /\ pc[w] = "result" /\ outcome[w] = "raised"
  /\ life[cur[w]] = "live" /\ Writable({cur[w]})
  /\ streak' = Logged(w)
  /\ Leave(w, "idle")
  /\ UNCHANGED <<clock, hangout, life, status, sent, last, optedOut, faults, requests, history>>

EndTick(w) ==
  /\ pc[w] = "next" /\ todo[w] = {}
  /\ Leave(w, "idle")
  /\ UNCHANGED <<clock, db, faults, requests, history>>

\* The process dies: Postgres ends its sessions and with them its locks.
Crash(w) ==
  /\ pc[w] # "down" /\ faults < MaxFaults
  /\ faults' = faults + 1
  /\ Leave(w, "down")
  /\ UNCHANGED <<clock, db, requests, history>>

Restart(w) ==
  /\ pc[w] = "down"
  /\ pc' = [pc EXCEPT ![w] = "idle"]
  /\ UNCHANGED <<clock, db, advisory, rowLock, now, todo, cur, seen, outcome,
                 faults, requests, history>>

\* The dedicated connection of advisory_lock drops while the tick goes on.
LoseAdvisory(w) ==
  /\ advisory = w /\ faults < MaxFaults
  /\ faults' = faults + 1
  /\ advisory' = Nobody
  /\ lost' = lost + 1
  /\ UNCHANGED <<clock, db, rowLock, locals, requests, texted, accepted, invited>>

-----------------------------------------------------------------------------
(* The web handlers, each one committed transaction.                       *)

\* Bound: the number of web requests of a behaviour.
Request == requests < MaxRequests /\ requests' = requests + 1

\* A draft is created or saved with one more invitee.  The handler's draft
\* check is an earlier read, so the row may land on a hangout that is active.
AddInvitee(i) ==
  /\ Request
  /\ life[i] = "absent" /\ hangout[HangoutOf[i]] # "closed"
  /\ life' = [life EXCEPT ![i] = "live"]
  /\ UNCHANGED <<clock, hangout, status, sent, last, streak, optedOut, advisory, rowLock,
                 locals, faults, history>>

\* The contact is deleted (the invite cascades), or the draft form drops it.
DeleteInvite(i) ==
  /\ Request
  /\ life[i] = "live" /\ Writable({i})
  /\ life' = [life EXCEPT ![i] = "gone"]
  /\ UNCHANGED <<clock, hangout, status, sent, last, streak, optedOut, advisory, rowLock,
                 locals, faults, history>>

\* Whom a setup pass texts: everyone selected when it activates a draft; on
\* an active hangout those never texted, failed or without an answer.
SetupTexts(i) ==
  \/ ~Active(i)
  \/ life[i] = "absent"
  \/ status[i] \in {"failed_send", "no_response"}
  \/ status[i] = "pending" /\ last[i] = NoClock

\* setup_hangout with the explicit selection S.  The provider fails for Bad.
Setup(h, S, Bad) ==
  LET texts == {i \in S : SetupTexts(i)}
      left  == {i \in InvitesOf(h) \ S : life[i] = "live" /\ last[i] = NoClock}
      dnc   == {i \in texts : PhoneOf[i] \in optedOut}
      fails == dnc \cup (texts \cap Bad)
  IN
  /\ Request
  /\ hangout[h] # "closed"
  /\ S # {} /\ \A i \in S : life[i] # "gone"
  /\ Bad \subseteq texts \ dnc
  /\ Writable(texts \cup left)
  /\ hangout' = [hangout EXCEPT ![h] = "active"]
  /\ life'   = [i \in Invites |-> IF i \in S THEN "live"
                                  ELSE IF i \in left THEN "gone" ELSE life[i]]
  /\ status' = [i \in Invites |-> IF i \in dnc THEN "declined"
                                  ELSE IF i \in fails THEN "failed_send"
                                  ELSE IF i \in texts THEN "pending" ELSE status[i]]
  /\ sent'   = [i \in Invites |-> IF i \in texts THEN 0 ELSE sent[i]]
  /\ last'   = [i \in Invites |-> IF i \in texts THEN clock ELSE last[i]]
  /\ streak' = [i \in Invites |-> IF i \in fails THEN Bump(streak[i])
                                  ELSE IF i \in texts THEN 0 ELSE streak[i]]
  /\ invited' = [i \in Invites |-> IF i \in texts THEN invited[i] + 1 ELSE invited[i]]
  /\ UNCHANGED <<clock, optedOut, advisory, rowLock, locals, faults, texted, accepted, lost>>

Close(h) ==
  /\ Request
  /\ hangout[h] # "closed"
  /\ hangout' = [hangout EXCEPT ![h] = "closed"]
  /\ UNCHANGED <<clock, life, status, sent, last, streak, optedOut, advisory, rowLock,
                 locals, faults, history>>

\* Inbound SMS is matched to the active invite texted last, then the newest.
Later(i, j) ==
  \/ last[i] # NoClock /\ last[j] = NoClock
  \/ last[i] # NoClock /\ last[j] # NoClock /\ last[i] > last[j]
  \/ last[i] = last[j] /\ i > j

Matches(p) == {i \in Invites : life[i] = "live" /\ Active(i) /\ PhoneOf[i] = p}

Matched(p, i) == i \in Matches(p) /\ \A j \in Matches(p) \ {i} : Later(i, j)

\* YES or NO from phone p.
Reply(p, answer) ==
  \E i \in Invites :
    /\ Request
    /\ Matched(p, i) /\ Writable({i})
    /\ status' = [status EXCEPT ![i] = answer]
    /\ UNCHANGED <<clock, hangout, life, sent, last, streak, optedOut, advisory, rowLock,
                   locals, faults, history>>

\* STOP: the do-not-contact list, and a decline of the matched invite.
Stop(p) ==
  /\ Request
  /\ optedOut' = optedOut \cup {p}
  /\ \/ Matches(p) = {} /\ UNCHANGED status
     \/ \E i \in Invites : /\ Matched(p, i) /\ Writable({i})
                           /\ status' = [status EXCEPT ![i] = "declined"]
  /\ UNCHANGED <<clock, hangout, life, sent, last, streak, advisory, rowLock,
                 locals, faults, history>>

\* START clears the list and leaves every invite alone.
Start(p) ==
  /\ Request
  /\ p \in optedOut
  /\ optedOut' = optedOut \ {p}
  /\ UNCHANGED <<clock, hangout, life, status, sent, last, streak, advisory, rowLock,
                 locals, faults, history>>

Tick ==
  /\ clock < MaxClock
  /\ clock' = clock + 1
  /\ UNCHANGED <<db, advisory, rowLock, locals, faults, requests, history>>

-----------------------------------------------------------------------------
Sweep(w) ==
  \/ BeginTick(w) \/ Scan(w) \/ Claim(w) \/ ClaimMisses(w) \/ CandidateGone(w)
  \/ ReRead(w) \/ KeepWaiting(w) \/ MarkNoResponse(w) \/ AdvanceClock(w)
  \/ Dispatch(w) \/ RowGone(w) \/ SendRaised(w) \/ StoreResult(w) \/ EndTick(w)

Web ==
  \/ \E i \in Invites : AddInvitee(i) \/ DeleteInvite(i)
  \/ \E h \in Hangouts : \/ Close(h)
                         \/ \E S \in SUBSET InvitesOf(h) : \E Bad \in SUBSET S : Setup(h, S, Bad)
  \/ \E p \in Phones : Reply(p, "confirmed") \/ Reply(p, "declined") \/ Stop(p) \/ Start(p)

Next ==
  \/ Tick
  \/ Web
  \/ \E w \in Workers : Sweep(w) \/ Crash(w) \/ Restart(w) \/ LoseAdvisory(w)

Spec == Init /\ [][Next]_vars

\* The worker unit has Restart=always and APScheduler fires the job again after
\* every tick; a tick itself never blocks for ever.  Nothing is assumed of the
\* clock or of the web handlers.
FairSpec == Spec /\ \A w \in Workers : WF_vars(Sweep(w)) /\ WF_vars(Restart(w))

-----------------------------------------------------------------------------
(* Properties.                                                             *)

Places == {"down", "idle", "scan", "next", "reread", "decide", "dispatch", "result"}

\* Type correctness of the whole state; no stored or held time is in the future.
TypeOK ==
  /\ clock \in 0..MaxClock
  /\ hangout \in [Hangouts -> HangoutStatus]
  /\ life \in [Invites -> {"absent", "live", "gone"}]
  /\ status \in [Invites -> InviteStatus]
  /\ sent \in [Invites -> Nat]
  /\ last \in [Invites -> 0..clock \cup {NoClock}]
  /\ streak \in [Invites -> 0..FailureLimit]
  /\ optedOut \subseteq Phones
  /\ advisory \in Workers \cup {Nobody}
  /\ rowLock \in [Invites -> Workers \cup {Nobody}]
  /\ pc \in [Workers -> Places]
  /\ now \in [Workers -> 0..clock]
  /\ todo \in [Workers -> SUBSET Invites]
  /\ cur \in [Workers -> Invites \cup {NoClock}]
  /\ seen \in [Workers -> [sent : Nat, last : Clocks]]
  /\ outcome \in [Workers -> Outcomes]
  /\ faults \in Nat /\ requests \in Nat
  /\ texted \in [Invites -> SUBSET Nat]
  /\ accepted \in [Invites -> Nat]
  /\ invited \in [Invites -> Nat]
  /\ lost \in 0..faults

Apart(s, t) == s + MinDelay <= t \/ t + MinDelay <= s

\* Two follow-ups of one invite always belong to claims a whole delay apart,
\* and nobody is about to text for a claim already used: no crash, restart or
\* lost advisory lock makes two workers text for one window
\* (process_followups' claim-then-dispatch order and its SKIP LOCKED claim).
OneTextPerWindow ==
  /\ \A i \in Invites : \A s, t \in texted[i] : s # t => Apart(s, t)
  /\ \A w \in Workers : pc[w] = "dispatch" => now[w] \notin texted[cur[w]]
  /\ \A v, w \in Workers :
       /\ v # w /\ cur[v] = cur[w]
       /\ pc[v] \in {"dispatch", "result"} /\ pc[w] \in {"dispatch", "result"}
       => Apart(now[v], now[w])

\* The budget is spent only by follow-ups the provider accepted, whatever
\* outages, crashes and races happened (the comment at services.py:932).
BudgetEarned == \A i \in Invites : sent[i] <= accepted[i]

\* At most `budget` follow-ups for each time the person was invited
\* (docs/invites-and-followups.md:30).  A crash leaves one text uncounted.  A
\* lost advisory lock costs a whole budget more: the tick that goes on without
\* it stores its attempt number last, over the numbers of the ticks that came
\* after it (services.py:934, 947).
BudgetKept ==
  \A i \in Invites : accepted[i] <= Budget * (invited[i] + lost) + (faults - lost)

\* A sweep gives up on an invitee only when the stored budget is spent and the
\* stored clock is a full grace period old, judged by the row as it is when
\* the mark is written and not by the copy read before (services.py:883-900).
NoResponseIsEarned ==
  [][\A i \in Invites :
       status'[i] = "no_response" /\ status[i] # "no_response"
       => /\ sent[i] >= Budget
          /\ last[i] # NoClock /\ clock >= last[i] + Grace]_vars

\* Invite i is due at the present time.
DueNow(i) ==
  /\ life[i] = "live" /\ Active(i) /\ Waiting(i)
  /\ last[i] # NoClock
  /\ clock >= last[i] + Window(sent[i])

\* A due invite is always served in the end: its clock advances, it gets a
\* final status, or its hangout or row goes away.  A crash may cost it a
\* window but never strands it (the sweep, both locks, and Restart=always).
DueIsServed == \A i \in Invites : DueNow(i) ~> ~DueNow(i)

\* The advisory lock always comes back: no tick, crash or lost connection
\* starves every later tick (the docstring of advisory_lock).
AdvisoryReturns == \A w \in Workers : advisory = w ~> advisory # w

\* The sweep implements the promise of one text per window.
Windows == INSTANCE ReminderWindows WITH
  Times <- 0..MaxClock,
  open <- {<<cur[w], now[w]>> : w \in {v \in Workers : pc[v] = "dispatch"}}

WindowsSpec == Windows!Spec

-----------------------------------------------------------------------------
(* Statements of the documentation that the code does not keep.            *)

\* docs/invites-and-followups.md: the job selects pending or remind invites;
\* an invitee who has answered is therefore never touched by it.
AnswerStands ==
  [][\A i \in Invites :
       status[i] \in {"confirmed", "declined"} => status'[i] \notin {"no_response", "failed_send"}]_vars
=============================================================================
