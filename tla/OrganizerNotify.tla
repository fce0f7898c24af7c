--------------------------- MODULE OrganizerNotify ---------------------------
(***************************************************************************)
(* What one hangout tells its organizer: the interval digests, swept by N  *)
(* worker processes (process_organizer_intervals), and the alerts the web  *)
(* process sends after a reply (evaluate_organizer_threshold_for_reply).   *)
(* The two share the row's clock and its fingerprint, and neither is one   *)
(* transaction: a text goes out between two commits of its sender.  The    *)
(* web process answers inbound SMS on its one event loop, so alerts never  *)
(* overlap each other; PATCH and contact handlers run in threads.          *)
(***************************************************************************)
EXTENDS Integers, FiniteSets

CONSTANTS
  Workers,             \* worker processes
  Invitees,            \* the hangout's invites
  Special,             \* invitees with a dietary restriction or without a car
  Hours,               \* notify_interval_hours, in clock units
  Cooldown,            \* notify_threshold_cooldown_minutes
  Goal,                \* notify_confirm_goal, 0 is off
  OnlyIfChanged,       \* notify_interval_only_if_changed
  OnNewConfirm, OnDecline,
  PrintLimit,          \* what String(512) leaves for the statuses' text
  None,                \* SQL NULL; nobody
  MaxClock, MaxFaults, MaxReplies, MaxRequests   \* bounds of the instances

ASSUME OrganizerAssumption ==
  /\ Hours \in Nat \ {0}
  /\ Cooldown \in Nat /\ Goal \in Nat /\ PrintLimit \in Nat
  /\ {OnlyIfChanged, OnNewConfirm, OnDecline} \subseteq BOOLEAN
  /\ IsFiniteSet(Invitees) /\ Special \subseteq Invitees
  /\ None \notin Workers /\ None \notin Int /\ None \notin [Invitees -> STRING]
  /\ {MaxClock, MaxFaults, MaxReplies, MaxRequests} \subseteq Nat

VARIABLES
  clock,
  hangout,    \* the hangouts row
  rsvp,       \* hangout_invites.status
  advisory,   \* holder of the advisory lock JOB_KEYS["organizer"]
  rowLock,    \* holder of the row's FOR UPDATE lock
  pc, job,    \* each worker's tick
  srv,        \* the inbound handler on the event loop
  faults, replies, requests,
  told,       \* history: the statuses in the last accepted text
  blurred,    \* history: did a text overtake, or lose, its fingerprint?
  windows,    \* history: claims whose digest was handed to the provider
  goals,      \* history: accepted texts that announced the goal
  alerted,    \* history: time of the last accepted alert
  torn        \* history: was a commit that follows an accepted alert lost?

locals  == <<pc, job>>
bounds  == <<faults, replies, requests>>
history == <<told, blurred, windows, goals, alerted, torn>>
vars == <<clock, hangout, rsvp, advisory, rowLock, locals, srv, bounds, history>>

Status  == {"pending", "confirmed", "declined"}
Picture == [Invitees -> Status]

Row == [status    : {"draft", "active", "closed"},
        activated : Nat \cup {None},     \* activated_at
        notify    : BOOLEAN,             \* notify_enabled, with interval and threshold
        phone     : BOOLEAN,             \* does resolve_organizer_phone find one?
        last      : Nat \cup {None},     \* last_organizer_notify_at
        print     : Picture \cup {None}, \* last_digest_fingerprint
        goalSent  : BOOLEAN]             \* notify_confirm_goal_sent

-----------------------------------------------------------------------------
(* Helpers of services.py.                                                 *)

Confirmed(p) == {i \in Invitees : p[i] = "confirmed"}

\* hangout_digest_fingerprint names every invite and its status: the length of
\* its text grows with the answers.
Fits(p) ==
  7 * Cardinality({i \in Invitees : p[i] = "pending"}) + 9 * Cardinality(Confirmed(p))
    + 8 * Cardinality({i \in Invitees : p[i] = "declined"}) <= PrintLimit

\* threshold_cooldown_elapsed
Cooled(h) == Cooldown > 0 /\ h.last # None => clock >= h.last + Cooldown

\* The digest's time anchor: the last notice, else the activation.
Anchor(h) == IF h.last # None THEN h.last ELSE h.activated

\* A unit of work writes a column only if it changed it since it loaded it.
Printed(old, new) == IF new = old THEN hangout.print ELSE new

Idle  == [now |-> 0, anchor |-> None, print |-> None, old |-> None, body |-> None, alone |-> FALSE]
Quiet == [at |-> "idle", who |-> None, prev |-> "pending", old |-> None, body |-> None,
          urgent |-> FALSE, goal |-> FALSE, alone |-> FALSE]

\* Who is between composing a text and committing its fingerprint.
Sending == {w \in Workers : pc[w] \in {"send", "store"}}
Alerting == srv.at \in {"send", "save"}

\* From here on every text that is under way overlaps another.
Crowded == [v \in Workers |-> [job[v] EXCEPT !.alone = FALSE]]

-----------------------------------------------------------------------------
Init ==
  /\ clock = 0
  /\ hangout = [status |-> "draft", activated |-> None, notify |-> TRUE, phone |-> TRUE,
                last |-> None, print |-> None, goalSent |-> FALSE]
  /\ rsvp = [i \in Invitees |-> "pending"]
  /\ advisory = None /\ rowLock = None
  /\ pc  = [w \in Workers |-> "idle"]
  /\ job = [w \in Workers |-> Idle]
  /\ srv = Quiet
  /\ faults = 0 /\ replies = 0 /\ requests = 0
  /\ told = None /\ blurred = FALSE /\ windows = {}
  /\ goals = 0 /\ alerted = None /\ torn = FALSE

-----------------------------------------------------------------------------
(* One worker's tick.                                                      *)

Goto(w, place) == pc' = [pc EXCEPT ![w] = place]

\* advisory_lock's finally, and the end of the session's transaction.
Unlocked(w) == IF advisory = w THEN None ELSE advisory
Released(w) == IF rowLock = w THEN None ELSE rowLock

\* The model's tick has one candidate: it ends when that one is dealt with.
EndTick(w) ==
  /\ Goto(w, "idle")
  /\ job' = [job EXCEPT ![w] = Idle]
  /\ advisory' = Unlocked(w)
  /\ rowLock' = Released(w)

\* The advisory lock, the tick's clock, the snapshot taken without locks.
BeginTick(w) ==
  /\ pc[w] = "idle" /\ advisory = None
  /\ hangout.status = "active" /\ hangout.notify
  /\ advisory' = w
  /\ job' = [job EXCEPT ![w].now = clock]
  /\ Goto(w, "claim")
  /\ UNCHANGED <<clock, hangout, rsvp, rowLock, srv, bounds, history>>

\* Seeded fault: a plain SELECT.
Locked_Plain(w) == rowLock

Locked(w) == w

\* FOR UPDATE SKIP LOCKED obtains the row and reads it again, or another
\* worker owns it this tick.
Lock(w) ==
  /\ pc[w] = "claim" /\ rowLock = None
  /\ rowLock' = Locked(w)
  /\ job' = [job EXCEPT ![w].anchor = Anchor(hangout)]
  /\ Goto(w, "decide")
  /\ UNCHANGED <<clock, hangout, rsvp, advisory, srv, bounds, history>>

LockMisses(w) ==
  /\ pc[w] = "claim" /\ rowLock # None
  /\ EndTick(w)
  /\ UNCHANGED <<clock, hangout, rsvp, srv, bounds, history>>

\* The decision.  Nothing asks again whether the hangout is still active or its
\* notices still wanted.
Due(w) == job[w].now >= job[w].anchor + Hours

Pass(w) ==
  /\ pc[w] = "decide"
  /\ ~hangout.phone \/ ~Due(w)
  /\ EndTick(w)
  /\ UNCHANGED <<clock, hangout, rsvp, srv, bounds, history>>

\* Seeded fault: only the confirmed are compared.
Unchanged_Confirmed ==
  OnlyIfChanged /\ hangout.print # None /\ Confirmed(hangout.print) = Confirmed(rsvp)

Unchanged == OnlyIfChanged /\ hangout.print = rsvp

\* Nothing new to tell: the clock advances, nothing is sent.
SkipUnchanged(w) ==
  /\ pc[w] = "decide"
  /\ hangout.phone /\ Due(w) /\ Unchanged
  /\ hangout' = [hangout EXCEPT !.last = job[w].now]
  /\ EndTick(w)
  /\ UNCHANGED <<clock, rsvp, srv, bounds, history>>

\* Seeded faults: the clock is left for the commit after the send, or set to
\* the next due time.
Claimed_Later(w) == hangout.last
Claimed_Ahead(w) == job[w].now + Hours

Claimed(w) == job[w].now

\* The claim: the clock is committed before anything is sent.
Claim(w) ==
  /\ pc[w] = "decide"
  /\ hangout.phone /\ Due(w) /\ ~Unchanged
  /\ hangout' = [hangout EXCEPT !.last = Claimed(w)]
  /\ job' = [job EXCEPT ![w].anchor = None, ![w].print = rsvp]
  /\ rowLock' = Released(w)
  /\ Goto(w, "compose")
  /\ UNCHANGED <<clock, rsvp, advisory, srv, bounds, history>>

\* craft_organizer_digest reloads everything the claim's commit expired.
Compose(w) ==
  /\ pc[w] = "compose"
  /\ job' = [(IF Sending = {} THEN job ELSE Crowded) EXCEPT
              ![w].old = hangout.print, ![w].body = rsvp,
              ![w].alone = (Sending = {} /\ ~Alerting)]
  /\ srv' = [srv EXCEPT !.alone = FALSE]
  /\ Goto(w, "send")
  /\ UNCHANGED <<clock, hangout, rsvp, advisory, rowLock, bounds, history>>

\* send_sms: accepted, or refused, or an exception (whose log row is committed).
Send(w) ==
  /\ pc[w] = "send"
  /\ windows' = windows \cup {job[w].now}
  /\ \/ /\ Goto(w, "store")
        /\ told' = job[w].body /\ blurred' = TRUE
        /\ UNCHANGED <<job, advisory, rowLock>>
     \/ /\ EndTick(w)
        /\ UNCHANGED <<told, blurred>>
  /\ UNCHANGED <<clock, hangout, rsvp, srv, bounds, goals, alerted, torn>>

\* The fingerprint of an accepted digest, as the claim computed it.
Store(w) ==
  /\ pc[w] = "store" /\ rowLock = None
  /\ Fits(job[w].print)
  /\ hangout' = [hangout EXCEPT !.print = Printed(job[w].old, job[w].print)]
  /\ blurred' = ~(job[w].alone /\ job[w].body = job[w].print)
  /\ EndTick(w)
  /\ UNCHANGED <<clock, rsvp, srv, bounds, told, windows, goals, alerted, torn>>

\* The fingerprint is longer than its column: the commit raises, the tick ends.
StoreFails(w) ==
  /\ pc[w] = "store" /\ rowLock = None
  /\ ~Fits(job[w].print)
  /\ EndTick(w)
  /\ UNCHANGED <<clock, hangout, rsvp, srv, bounds, history>>

\* The process dies and its unit starts it again.
Crash(w) ==
  /\ pc[w] # "idle" /\ faults < MaxFaults
  /\ faults' = faults + 1
  /\ EndTick(w)
  /\ UNCHANGED <<clock, hangout, rsvp, srv, replies, requests, history>>

\* The dedicated connection of advisory_lock drops while the tick goes on.
LoseAdvisory(w) ==
  /\ advisory = w /\ faults < MaxFaults
  /\ faults' = faults + 1
  /\ advisory' = None
  /\ UNCHANGED <<clock, hangout, rsvp, rowLock, locals, srv, replies, requests,
                 history>>

-----------------------------------------------------------------------------
(* The reply handler, one at a time on the event loop.                     *)

\* YES or NO: the invite's new status is a commit of its own.
Reply(i, answer) ==
  /\ srv.at = "idle" /\ hangout.status = "active"
  /\ replies < MaxReplies /\ replies' = replies + 1
  /\ rsvp' = [rsvp EXCEPT ![i] = answer]
  /\ srv' = [Quiet EXCEPT !.at = "evaluate", !.who = i, !.prev = rsvp[i]]
  /\ UNCHANGED <<clock, hangout, advisory, rowLock, locals, faults, requests,
                 history>>

NewConfirm == rsvp[srv.who] = "confirmed" /\ srv.prev # "confirmed"
NewDecline == rsvp[srv.who] = "declined" /\ srv.prev # "declined"

\* Seeded fault: the flag is not consulted.
GoalHit_Again == NewConfirm /\ Goal > 0 /\ Cardinality(Confirmed(rsvp)) >= Goal

GoalHit ==
  NewConfirm /\ Goal > 0 /\ ~hangout.goalSent /\ Cardinality(Confirmed(rsvp)) >= Goal

HighPriority == (NewConfirm /\ srv.who \in Special) \/ GoalHit

Reasons == HighPriority \/ (NewConfirm /\ OnNewConfirm) \/ (NewDecline /\ OnDecline)

Wanted ==
  /\ hangout.notify /\ Reasons
  /\ hangout.phone
  /\ HighPriority \/ Cooled(hangout)

\* The hangout is loaded again; reasons, cooldown and body all come from it.
EvaluateAlert ==
  /\ srv.at = "evaluate"
  /\ \/ /\ ~Wanted
        /\ srv' = Quiet /\ UNCHANGED job
     \/ /\ Wanted
        /\ srv' = [srv EXCEPT !.at = "send", !.old = hangout.print, !.body = rsvp,
                    !.urgent = HighPriority, !.goal = GoalHit, !.alone = (Sending = {})]
        /\ job' = IF Sending = {} THEN job ELSE Crowded
  /\ UNCHANGED <<clock, hangout, rsvp, advisory, rowLock, pc, bounds, history>>

\* Accepted; or refused or raised, and then the session is rolled back.
SendAlert ==
  /\ srv.at = "send"
  /\ \/ /\ srv' = [srv EXCEPT !.at = "save"]
        /\ told' = srv.body /\ blurred' = TRUE
        /\ goals' = IF srv.goal THEN goals + 1 ELSE goals
        /\ alerted' = clock
     \/ /\ srv' = Quiet
        /\ UNCHANGED <<told, blurred, goals, alerted>>
  /\ UNCHANGED <<clock, hangout, rsvp, advisory, rowLock, locals, bounds,
                 windows, torn>>

\* Seeded fault: urgent alerts leave the clock alone.
Noted_Routine == IF srv.urgent THEN hangout.last ELSE clock

Noted == clock

SaveAlert ==
  /\ srv.at = "save" /\ rowLock = None
  /\ Fits(srv.body)
  /\ hangout' = [hangout EXCEPT !.last = Noted, !.print = Printed(srv.old, srv.body)]
  /\ blurred' = ~srv.alone
  /\ srv' = IF srv.goal THEN [Quiet EXCEPT !.at = "flag"] ELSE Quiet
  /\ UNCHANGED <<clock, rsvp, advisory, rowLock, locals, bounds, told, windows,
                 goals, alerted, torn>>

\* The fingerprint is longer than its column: the request ends in a 500.
SaveFails ==
  /\ srv.at = "save" /\ rowLock = None
  /\ ~Fits(srv.body)
  /\ srv' = Quiet
  /\ torn' = TRUE
  /\ UNCHANGED <<clock, hangout, rsvp, advisory, rowLock, locals, bounds, told,
                 blurred, windows, goals, alerted>>

FlagGoal ==
  /\ srv.at = "flag" /\ rowLock = None
  /\ hangout' = [hangout EXCEPT !.goalSent = TRUE]
  /\ srv' = Quiet
  /\ UNCHANGED <<clock, rsvp, advisory, rowLock, locals, bounds, history>>

\* The web process dies with whatever it was doing.
ServerCrash ==
  /\ faults < MaxFaults /\ faults' = faults + 1
  /\ srv' = Quiet
  /\ torn' = (torn \/ srv.at \in {"save", "flag"})
  /\ UNCHANGED <<clock, hangout, rsvp, advisory, rowLock, locals, replies, requests,
                 told, blurred, windows, goals, alerted>>

-----------------------------------------------------------------------------
(* Handlers that run in threads.                                           *)

Request == requests < MaxRequests /\ requests' = requests + 1

\* update_hangout turns the notices on or off, sets or clears the organizer.
\* Two of them may overlap, so any combination can result.
Patch ==
  /\ Request
  /\ rowLock = None
  /\ \E n, p \in BOOLEAN : hangout' = [hangout EXCEPT !.notify = n, !.phone = p]
  /\ UNCHANGED <<clock, rsvp, advisory, rowLock, locals, srv, faults, replies, history>>

\* setup_hangout activates a draft and stamps the time, once.
Activate ==
  /\ hangout.status = "draft"
  /\ hangout' = [hangout EXCEPT !.status = "active", !.activated = clock]
  /\ UNCHANGED <<clock, rsvp, advisory, rowLock, locals, srv, bounds, history>>

Close ==
  /\ Request
  /\ hangout.status # "closed" /\ rowLock = None
  /\ hangout' = [hangout EXCEPT !.status = "closed"]
  /\ UNCHANGED <<clock, rsvp, advisory, rowLock, locals, srv, faults, replies,
                 history>>

Tick ==
  /\ clock < MaxClock /\ clock' = clock + 1
  /\ UNCHANGED <<hangout, rsvp, advisory, rowLock, locals, srv, bounds, history>>

-----------------------------------------------------------------------------
Sweep(w) ==
  \/ BeginTick(w) \/ Lock(w) \/ LockMisses(w) \/ Pass(w) \/ SkipUnchanged(w) \/ Claim(w)
  \/ Compose(w) \/ Send(w) \/ Store(w) \/ StoreFails(w)

Alert == EvaluateAlert \/ SendAlert \/ SaveAlert \/ SaveFails \/ FlagGoal

Web ==
  \/ \E i \in Invitees, answer \in {"confirmed", "declined"} : Reply(i, answer)
  \/ Patch \/ Activate \/ Close

Next ==
  \/ Tick \/ Alert \/ Web \/ ServerCrash
  \/ \E w \in Workers : Sweep(w) \/ Crash(w) \/ LoseAdvisory(w)

Spec == Init /\ [][Next]_vars

-----------------------------------------------------------------------------
(* Properties.                                                             *)

WorkerPlaces == {"idle", "claim", "decide", "compose", "send", "store"}

TextPlaces == {"idle", "evaluate", "send", "save", "flag"}

\* Types, and that no stored or held time is in the future.
TypeOK ==
  /\ clock \in 0..MaxClock
  /\ hangout \in Row /\ (hangout.status = "active" => hangout.activated \in 0..clock)
  /\ hangout.last \in 0..clock \cup {None}
  /\ rsvp \in Picture
  /\ {advisory, rowLock} \subseteq Workers \cup {None}
  /\ pc \in [Workers -> WorkerPlaces]
  /\ job \in [Workers -> [now : 0..clock, anchor : 0..clock \cup {None},
                          print : Picture \cup {None}, old : Picture \cup {None},
                          body : Picture \cup {None}, alone : BOOLEAN]]
  /\ srv \in [at : TextPlaces, who : Invitees \cup {None}, prev : Status,
              old : Picture \cup {None}, body : Picture \cup {None},
              urgent : BOOLEAN, goal : BOOLEAN, alone : BOOLEAN]
  /\ {faults, replies, requests, goals} \subseteq Nat
  /\ told \in Picture \cup {None} /\ {blurred, torn} \subseteq BOOLEAN
  /\ windows \subseteq Nat
  /\ alerted \in 0..clock \cup {None}

\* Two digests are never closer than the interval, whatever workers crash,
\* lose their advisory lock or run late, and however many alerts come between
\* (the claim-then-dispatch order and SKIP LOCKED, services.py:985-1023).
DigestsApart ==
  /\ \A s, t \in windows : s # t => s + Hours <= t \/ t + Hours <= s
  /\ \A w \in Workers : pc[w] \in {"compose", "send"} => job[w].now \notin windows

\* A digest is skipped as unchanged only if the organizer's last text showed
\* exactly the present answers, unless that text was overtaken by a reply or
\* another text while it was composed, or its fingerprint was lost.
UnchangedIsKnown ==
  [][\A w \in Workers : SkipUnchanged(w) => blurred \/ told = rsvp]_vars

\* The milestone is announced twice only if a commit after the first one failed
\* (services.py:247-249, 297-299).
GoalOnce == goals > 1 => torn

\* The cooldown keeps a routine alert away from every earlier alert, urgent
\* ones included (services.py:206-237), unless that one's commit was lost.
RoutineSpaced ==
  [][SendAlert /\ srv'.at = "save" /\ ~srv.urgent =>
       torn \/ (alerted # None => clock >= alerted + Cooldown)]_vars

\* The sweep keeps the promise of the follow-up sweep: windows that lie an
\* interval apart, each used for at most one digest.  Activation, an alert and
\* an unchanged skip restart the clock.
Windows == INSTANCE ReminderWindows WITH
  Invites <- {"digest"}, MinDelay <- Hours, NoClock <- None, Times <- 0..MaxClock,
  last   <- [i \in {"digest"} |-> Anchor(hangout)],
  open   <- {<<"digest", job[w].now>> : w \in {v \in Workers : pc[v] \in {"compose", "send"}}},
  texted <- [i \in {"digest"} |-> windows]

WindowsSpec == Windows!Spec
=============================================================================
