------------------------------- MODULE Inbound -------------------------------
(***************************************************************************)
(* The inbound SMS webhook (app/routers/webhooks.py) with the part of      *)
(* _handle_inbound_sms that concerns one phone: its do-not-contact row and *)
(* its RSVP.  inbound_sms is a coroutine that calls blocking code: while a *)
(* request waits for a row lock the event loop of the web process waits    *)
(* with it.  Only get_db's end runs in a thread, and it takes one more     *)
(* turn of the loop to get there.  The admin's opt-out forms and the       *)
(* setups of hangouts run in threads from the start.  Of a setup only the  *)
(* invite rows are here that its transaction keeps locked while it texts,  *)
(* because an answer waits for its row; HangoutSetup has the rest of it.   *)
(***************************************************************************)
EXTENDS Integers, FiniteSets, Replies

CONSTANTS
  Requests,     \* concurrent webhook calls
  Admins,       \* concurrent admin forms
  Setups,       \* concurrent setups of hangouts
  Phones, None,
  Bodies,       \* texts that arrive
  PhoneCeiling, GlobalCeiling,   \* sms_rate_limit_*_per_minute
  Keep,         \* windows are pruned after this many minutes (an hour)
  MaxClock, MaxArrivals, MaxForms, MaxFaults   \* bounds of the instances

ASSUME InboundAssumption ==
  /\ {PhoneCeiling, GlobalCeiling} \subseteq Nat \ {0}
  /\ {Keep, MaxClock, MaxArrivals, MaxForms, MaxFaults} \subseteq Nat
  /\ Bodies \subseteq Seq(STRING)
  /\ None \notin Requests \cup Phones /\ "global" \notin Phones

VARIABLES
  clock,        \* the minute
  count,        \* sms_rate_limits: the committed counters, 0 is no row
  lock,         \* the request whose transaction holds a counter's row
  listed,       \* sms_opt_outs: the row's id of each phone, 0 is no row
  nextId,
  rsvp,         \* status of the invite a reply of the phone is matched to
  loop,         \* the request that runs on the event loop
  pc, req,      \* each webhook call
  form,         \* each admin form
  pass,         \* each setup: how far it is and whose invites it has locked
  arrivals, forms, faults,   \* bound counters
  admitted,     \* history: requests let through, per counter
  stopped,      \* history: phones whose STOP was taken and not revoked
  latest        \* history: the phone's last text, processed with no form of an
                \* admin during it or since

tables  == <<count, listed, nextId, rsvp>>
calls   == <<loop, pc, req>>
bounds  == <<arrivals, forms, faults>>
history == <<admitted, stopped, latest>>
vars == <<clock, tables, lock, calls, form, pass, bounds, history>>

Buckets == Phones \cup {"global"}
Windows == 0..MaxClock
Ceiling(k) == IF k[1] = "global" THEN GlobalCeiling ELSE PhoneCeiling

Blank == [phone |-> None, body |-> <<>>, window |-> 0, prune |-> {}, found |-> 0]
NoForm == [at |-> "idle", phone |-> None, id |-> 0]
NoPass == [at |-> "none", rows |-> {}]

-----------------------------------------------------------------------------
Init ==
  /\ clock = 0
  /\ count = [k \in Buckets \X Windows |-> 0]
  /\ lock  = [k \in Buckets \X Windows |-> None]
  /\ listed = [p \in Phones |-> 0] /\ nextId = 1
  /\ rsvp = [p \in Phones |-> "pending"]
  /\ loop = None
  /\ pc  = [r \in Requests |-> "idle"]
  /\ req = [r \in Requests |-> Blank]
  /\ form = [a \in Admins |-> NoForm]
  /\ pass = [s \in Setups |-> NoPass]
  /\ arrivals = 0 /\ forms = 0 /\ faults = 0
  /\ admitted = [k \in Buckets \X Windows |-> 0]
  /\ stopped = {}
  /\ latest = [p \in Phones |-> <<>>]

Goto(r, place) == pc' = [pc EXCEPT ![r] = place]

\* The counters of r's window.
Mine(r)   == <<req[r].phone, req[r].window>>
Global(r) == <<"global", req[r].window>>

Held(r) == {k \in DOMAIN lock : lock[k] = r}

\* Seeded fault: the row all phones share stays locked.
Freed_Own(r) == [k \in DOMAIN lock |-> IF lock[k] = r /\ k[1] # "global" THEN None ELSE lock[k]]

\* Ending the transaction frees its row locks.
Freed(r) == [k \in DOMAIN lock |-> IF lock[k] = r THEN None ELSE lock[k]]

\* A statement that writes the rows K waits for their locks, and the loop with it.
Writes(r, K) ==
  /\ \A k \in K : lock[k] \in {None, r}
  /\ lock' = [k \in DOMAIN lock |-> IF k \in K THEN r ELSE lock[k]]

-----------------------------------------------------------------------------
(* The webhook.                                                            *)

\* A call arrives; its session is made in a thread, its body awaited.  A call
\* with a bad signature, bad JSON or no sender is answered before it reaches
\* the database.
Arrive(r) ==
  /\ pc[r] = "idle" /\ arrivals < MaxArrivals
  /\ arrivals' = arrivals + 1
  /\ \E p \in Phones, b \in Bodies :
       req' = [req EXCEPT ![r] = [Blank EXCEPT !.phone = p, !.body = b]]
  /\ Goto(r, "ready")
  /\ UNCHANGED <<clock, tables, lock, loop, form, pass, forms, faults, history>>

\* The loop turns to r, which reads the clock.
Enter(r) ==
  /\ pc[r] = "ready" /\ loop = None
  /\ loop' = r
  /\ req' = [req EXCEPT ![r].window = clock]
  /\ Goto(r, "prune")
  /\ UNCHANGED <<clock, tables, lock, form, pass, bounds, history>>

Old(r) == {k \in DOMAIN count : count[k] > 0 /\ k[2] + Keep < req[r].window}

\* _rate_limited deletes old windows first.
Prune(r) ==
  /\ pc[r] = "prune"
  /\ Writes(r, Old(r))
  /\ req' = [req EXCEPT ![r].prune = Old(r)]
  /\ Goto(r, "phone")
  /\ UNCHANGED <<clock, tables, loop, form, pass, bounds, history>>

\* Seeded fault: one request too many.
Over_ByOne(k) == count[k] > Ceiling(k)

\* The upsert's new count is over the ceiling.
Over(k) == count[k] + 1 > Ceiling(k)

\* The handler returns 429, its transaction open; the loop is free again.
Refused(r) == Goto(r, "left") /\ loop' = None

\* The upsert of the phone's counter.
CountPhone(r) ==
  /\ pc[r] = "phone"
  /\ Writes(r, {Mine(r)})
  /\ \/ Over(Mine(r)) /\ Refused(r)
     \/ ~Over(Mine(r)) /\ Goto(r, "global") /\ UNCHANGED loop
  /\ UNCHANGED <<clock, tables, req, form, pass, bounds, history>>

Counted(r) ==
  [k \in DOMAIN count |-> IF k \in {Mine(r), Global(r)} THEN count[k] + 1
                          ELSE IF k \in req[r].prune THEN 0 ELSE count[k]]

\* The upsert of the global counter, and the commit of both.
CountGlobal(r) ==
  /\ pc[r] = "global"
  /\ lock[Global(r)] \in {None, r}
  /\ \/ /\ Over(Global(r)) /\ Refused(r)
        /\ Writes(r, {Global(r)})
        /\ UNCHANGED <<count, admitted>>
     \/ /\ ~Over(Global(r)) /\ Goto(r, "handle") /\ UNCHANGED loop
        /\ count' = Counted(r)
        /\ lock' = Freed(r)
        /\ admitted' = [k \in DOMAIN count |->
                          IF k \in {Mine(r), Global(r)} THEN admitted[k] + 1 ELSE admitted[k]]
  /\ UNCHANGED <<clock, listed, nextId, rsvp, req, form, pass, bounds, stopped, latest>>

\* The list is asked for the phone's row: by record_sms_opt_out, or by
\* clear_sms_opt_out.
Lookup(r) ==
  /\ pc[r] = "handle"
  /\ req' = [req EXCEPT ![r].found = listed[req[r].phone]]
  /\ stopped' = IF IsOptOut(req[r].body) /\ listed[req[r].phone] > 0
                THEN stopped \cup {req[r].phone} ELSE stopped
  /\ Goto(r, "finish")
  /\ UNCHANGED <<clock, tables, lock, loop, form, pass, bounds, admitted, latest>>

Answer(body) == Intent(body) \in {"confirm", "decline"}

\* No setup keeps the row of the person's invite locked.
RowFree(p) == \A s \in Setups : p \notin pass[s].rows

\* The answer of the person to the invite, if the text is one.
Answered(p, body) ==
  [rsvp EXCEPT ![p] = CASE Intent(body) = "confirm" -> "confirmed"
                        [] Intent(body) = "decline" -> "declined"
                        [] OTHER -> @]

\* The last text of the phone, unless a form changed the list during it.
Processed(r) ==
  LET p == req[r].phone IN
  latest' = [latest EXCEPT ![p] = IF listed[p] = req[r].found THEN req[r].body ELSE <<>>]

\* The handler has returned; its session is still to be closed.
Returned(r) ==
  /\ Goto(r, "left")
  /\ loop' = None
  /\ UNCHANGED <<clock, count, lock, req, form, pass, bounds, admitted>>

\* Seeded fault: a STOP is recorded in a new row each time.
FinishStop_Anew(r) ==
  LET p == req[r].phone IN
  /\ pc[r] = "finish" /\ IsOptOut(req[r].body)
  /\ Answer(req[r].body) => RowFree(p)
  /\ req[r].found > 0 \/ listed[p] = 0
  /\ listed' = [listed EXCEPT ![p] = nextId]
  /\ nextId' = nextId + 1
  /\ stopped' = stopped \cup {p}
  /\ rsvp' = Answered(p, req[r].body)
  /\ Processed(r)
  /\ Returned(r)

\* A STOP is recorded and the invite declined, in one commit; the UPDATE of the
\* invite waits for its row, and the loop with it.
FinishStop(r) ==
  LET p == req[r].phone IN
  /\ pc[r] = "finish" /\ IsOptOut(req[r].body)
  /\ Answer(req[r].body) => RowFree(p)
  /\ req[r].found > 0 \/ listed[p] = 0
  /\ listed' = IF req[r].found > 0 THEN listed ELSE [listed EXCEPT ![p] = nextId]
  /\ nextId' = IF req[r].found > 0 THEN nextId ELSE nextId + 1
  /\ stopped' = IF req[r].found > 0 THEN stopped ELSE stopped \cup {p}
  /\ rsvp' = Answered(p, req[r].body)
  /\ Processed(r)
  /\ Returned(r)

\* An admin listed the phone between the look-up and the INSERT: the unique
\* phone is violated, the request ends in a 500 and is rolled back.
StopFails(r) ==
  LET p == req[r].phone IN
  /\ pc[r] = "finish" /\ IsOptOut(req[r].body)
  /\ req[r].found = 0 /\ listed[p] > 0
  /\ stopped' = stopped \cup {p}
  /\ Returned(r)
  /\ UNCHANGED <<listed, nextId, rsvp, latest>>

\* Seeded fault: a DELETE by phone.
Removed_ByPhone(p, id) == IF id > 0 THEN [listed EXCEPT ![p] = 0] ELSE listed

\* A DELETE by id: the row found, if it is still there.
Removed(p, id) == IF listed[p] = id THEN [listed EXCEPT ![p] = 0] ELSE listed

\* START clears the list and leaves the invite alone.
FinishStart(r) ==
  LET p == req[r].phone IN
  /\ pc[r] = "finish" /\ Intent(req[r].body) = "opt_in"
  /\ listed' = Removed(p, req[r].found)
  /\ stopped' = IF listed[p] = req[r].found THEN stopped \ {p} ELSE stopped
  /\ Processed(r)
  /\ Returned(r)
  /\ UNCHANGED <<nextId, rsvp>>

\* YES and NO answer the invite, and wait for its row; INFO and the rest only read.
FinishReply(r) ==
  LET p == req[r].phone IN
  /\ pc[r] = "finish" /\ ~IsOptOut(req[r].body) /\ Intent(req[r].body) # "opt_in"
  /\ Answer(req[r].body) => RowFree(p)
  /\ rsvp' = Answered(p, req[r].body)
  /\ Processed(r)
  /\ Returned(r)
  /\ UNCHANGED <<listed, nextId, stopped>>

\* Once more the loop turns to r, to hand the end of its session to a thread.
HandOver(r) ==
  /\ pc[r] = "left" /\ loop = None
  /\ Goto(r, "closing")
  /\ UNCHANGED <<clock, tables, lock, loop, req, form, pass, bounds, history>>

\* db.close() ends what is left of the transaction.
CloseSession(r) ==
  /\ pc[r] = "closing"
  /\ lock' = Freed(r)
  /\ req' = [req EXCEPT ![r] = Blank]
  /\ Goto(r, "idle")
  /\ UNCHANGED <<clock, tables, loop, form, pass, bounds, history>>

-----------------------------------------------------------------------------
(* The admin's opt-out forms.                                              *)

AddLook(a, p) ==
  /\ form[a].at = "idle" /\ forms < MaxForms
  /\ forms' = forms + 1
  /\ form' = IF listed[p] > 0 THEN form
             ELSE [form EXCEPT ![a] = [at |-> "add", phone |-> p, id |-> 0]]
  /\ UNCHANGED <<clock, tables, lock, calls, pass, arrivals, faults, history>>

\* The INSERT, or the violation of the unique phone.
Add(a) ==
  LET p == form[a].phone IN
  /\ form[a].at = "add"
  /\ form' = [form EXCEPT ![a] = NoForm]
  /\ \/ /\ listed[p] = 0
        /\ listed' = [listed EXCEPT ![p] = nextId] /\ nextId' = nextId + 1
        /\ latest' = [latest EXCEPT ![p] = <<>>]
     \/ listed[p] > 0 /\ UNCHANGED <<listed, nextId, latest>>
  /\ UNCHANGED <<clock, count, rsvp, lock, calls, pass, bounds, admitted, stopped>>

RemoveLook(a, p) ==
  /\ form[a].at = "idle" /\ forms < MaxForms
  /\ forms' = forms + 1
  /\ listed[p] > 0
  /\ form' = [form EXCEPT ![a] = [at |-> "remove", phone |-> p, id |-> listed[p]]]
  /\ UNCHANGED <<clock, tables, lock, calls, pass, arrivals, faults, history>>

Remove(a) ==
  LET p == form[a].phone IN
  /\ form[a].at = "remove"
  /\ form' = [form EXCEPT ![a] = NoForm]
  /\ listed' = Removed(p, form[a].id)
  /\ stopped' = IF listed[p] = form[a].id THEN stopped \ {p} ELSE stopped
  /\ latest' = [latest EXCEPT ![p] = <<>>]
  /\ UNCHANGED <<clock, count, nextId, rsvp, lock, calls, pass, bounds, admitted>>

-----------------------------------------------------------------------------
(* The setups, in the same bound as the forms: one counts as two.          *)

\* The flush of a new person's row writes what the texts so far changed, and
\* its locks stay with the transaction.
FlushPass(s) ==
  /\ \/ pass[s].at = "none" /\ forms + 2 <= MaxForms /\ forms' = forms + 2
     \/ pass[s].at = "texting" /\ UNCHANGED forms
  /\ \E S \in SUBSET Phones :
       /\ S # {} /\ \A p \in S : RowFree(p)
       /\ pass' = [pass EXCEPT ![s] = [at |-> "texting", rows |-> @.rows \cup S]]
  /\ UNCHANGED <<clock, tables, lock, calls, form, arrivals, faults, history>>

\* The commit of the texted rows: asked again, failed, or skipped as opted out.
CommitPass(s) ==
  /\ pass[s].at = "texting"
  /\ \E status \in [pass[s].rows -> {"pending", "declined"}] :
       rsvp' = [p \in Phones |-> IF p \in pass[s].rows THEN status[p] ELSE rsvp[p]]
  /\ latest' = [p \in Phones |-> IF p \in pass[s].rows THEN <<>> ELSE latest[p]]
  /\ pass' = [pass EXCEPT ![s] = NoPass]
  /\ UNCHANGED <<clock, count, listed, nextId, lock, calls, form, bounds, admitted, stopped>>

\* A send raises: the transaction stays open until get_db's end.
RaisePass(s) ==
  /\ pass[s].at = "texting"
  /\ pass' = [pass EXCEPT ![s].at = "raised"]
  /\ UNCHANGED <<clock, tables, lock, calls, form, bounds, history>>

\* The loop takes the error and hands the end of the session to a thread.
HandOverPass(s) ==
  /\ pass[s].at = "raised" /\ loop = None
  /\ pass' = [pass EXCEPT ![s].at = "closing"]
  /\ UNCHANGED <<clock, tables, lock, calls, form, bounds, history>>

\* db.close() rolls the rows back.
ClosePass(s) ==
  /\ pass[s].at = "closing"
  /\ pass' = [pass EXCEPT ![s] = NoPass]
  /\ UNCHANGED <<clock, tables, lock, calls, form, bounds, history>>

-----------------------------------------------------------------------------
Tick ==
  /\ clock < MaxClock /\ clock' = clock + 1
  /\ UNCHANGED <<tables, lock, calls, form, pass, bounds, history>>

\* The web process dies and is started again; its sessions end.
Crash ==
  /\ faults < MaxFaults /\ faults' = faults + 1
  /\ loop' = None
  /\ pc'   = [r \in Requests |-> "idle"]
  /\ req'  = [r \in Requests |-> Blank]
  /\ form' = [a \in Admins |-> NoForm]
  /\ pass' = [s \in Setups |-> NoPass]
  /\ lock' = [k \in DOMAIN lock |-> None]
  /\ UNCHANGED <<clock, tables, arrivals, forms, history>>

Step(r) ==
  \/ Enter(r) \/ Prune(r) \/ CountPhone(r) \/ CountGlobal(r) \/ Lookup(r)
  \/ FinishStop(r) \/ StopFails(r) \/ FinishStart(r) \/ FinishReply(r)
  \/ HandOver(r) \/ CloseSession(r)

Next ==
  \/ Tick \/ Crash
  \/ \E r \in Requests : Arrive(r) \/ Step(r)
  \/ \E a \in Admins : \/ Add(a) \/ Remove(a)
                       \/ \E p \in Phones : AddLook(a, p) \/ RemoveLook(a, p)
  \/ \E s \in Setups : \/ FlushPass(s) \/ CommitPass(s) \/ RaisePass(s)
                       \/ HandOverPass(s) \/ ClosePass(s)

Spec == Init /\ [][Next]_vars

-----------------------------------------------------------------------------
(* Properties.                                                             *)

Places == {"idle", "ready", "prune", "phone", "global", "handle", "finish", "left", "closing"}

\* Types; one request runs on the loop, only a request that the limiter has in
\* hand, or that it refused, holds counters, and no two setups hold one row.
TypeOK ==
  /\ clock \in Windows
  /\ count \in [Buckets \X Windows -> Nat] /\ admitted \in [Buckets \X Windows -> Nat]
  /\ lock \in [Buckets \X Windows -> Requests \cup {None}]
  /\ nextId \in Nat \ {0} /\ listed \in [Phones -> 0..(nextId - 1)]
  /\ rsvp \in [Phones -> {"pending", "confirmed", "declined"}]
  /\ pc \in [Requests -> Places]
  /\ \A r \in Requests :
       /\ pc[r] \in {"prune", "phone", "global", "handle", "finish"} <=> loop = r
       /\ Held(r) # {} => pc[r] \in {"phone", "global", "left", "closing"}
  /\ stopped \subseteq Phones
  /\ pass \in [Setups -> [at : {"none", "texting", "raised", "closing"}, rows : SUBSET Phones]]
  /\ \A s, t \in Setups : s # t => pass[s].rows \cap pass[t].rows = {}

\* No counter's window lets more requests through than its ceiling, and the
\* rows say how many it let through: a refused request leaves no count behind
\* (webhooks.py:21-51, the missing commit of a refusal).
CeilingHolds ==
  \A k \in Buckets \X Windows :
    /\ admitted[k] <= Ceiling(k)
    /\ count[k] > 0 => count[k] = admitted[k]

\* A phone that sent STOP stays on the list until it sends START or an admin
\* takes it off, also when the STOP raced an admin's form and was answered with
\* an error (services.py:72-113, web.py:1030-1057).
StopHolds == \A p \in stopped : listed[p] > 0

\* A text that is delivered again, with nothing of that phone in between,
\* changes neither the answer nor the list (there is no MessageSid to tell).
RetryHarmless ==
  [][\A r \in Requests :
       pc[r] = "finish" /\ pc'[r] = "left" /\ latest[req[r].phone] = req[r].body
       => rsvp' = rsvp /\ listed' = listed]_vars

\* A text means what the keyword tables of docs/sms-and-rsvp.md say, and a STOP
\* is a decline whatever follows it; "optin" and "stopforever" with more words
\* are left to the code, which knows them only alone (messages.py:582-679).
IntentAsDocumented ==
  arrivals = 0 /\ clock = 0 /\ forms = 0 =>
    \A b \in Corpus :
      /\ Intent(b) # Documented(b) => Len(b) > 1 /\ First(b) \in {"optin", "stopforever"}
      /\ IsOptOut(b) => Intent(b) = "decline"

\* The counters that the next statement of a call writes.
Wanted(r) ==
  CASE pc[r] = "prune" -> Old(r) [] pc[r] = "phone" -> {Mine(r)} [] pc[r] = "global" -> {Global(r)}
    [] OTHER -> {}

\* The loop waits for a counter that only the loop itself can set free.
BehindACounter ==
  \E r, q \in Requests : loop = r /\ pc[q] = "left" /\ \E k \in Wanted(r) : lock[k] = q

\* The next statement of a call writes its invite's row.
WantsRow(r) ==
  /\ pc[r] = "finish" /\ Answer(req[r].body)
  /\ IsOptOut(req[r].body) => req[r].found > 0 \/ listed[req[r].phone] = 0

\* The loop waits for the row of an invite that setup s has locked.
WaitsFor(s) == \E r \in Requests : loop = r /\ WantsRow(r) /\ req[r].phone \in pass[s].rows

Raised == {s \in Setups : pass[s].at = "raised"}

\* That row is a setup's which raised, and whose session only the loop can close,
\* or another's, which may in turn come to wait for one that raised.
BehindARow == Raised # {} /\ \E s \in Setups : WaitsFor(s) /\ pass[s].at # "closing"

Standstill == BehindACounter \/ BehindARow

\* "The limiter then protects against signed floods and abuse of the publicly
\* reachable endpoint" (webhooks.py:197-199).
NeverStandstill == ~Standstill

\* A call that is under way waits for nothing but the loop, the counters and the
\* row of its invite.
Ready(r) ==
  /\ pc[r] # "idle" /\ (pc[r] \in {"ready", "left"} => loop = None)
  /\ \A k \in Wanted(r) : lock[k] \in {None, r}
  /\ WantsRow(r) => RowFree(req[r].phone)

\* Nothing else stops the web process: whatever calls, forms and transactions
\* are under way, one of the calls can go on, or the loop waits for a setup that
\* needs no turn of the loop to free the row.
NoOtherStandstill ==
  (\E r \in Requests : pc[r] # "idle") =>
    \/ Standstill
    \/ \E r \in Requests : Ready(r)
    \/ \E s \in Setups : WaitsFor(s) /\ (pass[s].at = "closing" \/ Raised = {})

=============================================================================
