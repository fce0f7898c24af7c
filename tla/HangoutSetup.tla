---------------------------- MODULE HangoutSetup ----------------------------
(***************************************************************************)
(* Setting up one hangout.  A setup pass loads the hangout, texts one      *)
(* person after another for seconds, and commits everything at the end;    *)
(* nothing is locked before.  Meanwhile other setups, draft edits, closes, *)
(* replies, the sweep and contact deletions commit.                        *)
(***************************************************************************)
EXTENDS Integers, FiniteSets, FiniteSetsExt, Functions

CONSTANTS
  Requests,     \* request slots of the web process
  People,       \* contacts of the workspace
  OptedOut,     \* those on the do-not-contact list
  None,         \* nobody
  MaxListed,    \* length of the API's profile_ids at creation
  MaxRows, MaxAsks, MaxEvents   \* bounds of the instances

ASSUME NamesAssumption == None \notin People /\ OptedOut \subseteq People /\ IsFiniteSet(People)
ASSUME BoundsAssumption == {MaxListed, MaxRows, MaxAsks, MaxEvents} \subseteq Nat

VARIABLES
  hangout,      \* its row: [status, deleted]
  rows,         \* committed hangout_invites, a set of records
  nextId,
  contacts,     \* people who are still contacts
  pc, job,      \* each request: where it is, and its session
  held,         \* rows a request has locked by a flush it has not committed; 0 is the hangout's
  stale,        \* history: was something committed since the request loaded?
  tainted,      \* history: a request committed on a stale load, or a person was listed twice
  asks, events  \* bound counters

vars == <<hangout, rows, nextId, contacts, pc, job, held, stale, tainted, asks, events>>

HangoutStatus == {"none", "draft", "active", "closed"}
InviteStatus  == {"pending", "confirmed", "declined", "no_response", "failed_send"}
Answered      == {"confirmed", "declined"}

Row == [id : Nat, person : People, status : InviteStatus, texted : BOOLEAN]

Fresh(id, p) == [id |-> id, person |-> p, status |-> "pending", texted |-> FALSE]

Ids(set)     == {x.id : x \in set}
Persons(set) == {x.person : x \in set}

\* The session of a request: the hangout's status and the rows as loaded (was),
\* the rows it works on (now), those it has texted, those it deletes, and the
\* people it has yet to look at.  A draft form writes details of the hangout that
\* have changed, and if told then goes on to a setup of wanted.
Blank == [seen |-> "none", was |-> {}, now |-> {}, sent |-> {}, drop |-> {}, todo |-> {},
          cur |-> None, detail |-> FALSE, then |-> FALSE, wanted |-> {}]

Init ==
  /\ hangout = [status |-> "none", deleted |-> FALSE]
  /\ rows = {} /\ nextId = 1
  /\ contacts = People
  /\ pc   = [r \in Requests |-> "idle"]
  /\ job  = [r \in Requests |-> Blank]
  /\ held = [r \in Requests |-> {}]
  /\ stale = [r \in Requests |-> FALSE]
  /\ tainted = FALSE
  /\ asks = 0 /\ events = 0

-----------------------------------------------------------------------------
(* Sessions.                                                               *)

Goto(r, place) == pc' = [pc EXCEPT ![r] = place]

\* A commit overtakes the requests in flight, itself excepted.
Overtakes(set) == stale' = [q \in Requests |-> q \notin set /\ pc[q] # "idle"]

\* The transaction ends without a commit: rollback, locks released.
Abandon(r) ==
  /\ Goto(r, "idle")
  /\ job'   = [job EXCEPT ![r] = Blank]
  /\ held'  = [held EXCEPT ![r] = {}]
  /\ stale' = [stale EXCEPT ![r] = FALSE]
  /\ UNCHANGED <<hangout, rows, contacts, tainted>>

Done(r)     == pc[r] = "each" /\ job[r].todo = {}
Flushing(r) == pc[r] \in {"insert", "save"} \/ Done(r)

\* Rows a flush writes: the hangout's (a form's changed details, a setup's active),
\* the changed invites that were loaded, and the deleted ones that still exist.
Changed(r)  == job[r].sent \cap Ids(job[r].was)
Hangouts(r) ==
  IF (pc[r] = "save" /\ job[r].detail) \/ (Done(r) /\ job[r].seen # "active") THEN {0} ELSE {}
Needed(r)   == Hangouts(r) \cup Changed(r) \cup (job[r].drop \cap Ids(rows))

\* Seeded fault: a lock that does not exclude.
Free_Shared(i, r) == TRUE

Free(i, r) == \A q \in Requests \ {r} : i \notin held[q]

\* An UPDATE that matches no row raises StaleDataError; a DELETE only warns.
RowGone(r) == ~(Changed(r) \subseteq Ids(rows))

\* A flush updates the hangout, then invites in the order of their keys, and
\* then deletes in that order.
NextLock(r) ==
  LET updates == Hangouts(r) \cup Changed(r)
  IN Min((IF updates \subseteq held[r] THEN Needed(r) ELSE updates) \ held[r])

Locking(r) == Flushing(r) /\ ~RowGone(r) /\ ~(Needed(r) \subseteq held[r])

LockRow(r) ==
  /\ Locking(r) /\ Free(NextLock(r), r)
  /\ held' = [held EXCEPT ![r] = @ \cup {NextLock(r)}]
  /\ UNCHANGED <<hangout, rows, nextId, contacts, pc, job, stale, tainted, asks, events>>

\* Requests that wait for each other's rows.
Deadlocked(r) ==
  \E set \in SUBSET Requests :
    /\ r \in set
    /\ \A q \in set : Locking(q) /\ \E h \in set \ {q} : NextLock(q) \in held[h]

\* Postgres aborts the transaction of one of them; a vanished row raises in the
\* flush, which rolls back itself.
Aborts(r) ==
  /\ Deadlocked(r) \/ (Flushing(r) /\ RowGone(r))
  /\ Abandon(r)
  /\ UNCHANGED <<nextId, asks, events>>

\* The web process dies with every session.
Crash ==
  /\ \E r \in Requests : pc[r] # "idle"
  /\ events < MaxEvents /\ events' = events + 1
  /\ pc'    = [r \in Requests |-> "idle"]
  /\ job'   = [r \in Requests |-> Blank]
  /\ held'  = [r \in Requests |-> {}]
  /\ stale' = [r \in Requests |-> FALSE]
  /\ UNCHANGED <<hangout, rows, nextId, contacts, tainted, asks>>

-----------------------------------------------------------------------------
(* Creation, and the requests.                                             *)

\* create_hangout inserts a row for each listed id, repeated ids included.
Create ==
  /\ hangout.status = "none"
  /\ \E n \in 0..MaxListed : \E list \in [1..n -> People] :
       /\ rows' = {Fresh(k, list[k]) : k \in 1..n}
       /\ nextId' = n + 1
       /\ tainted' = ~IsInjective(list)
  /\ hangout' = [status |-> "draft", deleted |-> FALSE]
  /\ UNCHANGED <<contacts, pc, job, held, stale, asks, events>>

Ask(r) == pc[r] = "idle" /\ hangout.status # "none" /\ asks < MaxAsks /\ asks' = asks + 1

\* hangout_update_draft loads the draft and computes _sync_draft_invitees.
LoadEdit(r) ==
  /\ Ask(r)
  /\ \E wanted \in SUBSET contacts, detail, then \in BOOLEAN :
       IF hangout.status = "draft" /\ ~hangout.deleted
       THEN /\ job' = [job EXCEPT ![r] =
                         [Blank EXCEPT !.drop = {x.id : x \in {y \in rows : y.person \notin wanted}},
                                       !.todo = wanted \ Persons(rows),
                                       !.detail = detail, !.then = then, !.wanted = wanted]]
            /\ Goto(r, "save")
            /\ UNCHANGED <<hangout, rows, contacts, held, stale, tainted>>
       ELSE Abandon(r)
  /\ UNCHANGED <<nextId, events>>

\* The commit of the draft form, whatever the hangout has become meanwhile.
SaveEdit(r) ==
  LET people == job[r].todo IN
  /\ pc[r] = "save" /\ Needed(r) \subseteq held[r]
  /\ nextId + Cardinality(people) - 1 <= MaxRows
  /\ \/ /\ people \subseteq contacts
        /\ \E ids \in [people -> nextId..(nextId + Cardinality(people) - 1)] :
             /\ IsInjective(ids)
             /\ rows' = {x \in rows : x.id \notin job[r].drop} \cup {Fresh(ids[p], p) : p \in people}
        /\ nextId' = nextId + Cardinality(people)
        /\ tainted' = (tainted \/ stale[r])
        /\ Overtakes({r})
        /\ held' = [held EXCEPT ![r] = {}]
        /\ Goto(r, IF job[r].then THEN "setup" ELSE "idle")
        /\ job' = [job EXCEPT ![r] =
                     [Blank EXCEPT !.wanted = IF job[r].then THEN job[r].wanted ELSE {}]]
        /\ UNCHANGED <<hangout, contacts>>
     \/ /\ ~(people \subseteq contacts)
        /\ Abandon(r) /\ UNCHANGED nextId
  /\ UNCHANGED <<asks, events>>

-----------------------------------------------------------------------------
(* setup_hangout.                                                          *)

\* Seeded fault: a closed hangout is set up again.
MayStart_Closed(status) == TRUE

MayStart(status) == status # "closed"

Droppable(x) == ~x.texted

\* Seeded fault: rows left out of the selection stay.
Left_Kept(set, ids) == {}

Left(set, ids) == {x \in set : x.person \notin ids /\ Droppable(x)}

\* The load, for ids, with or without an explicit selection.  Of two rows of
\* one person the dictionary keeps the one it saw last.
Load(r, ids, chosen) ==
  \/ /\ ~MayStart(hangout.status) \/ ids = {}
     /\ Abandon(r)
  \/ /\ MayStart(hangout.status) /\ ids # {}
     /\ \E last \in [Persons(rows) -> rows] :
          /\ \A p \in Persons(rows) : last[p].person = p
          /\ LET kept == Range(last)
                 gone == IF chosen THEN Left(kept, ids) ELSE {}
             IN job' = [job EXCEPT ![r] = [Blank EXCEPT !.seen = hangout.status, !.was = kept,
                                                        !.now = kept \ gone, !.drop = Ids(gone),
                                                        !.todo = ids]]
     /\ Goto(r, "each")
     /\ stale' = [stale EXCEPT ![r] = FALSE]
     /\ UNCHANGED <<hangout, rows, contacts, held, tainted>>

\* A setup of the existing invitees, or of a selection.
LoadSetup(r) ==
  /\ Ask(r)
  /\ \/ Load(r, Persons(rows), FALSE)
     \/ \E wanted \in SUBSET contacts : Load(r, wanted, TRUE)
  /\ UNCHANGED <<nextId, events>>

\* The setup that follows the draft form in the same request.
ThenSetup(r) ==
  /\ pc[r] = "setup"
  /\ Load(r, job[r].wanted \cap contacts, TRUE)
  /\ UNCHANGED <<nextId, asks, events>>

\* Seeded fault: whoever has a row is texted, answered or not.
Skipped_Never(seen, x) == FALSE

\* On an active hangout nobody is asked again who answered or is thinking.
Skipped(seen, x) ==
  /\ seen = "active"
  /\ x.status \in Answered \/ (x.status = "pending" /\ x.texted)

\* The next person of the selection.
Each(r) ==
  /\ pc[r] = "each"
  /\ \E p \in job[r].todo :
       LET mine == {x \in job[r].now : x.person = p} IN
       \/ /\ p \notin contacts \/ \E x \in mine : Skipped(job[r].seen, x)
          /\ job' = [job EXCEPT ![r].todo = @ \ {p}]
          /\ UNCHANGED pc
       \/ /\ p \in contacts /\ \A x \in mine : ~Skipped(job[r].seen, x)
          /\ job' = [job EXCEPT ![r].cur = p]
          /\ Goto(r, IF mine = {} THEN "insert" ELSE "send")
  /\ UNCHANGED <<hangout, rows, nextId, contacts, held, stale, tainted, asks, events>>

\* flush() of a new row writes and locks what has changed so far; it fails if
\* the contact is gone.
Insert(r) ==
  LET p == job[r].cur IN
  /\ pc[r] = "insert" /\ ~RowGone(r) /\ Needed(r) \subseteq held[r]
  /\ nextId <= MaxRows
  /\ \/ /\ p \in contacts
        /\ job' = [job EXCEPT ![r].now = @ \cup {Fresh(nextId, p)}]
        /\ nextId' = nextId + 1
        /\ Goto(r, "send")
        /\ UNCHANGED <<hangout, rows, contacts, held, stale, tainted>>
     \/ /\ p \notin contacts
        /\ Abandon(r) /\ UNCHANGED nextId
  /\ UNCHANGED <<asks, events>>

Outcomes(p) == IF p \in OptedOut THEN {"declined"} ELSE {"pending", "failed_send"}

Sent(x, outcome) == [x EXCEPT !.status = outcome, !.texted = TRUE]

\* send_sms answers, or raises: the pass is over, its locks are not.
Send(r) ==
  LET p == job[r].cur IN
  /\ pc[r] = "send"
  /\ \/ /\ \E x \in job[r].now, outcome \in Outcomes(p) :
             /\ x.person = p
             /\ job' = [job EXCEPT ![r].now = (@ \ {x}) \cup {Sent(x, outcome)},
                                   ![r].sent = @ \cup {x.id}, ![r].todo = @ \ {p}, ![r].cur = None]
        /\ Goto(r, "each")
        /\ UNCHANGED <<hangout, rows, contacts, held, stale, tainted>>
     \/ /\ p \notin OptedOut
        /\ Goto(r, "raised")
        /\ UNCHANGED <<hangout, rows, contacts, job, held, stale, tainted>>
  /\ UNCHANGED <<nextId, asks, events>>

\* get_db closes the session of a pass that raised, when its turn comes.
CloseSession(r) ==
  /\ pc[r] = "raised"
  /\ Abandon(r)
  /\ UNCHANGED <<nextId, asks, events>>

\* Seeded fault: the status is written whether the pass has changed it or not.
Updated_Status(x, was, now) == [x EXCEPT !.status = now.status, !.texted = now.texted]

\* The committed row after an UPDATE of the columns the pass has changed.
Updated(x, was, now) ==
  [x EXCEPT !.status = IF now.status # was.status THEN now.status ELSE @,
            !.texted = now.texted]

\* The commit: deletes, updates, inserts, and active over whatever is there -
\* unless active is what was loaded.
Commit(r) ==
  LET j       == job[r]
      new     == {x \in j.now : x.id \notin Ids(j.was)}
      changed == Changed(r)
      With(x) == CHOOSE y \in j.now : y.id = x.id
      From(x) == CHOOSE y \in j.was : y.id = x.id
  IN
  /\ Done(r) /\ ~RowGone(r) /\ Needed(r) \subseteq held[r]
  /\ rows' = {IF x.id \in changed THEN Updated(x, From(x), With(x)) ELSE x :
                x \in {y \in rows : y.id \notin j.drop}} \cup new
  /\ hangout' = IF j.seen = "active" THEN hangout ELSE [hangout EXCEPT !.status = "active"]
  /\ tainted' = (tainted \/ stale[r])
  /\ Overtakes({r})
  /\ Goto(r, "idle")
  /\ job'  = [job EXCEPT ![r] = Blank]
  /\ held' = [held EXCEPT ![r] = {}]
  /\ UNCHANGED <<nextId, contacts, asks, events>>

-----------------------------------------------------------------------------
(* What else commits meanwhile, each a transaction of its own.             *)

Other ==
  /\ hangout.status # "none"
  /\ Overtakes({})
  /\ UNCHANGED <<nextId, pc, job, held, tainted, asks>>

Event == Other /\ events < MaxEvents /\ events' = events + 1

Unlocked(i) == \A q \in Requests : i \notin held[q]
Writable(x) == Unlocked(x.id)

\* close_hangout; the web form leaves a hidden hangout alone, the API does not.
Close ==
  /\ Event /\ Unlocked(0)
  /\ hangout' = [hangout EXCEPT !.status = "closed"]
  /\ UNCHANGED <<rows, contacts>>

\* hangout_soft_delete and hangout_restore.
Hide ==
  /\ Other
  /\ hangout.status = "closed" /\ ~hangout.deleted /\ Unlocked(0)
  /\ hangout' = [hangout EXCEPT !.deleted = TRUE]
  /\ UNCHANGED <<rows, contacts, events>>

Unhide ==
  /\ Other
  /\ hangout.deleted /\ Unlocked(0)
  /\ hangout' = [hangout EXCEPT !.deleted = FALSE]
  /\ UNCHANGED <<rows, contacts, events>>

\* YES, NO or STOP: the row texted last, or an untexted one if there is no other.
Reply ==
  /\ Event
  /\ hangout.status = "active"
  /\ \E x \in rows, answer \in Answered :
       /\ x.texted \/ \A y \in rows : y.person = x.person => ~y.texted
       /\ Writable(x)
       /\ rows' = (rows \ {x}) \cup {[x EXCEPT !.status = answer]}
  /\ UNCHANGED <<hangout, contacts>>

\* process_followups gives up on a row it could lock.
GiveUp ==
  /\ Event
  /\ hangout.status = "active"
  /\ \E x \in rows :
       /\ x.status = "pending" /\ x.texted /\ Writable(x)
       /\ rows' = (rows \ {x}) \cup {[x EXCEPT !.status = "no_response"]}
  /\ UNCHANGED <<hangout, contacts>>

\* A contact is deleted with its rows; a flushed new row keeps it alive.
DeleteContact ==
  /\ Event
  /\ \E p \in contacts :
       /\ \A x \in rows : x.person = p => Writable(x)
       /\ \A r \in Requests : \A x \in job[r].now \ job[r].was :
            x.person = p => x.id \in Ids(job[r].was)
       /\ contacts' = contacts \ {p}
       /\ rows' = {x \in rows : x.person # p}
  /\ UNCHANGED hangout

-----------------------------------------------------------------------------
Step(r) ==
  \/ SaveEdit(r) \/ ThenSetup(r) \/ Each(r) \/ Insert(r) \/ Send(r) \/ Commit(r)
  \/ LockRow(r) \/ Aborts(r) \/ CloseSession(r)

Next ==
  \/ Create \/ Close \/ Hide \/ Unhide \/ Reply \/ GiveUp \/ DeleteContact \/ Crash
  \/ \E r \in Requests : LoadEdit(r) \/ LoadSetup(r) \/ Step(r)

Spec == Init /\ [][Next]_vars

-----------------------------------------------------------------------------
(* Properties.                                                             *)

Places == {"idle", "save", "setup", "each", "insert", "send", "raised"}

\* Types, and the locks: no row is locked twice, no locked row vanishes, and
\* row ids are unique.
TypeOK ==
  /\ hangout \in [status : HangoutStatus, deleted : BOOLEAN]
  /\ rows \subseteq Row
  /\ \A x, y \in rows : x.id = y.id => x = y
  /\ contacts \subseteq People /\ Persons(rows) \subseteq contacts
  /\ pc \in [Requests -> Places]
  /\ \A r \in Requests : /\ held[r] \subseteq Ids(rows) \cup {0}
                         /\ \A q \in Requests \ {r} : held[q] \cap held[r] = {}
                         /\ job[r].was \cup job[r].now \subseteq Row
                         /\ job[r].drop \cup job[r].sent \subseteq 1..(nextId - 1)
  /\ stale \in [Requests -> BOOLEAN] /\ tainted \in BOOLEAN

\* The commit of a setup, and of a draft form.
Ends(r) == \/ Done(r) /\ pc'[r] = "idle"
           \/ pc[r] = "save" /\ pc'[r] \in {"idle", "setup"}

\* "Reject if hangout is closed" (docs/invites-and-followups.md:13,
\* services.py:476): a closed hangout becomes active again only under a setup
\* that loaded it as a draft.  Asking again on an active hangout leaves a close
\* alone, however late it commits.
ClosedStays ==
  [][hangout.status = "closed" /\ hangout'.status # "closed"
       => \E r \in Requests : Ends(r) /\ stale[r] /\ job[r].seen = "draft"]_vars

\* A setup read a row that had no answer and gave it another status.
Overwrites(r, id) ==
  \E y \in job[r].was, z \in job[r].now :
    y.id = id /\ z.id = id /\ y.status \notin Answered /\ z.status # y.status

\* A request read a row as never texted and deletes it.
Drops(r, id) == id \in job[r].drop /\ \A y \in job[r].was : y.id = id => ~y.texted

\* A text that was sent stays on record, and so does the answer to it, through
\* every setup with every selection (services.py:515-558, web.py:683-700).  What
\* loses either is the contact's deletion, or a request that was overtaken: one
\* that read the row as never texted and drops it, or a setup that read it
\* without an answer, texted it and writes another status than it read.
InvitationsSurvive ==
  [][\A x \in rows : x.texted =>
       \/ x.person \notin contacts'
       \/ \E y \in rows' : /\ y.id = x.id /\ y.texted
                           /\ x.status \in Answered => y.status \in Answered
       \/ \E r \in Requests : Ends(r) /\ stale[r] /\ (Drops(r, x.id) \/ Overwrites(r, x.id))]_vars

\* Nobody sits in pending for ever (services.py:516-519): on an active hangout
\* everyone was texted or has answered, unless a request was overtaken or the
\* hangout was created with a repeated id.
NobodyForgotten ==
  hangout.status = "active" /\ ~tainted =>
    \A x \in rows : x.texted \/ x.status # "pending"

\* A setup texts nobody whose row says they were asked and may still answer, or
\* have answered (services.py:545-558), unless something overtook its load or
\* an earlier one.
NotAskedTwice ==
  [][\A r \in Requests : pc[r] = "send" /\ pc'[r] = "each" =>
       \/ stale[r] \/ tainted
       \/ \A x \in rows : x.person = job[r].cur =>
            ~x.texted \/ x.status \in {"no_response", "failed_send"}]_vars

=============================================================================
