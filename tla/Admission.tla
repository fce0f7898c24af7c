------------------------------ MODULE Admission ------------------------------
(***************************************************************************)
(* How a signed-in request is let in: the middleware resolves a Clerk user *)
(* to an email (cached), looks the email up in access_grants, and hands    *)
(* the request to a page, which may provision the user's workspace, or to  *)
(* an admin form, which edits access_grants.  Requests run concurrently in *)
(* one web process; each query and each commit is a step.                  *)
(***************************************************************************)
EXTENDS Integers, FiniteSets, Sequences, Functions

CONSTANTS
  Requests,       \* request slots of the web process
  Users,          \* Clerk user ids
  Emails,
  None,           \* no address, no user, no slug
  Bootstrap,      \* ACCESS_BOOTSTRAP_ADMINS: the valid addresses, normalised
  TTL,            \* _EMAIL_CACHE_TTL_SECONDS, in clock units
  MaxClock, MaxEdits, MaxChanges   \* bounds of the instances

ASSUME AddressesAssumption == None \notin Emails \cup Users /\ Bootstrap \in Seq(Emails)
ASSUME LimitsAssumption == TTL \in Nat \ {0} /\ {MaxClock, MaxEdits, MaxChanges} \subseteq Nat

VARIABLES
  clock,
  clerk,        \* Clerk's answer for each user: verified primary address
  ceased,       \* history: when an address last stopped being the user's
  up,           \* is the web process running?
  cache,        \* _email_cache of the process
  grants,       \* access_grants, a set of rows
  nextId,
  workspaces,   \* committed workspaces, each with the owner inserted with it
  flushed,      \* the slug a request has inserted and not committed
  pc, req,      \* each request: where it is, what it asked and what it read
  edits, changes, \* bound counters
  overtaken     \* history: an admin edit was committed since the request's guard

vars == <<clock, clerk, ceased, up, cache, grants, nextId, workspaces, flushed, pc, req,
          edits, changes, overtaken>>

Roles == {"admin", "member"}
NoRow == [id |-> 0, email |-> None, role |-> "member"]
Empty == [until |-> 0, email |-> None]

Grant(email) == IF \E g \in grants : g.email = email
                THEN CHOOSE g \in grants : g.email = email ELSE NoRow
RowOf(id)    == IF \E g \in grants : g.id = id THEN CHOOSE g \in grants : g.id = id ELSE NoRow
Admins       == {g \in grants : g.role = "admin"}

\* What a request may ask for.
Ops == [kind : {"page"}] \cup [kind : {"put"}, email : Emails, role : Roles]
       \cup [kind : {"drop"}, id : 1..(nextId - 1)]

Blank == [user |-> None, op |-> [kind |-> "page"], t0 |-> 0, email |-> None, row |-> NoRow]

-----------------------------------------------------------------------------
\* A fresh database, before the first start.  Clerk gives an address to one user.
Init ==
  /\ clock = 0
  /\ clerk \in [Users -> Emails] /\ IsInjective(clerk)
  /\ ceased = [u \in Users |-> [e \in Emails |-> -TTL]]
  /\ up = FALSE
  /\ cache = [u \in Users |-> Empty]
  /\ grants = {} /\ nextId = 1
  /\ workspaces = {}
  /\ flushed = [r \in Requests |-> None]
  /\ pc  = [r \in Requests |-> "idle"]
  /\ req = [r \in Requests |-> Blank]
  /\ edits = 0 /\ changes = 0
  /\ overtaken = [r \in Requests |-> FALSE]

\* The addresses that get a new row; an address listed twice gets two, since
\* the pending row is invisible to the query (autoflush is off).
Missing == {i \in DOMAIN Bootstrap : Grant(Bootstrap[i]) = NoRow}

Doubled == \E i, j \in Missing : i # j /\ Bootstrap[i] = Bootstrap[j]

\* sync_bootstrap_admins creates and promotes in one commit, and is rolled back
\* as a whole when a row violates the unique address; the process starts anyway.
Start ==
  /\ ~up /\ up' = TRUE
  /\ grants' = IF Doubled THEN grants
               ELSE {[g EXCEPT !.role = IF g.email \in Range(Bootstrap) THEN "admin" ELSE @] : g \in grants}
                    \cup {[id |-> nextId + i - 1, email |-> Bootstrap[i], role |-> "admin"] : i \in Missing}
  /\ nextId' = nextId + Len(Bootstrap)
  /\ UNCHANGED <<clock, clerk, ceased, cache, workspaces, flushed, pc, req, edits, changes, overtaken>>

\* The process ends: cache, sessions and requests are gone.
Stop ==
  /\ up /\ up' = FALSE
  /\ changes < MaxChanges /\ changes' = changes + 1
  /\ cache'   = [u \in Users |-> Empty]
  /\ flushed' = [r \in Requests |-> None]
  /\ pc'  = [r \in Requests |-> "idle"]
  /\ req' = [r \in Requests |-> Blank]
  /\ overtaken' = [r \in Requests |-> FALSE]
  /\ UNCHANGED <<clock, clerk, ceased, grants, nextId, workspaces, edits>>

\* The user's verified primary address changes at Clerk.
ChangeEmail(u) ==
  /\ changes < MaxChanges /\ changes' = changes + 1
  /\ \E e \in (Emails \ Range(clerk)) \cup ({None} \ {clerk[u]}) : clerk' = [clerk EXCEPT ![u] = e]
  /\ ceased' = IF clerk[u] = None THEN ceased
               ELSE [ceased EXCEPT ![u][clerk[u]] = clock]
  /\ UNCHANGED <<clock, up, cache, grants, nextId, workspaces, flushed, pc, req, edits, overtaken>>

Tick ==
  /\ clock < MaxClock /\ clock' = clock + 1
  /\ UNCHANGED <<clerk, ceased, up, cache, grants, nextId, workspaces, flushed, pc, req,
                 edits, changes, overtaken>>

-----------------------------------------------------------------------------
(* The middleware.                                                         *)

Goto(r, place) == pc' = [pc EXCEPT ![r] = place]

\* Seeded fault: the connection returns to its pool with the transaction open.
Ended_Pooled(r) == flushed

\* The session closes, which rolls back what is not committed.
Ended(r) == [flushed EXCEPT ![r] = None]

\* The request is answered and its session closes.
Answer(r) ==
  /\ Goto(r, "idle")
  /\ req' = [req EXCEPT ![r] = Blank]
  /\ flushed' = Ended(r)
  /\ overtaken' = [overtaken EXCEPT ![r] = FALSE]

\* An exception leaves the handler: the session closes, the client gets a 500.
Fail(r) ==
  /\ Goto(r, "error")
  /\ flushed' = Ended(r)
  /\ UNCHANGED <<req, overtaken>>

Rest == <<clock, clerk, ceased, up, edits, changes>>

Reply500(r) ==
  /\ pc[r] = "error"
  /\ Answer(r)
  /\ UNCHANGED <<Rest, cache, grants, nextId, workspaces>>

Cached(u) == cache[u].until > clock

\* A request arrives; its email comes from the cache or has to be fetched.
Arrive(r) ==
  /\ up /\ pc[r] = "idle"
  /\ \E u \in Users, op \in Ops :
       /\ op.kind = "page" \/ edits < MaxEdits
       /\ edits' = IF op.kind = "page" THEN edits ELSE edits + 1
       /\ req' = [req EXCEPT ![r] = [user |-> u, op |-> op, t0 |-> clock, row |-> NoRow,
                                     email |-> IF Cached(u) THEN cache[u].email ELSE None]]
       /\ Goto(r, IF Cached(u) THEN "role" ELSE "fetch")
  /\ UNCHANGED <<clock, clerk, ceased, up, changes, cache, grants, nextId, workspaces, flushed,
                 overtaken>>

\* Clerk answers in another thread, or cannot be reached (503).
Fetch(r) ==
  /\ pc[r] = "fetch"
  /\ Goto(r, "fetched")
  /\ req' = [req EXCEPT ![r].email = clerk[req[r].user]]
  /\ UNCHANGED <<Rest, cache, grants, nextId, workspaces, flushed, overtaken>>

FetchFails(r) ==
  /\ pc[r] = "fetch"
  /\ Answer(r)
  /\ UNCHANGED <<Rest, cache, grants, nextId, workspaces>>

\* Seeded fault: the entry's lifetime starts when it is stored.
Lifetime_FromStore(r) == clock + TTL

Lifetime(r) == req[r].t0 + TTL

\* The answer is cached, unless there is none (403).
Store(r) ==
  /\ pc[r] = "fetched"
  /\ \/ /\ req[r].email = None
        /\ Answer(r) /\ UNCHANGED cache
     \/ /\ req[r].email # None
        /\ cache' = [cache EXCEPT ![req[r].user] = [until |-> Lifetime(r), email |-> req[r].email]]
        /\ Goto(r, "role") /\ UNCHANGED <<req, flushed, overtaken>>
  /\ UNCHANGED <<Rest, grants, nextId, workspaces>>

\* The grant decides: 403, a page, or an admin form for an admin.
Role(r) ==
  LET g == Grant(req[r].email) IN
  /\ pc[r] = "role"
  /\ \/ /\ g = NoRow \/ (req[r].op.kind # "page" /\ g.role # "admin")
        /\ Answer(r)
     \/ /\ g # NoRow /\ req[r].op.kind = "page"
        /\ Goto(r, "member") /\ UNCHANGED <<req, flushed, overtaken>>
     \/ /\ g # NoRow /\ req[r].op.kind # "page" /\ g.role = "admin"
        /\ Goto(r, "read") /\ UNCHANGED <<req, flushed, overtaken>>
  /\ UNCHANGED <<Rest, cache, grants, nextId, workspaces>>

-----------------------------------------------------------------------------
(* Admin -> Access: access_grant_create and access_grant_delete.           *)

\* The form's row is read: nothing to do, a guard to pass, or a write.
ReadGrant(r) ==
  LET op == req[r].op
      g  == IF op.kind = "put" THEN Grant(op.email) ELSE RowOf(op.id)
  IN
  /\ pc[r] = "read"
  /\ \/ /\ IF op.kind = "put" THEN g # NoRow /\ g.role = op.role ELSE g = NoRow
        /\ Answer(r)
     \/ /\ IF op.kind = "put" THEN g = NoRow \/ g.role # op.role ELSE g # NoRow
        /\ req' = [req EXCEPT ![r].row = g]
        /\ Goto(r, IF g.role = "admin" THEN "guard" ELSE "write")
        /\ overtaken' = [overtaken EXCEPT ![r] = FALSE]
        /\ UNCHANGED flushed
  /\ UNCHANGED <<Rest, cache, grants, nextId, workspaces>>

\* Seeded fault: an off-by-one in the guard.
LastAdmin_Zero == Cardinality(Admins) <= 0

LastAdmin == Cardinality(Admins) <= 1

\* The last admin is never demoted or removed - as far as this count can tell.
Guard(r) ==
  /\ pc[r] = "guard"
  /\ \/ LastAdmin /\ Answer(r)
     \/ /\ ~LastAdmin /\ Goto(r, "write")
        /\ overtaken' = [overtaken EXCEPT ![r] = FALSE]
        /\ UNCHANGED <<req, flushed>>
  /\ UNCHANGED <<Rest, cache, grants, nextId, workspaces>>

\* A commit that changes the table overtakes the other forms in flight.
Edited(r) ==
  /\ Goto(r, "idle")
  /\ req' = [req EXCEPT ![r] = Blank]
  /\ overtaken' = [q \in Requests |-> q # r /\ pc[q] \in {"guard", "write"}]
  /\ UNCHANGED flushed

\* The UPDATE, INSERT or DELETE and its commit.  The UPDATE of a row that is
\* gone and the INSERT of an address added meanwhile fail; a DELETE does not.
WriteGrant(r) ==
  LET op  == req[r].op
      row == RowOf(req[r].row.id)
  IN
  /\ pc[r] = "write"
  /\ \/ /\ op.kind = "put" /\ req[r].row # NoRow /\ row # NoRow
        /\ grants' = (grants \ {row}) \cup {[row EXCEPT !.role = op.role]}
        /\ Edited(r) /\ UNCHANGED nextId
     \/ /\ op.kind = "put" /\ req[r].row = NoRow /\ Grant(op.email) = NoRow
        /\ grants' = grants \cup {[id |-> nextId, email |-> op.email, role |-> op.role]}
        /\ nextId' = nextId + 1
        /\ Edited(r)
     \/ /\ op.kind = "put" /\ IF req[r].row = NoRow THEN Grant(op.email) # NoRow ELSE row = NoRow
        /\ Fail(r) /\ UNCHANGED <<grants, nextId>>
     \/ /\ op.kind = "drop"
        /\ grants' = grants \ {row}
        /\ Edited(r) /\ UNCHANGED nextId
  /\ UNCHANGED <<Rest, cache, workspaces>>

-----------------------------------------------------------------------------
(* Workspaces: current_workspace and _provision_workspace.                 *)

OwnedBy(u) == {ws \in workspaces : ws.owner = u}

\* The membership is read: the request acts in it, or provisions one.
Member(r) ==
  /\ pc[r] = "member"
  /\ \/ OwnedBy(req[r].user) # {} /\ Answer(r)
     \/ OwnedBy(req[r].user) = {} /\ Goto(r, "insert") /\ UNCHANGED <<req, flushed, overtaken>>
  /\ UNCHANGED <<Rest, cache, grants, nextId, workspaces>>

\* Seeded fault: the slug is not derived from the user, so nothing conflicts.
SlugTaken_Random(u) == FALSE

SlugTaken(u) == \E ws \in workspaces : ws.slug = u

SlugPending(u) == u \in Range(flushed)

\* flush() of the INSERT.  It waits for another transaction's insert of the
\* same slug; if that commits, this one raises IntegrityError outside the try.
Insert(r) ==
  LET u == req[r].user IN
  /\ pc[r] = "insert"
  /\ ~SlugPending(u) /\ ~SlugTaken(u)
  /\ flushed' = [flushed EXCEPT ![r] = u]
  /\ Goto(r, "commit")
  /\ UNCHANGED <<Rest, cache, grants, nextId, workspaces, req, overtaken>>

InsertFails(r) ==
  /\ pc[r] = "insert" /\ SlugTaken(req[r].user)
  /\ Fail(r)
  /\ UNCHANGED <<Rest, cache, grants, nextId, workspaces>>

\* Workspace and owner membership are committed together.
Provision(r) ==
  /\ pc[r] = "commit"
  /\ workspaces' = workspaces \cup {[id |-> Cardinality(workspaces) + 1, slug |-> flushed[r], owner |-> req[r].user]}
  /\ Answer(r)
  /\ UNCHANGED <<Rest, cache, grants, nextId>>

-----------------------------------------------------------------------------
Handle(r) ==
  \/ Arrive(r) \/ Fetch(r) \/ FetchFails(r) \/ Store(r) \/ Role(r)
  \/ ReadGrant(r) \/ Guard(r) \/ WriteGrant(r)
  \/ Member(r) \/ Insert(r) \/ InsertFails(r) \/ Provision(r) \/ Reply500(r)

Next ==
  \/ Start \/ Stop \/ Tick
  \/ \E u \in Users : ChangeEmail(u)
  \/ \E r \in Requests : Handle(r)

Spec == Init /\ [][Next]_vars

-----------------------------------------------------------------------------
(* Properties.                                                             *)

Places == {"idle", "fetch", "fetched", "role", "read", "guard", "write", "member", "insert",
           "commit", "error"}

Row == [id : Nat, email : Emails \cup {None}, role : Roles]

\* Types, and what the tables and sessions promise: grant ids and addresses
\* are unique, and a slug is inserted and uncommitted exactly between flush
\* and commit.
TypeOK ==
  /\ clock \in Nat /\ up \in BOOLEAN /\ nextId \in Nat /\ {edits, changes} \subseteq Nat
  /\ clerk \in [Users -> Emails \cup {None}]
  /\ ceased \in [Users -> [Emails -> Int]]
  /\ cache \in [Users -> [until : Nat, email : Emails \cup {None}]]
  /\ grants \subseteq Row
  /\ \A g \in grants : g.id \in 1..(nextId - 1) /\ g.email # None
  /\ \A g, h \in grants : (g.id = h.id \/ g.email = h.email) => g = h
  /\ \A r \in Requests :
       /\ pc[r] \in Places
       /\ req[r].email \in Emails \cup {None} /\ req[r].row \in Row /\ req[r].t0 \in Nat
       /\ flushed[r] = IF pc[r] = "commit" THEN req[r].user ELSE None
       /\ overtaken[r] \in BOOLEAN

\* An identity is at most TTL old.  A request past the lookup acts under an
\* address that was the user's verified primary address less than TTL before it
\* arrived, however long Clerk took to answer and in whatever order concurrent
\* lookups stored their answers (access.py:133-150).
FreshIdentity ==
  \A r \in Requests :
    pc[r] \in Places \ {"idle", "fetch", "fetched"} =>
      \/ req[r].email = clerk[req[r].user]
      \/ ceased[req[r].user][req[r].email] > req[r].t0 - TTL

\* Concurrent first requests of one user make one workspace, and a slug is
\* never shared (tenancy.py:63-92).
OneWorkspace ==
  \A v, w \in workspaces : (v.owner = w.owner \/ v.slug = w.slug) => v = w

\* The last admin is lost only to a race: the form that removes it counted the
\* admins before another form's edit was committed (web.py:1109, 1137).  Alone,
\* no sequence of forms, sign-ins and restarts empties the list.
LastAdminGuarded ==
  [][Admins # {} /\ Admins' = {} => \E r \in Requests : pc[r] = "write" /\ overtaken[r]]_vars

\* docs/tenancy.md:117: the UI refuses to remove or demote the last admin.
AnAdminRemains == [][Admins # {} => Admins' # {}]_vars

=============================================================================
