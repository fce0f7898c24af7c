-------------------------- MODULE OrganizerSettings --------------------------
(***************************************************************************)
(* Whom the organizer's texts of a hangout go to, and whether they are on: *)
(* the account holder's defaults (app/users.py), the stamp they leave on a *)
(* new hangout, the PATCHes of the hangout, and the contacts an organizer  *)
(* is chosen from.  A request is two steps: its reads with its checks, and *)
(* its commit, which writes the columns that changed since the reads.      *)
(***************************************************************************)
EXTENDS Phones

CONSTANTS
  Ids,          \* contacts
  Texts,        \* what a client types as a number
  None, Gone,   \* no row yet, a deleted row
  Keep,         \* a field a PATCH leaves out
  Requests,     \* concurrent requests
  Options, Default,   \* INTERVAL_HOUR_OPTIONS and 6
  Hours,        \* values a client sends
  MaxCalls, MaxChanges   \* bounds of the instances

\* The numbers that are accepted.
Numbers == {p \in {Normalized(t) : t \in Texts} : Usable(p)}

ASSUME OrganizerSettingsAssumption ==
  /\ {None, Gone, Keep} \cap Ids = {} /\ None # Gone /\ None \notin Numbers
  /\ \A t \in Texts : t.digits \in Seq(0..9)
  /\ Default \in Options /\ Options \cup Hours \subseteq Nat
  /\ {MaxCalls, MaxChanges} \subseteq Nat

VARIABLES
  contact,      \* profiles.phone of each contact
  account,      \* the users row of the caller
  hangout,      \* the organizer's columns of a hangouts row
  req,          \* each request: what it does, what it read and what it will write
  calls, changes,  \* bound counters
  skewed        \* history: two PATCHes of the hangout overlapped

vars == <<contact, account, hangout, req, calls, changes, skewed>>

NoAccount == [made |-> FALSE, phone |-> None, notify |-> FALSE, hours |-> Default]
\* A request that does not ask for its users row.
NotAsked == [NoAccount EXCEPT !.made = TRUE]
NoHangout == [made |-> FALSE, org |-> None, stamp |-> None, enabled |-> FALSE, hours |-> Default]
Free == [kind |-> "idle", old |-> None, new |-> None, user |-> NoAccount, overtaken |-> FALSE]

Init ==
  /\ contact = [i \in Ids |-> None]
  /\ account = NoAccount /\ hangout = NoHangout
  /\ req = [r \in Requests |-> Free]
  /\ calls = 0 /\ changes = 0 /\ skewed = FALSE

Exists(i) == contact[i] \in Numbers

\* resolve_organizer_phone: the chosen contact's number of now, else the stamp.
Resolved(h) == IF h.org # None /\ Exists(h.org) THEN contact[h.org] ELSE h.stamp

\* clamp_choice
Clamped(h, default) == IF h \in Options THEN h ELSE default

\* Seeded fault: the whole row is written.
Written_All(row, old, new) == new

\* The columns that changed since the reads.
Written(row, old, new) == [f \in DOMAIN row |-> IF new[f] # old[f] THEN new[f] ELSE row[f]]

Begin(r, rec) ==
  /\ req[r].kind = "idle" /\ calls < MaxCalls
  /\ calls' = calls + 1
  /\ req' = [req EXCEPT ![r] = rec]
  /\ UNCHANGED <<contact, account, hangout, changes, skewed>>

Done(r) == req' = [req EXCEPT ![r] = Free]

-----------------------------------------------------------------------------
(* The account holder.                                                     *)

\* The users row is made by the first request that asks for it; its unique
\* subject fails the second of two that make it at once.
Lost(r) == ~req[r].user.made /\ account.made

\* settings_profile_save: an empty field takes the number away, an unusable one
\* is refused before anything is set.
LoadSave(r, t, notify, h) ==
  /\ t = Blank \/ Usable(Normalized(t))
  /\ Begin(r, [Free EXCEPT !.kind = "save", !.user = account,
                 !.new = [made |-> TRUE, phone |-> IF t = Blank THEN None ELSE Normalized(t),
                          notify |-> notify, hours |-> Clamped(h, Default)]])

CommitSave(r) ==
  /\ req[r].kind = "save"
  /\ account' = IF Lost(r) THEN account ELSE Written(account, req[r].user, req[r].new)
  /\ Done(r)
  /\ UNCHANGED <<contact, hangout, calls, changes, skewed>>

-----------------------------------------------------------------------------
(* A new hangout.                                                          *)

NoCreation == ~hangout.made /\ \A r \in Requests : req[r].kind # "create"

\* The web form: _apply_organizer_from_user stamps the defaults.
LoadForm(r) ==
  LET mine == {i \in Ids : account.phone # None /\ contact[i] = account.phone} IN
  /\ NoCreation
  /\ Begin(r, [Free EXCEPT !.kind = "create", !.user = account,
                 !.new = [made |-> TRUE,
                          org |-> IF mine = {} THEN None ELSE CHOOSE i \in mine : TRUE,
                          stamp |-> account.phone,
                          enabled |-> account.notify /\ account.phone # None,
                          hours |-> Clamped(account.hours, Default)]])

\* The API: a contact, or the caller's own number; without one the notifications
\* cannot be on.
LoadApi(r, org, enabled, h) ==
  LET stamp == IF org # None THEN contact[org] ELSE account.phone IN
  /\ NoCreation
  /\ org # None => Exists(org)
  /\ enabled => stamp # None
  /\ Begin(r, [Free EXCEPT !.kind = "create", !.user = IF org = None THEN account ELSE NotAsked,
                 !.new = [made |-> TRUE, org |-> org, stamp |-> stamp, enabled |-> enabled,
                          hours |-> Clamped(h, Default)]])

\* The INSERT fails when the contact has gone, or the users row is there now.
CommitCreate(r) ==
  LET h == req[r].new
      fails == Lost(r) \/ (h.org # None /\ ~Exists(h.org))
  IN
  /\ req[r].kind = "create"
  /\ \/ /\ ~fails
        /\ hangout' = h
        /\ account' = [account EXCEPT !.made = @ \/ ~req[r].user.made]
     \/ fails /\ UNCHANGED <<hangout, account>>
  /\ Done(r)
  /\ UNCHANGED <<contact, calls, changes, skewed>>

-----------------------------------------------------------------------------
(* PATCH.                                                                  *)

\* Seeded fault: the contact is set and its number is not stamped.
Chosen_IdOnly(h, org) == IF org = Keep THEN h ELSE [h EXCEPT !.org = org]

\* A contact is stamped with its number; taking the organizer away clears both.
Chosen(h, org) ==
  IF org = Keep THEN h
  ELSE [h EXCEPT !.org = org, !.stamp = IF org = None THEN None ELSE contact[org]]

Patched(org, enabled, h) ==
  LET c == Chosen(hangout, org) IN
  [c EXCEPT !.enabled = IF enabled = Keep THEN @ ELSE enabled,
            !.hours = IF h = Keep THEN @ ELSE Clamped(h, @)]

\* update_hangout up to its commit.
LoadPatch(r, org, enabled, h) ==
  /\ hangout.made
  /\ org \in Ids => Exists(org)
  /\ LET new == Patched(org, enabled, h) IN
     /\ new.enabled => Resolved(new) # None
     /\ Begin(r, [Free EXCEPT !.kind = "patch", !.old = hangout, !.new = new])

CommitPatch(r) ==
  LET new == req[r].new
      old == req[r].old
      fails == new.org \notin {old.org, None} /\ ~Exists(new.org)
  IN
  /\ req[r].kind = "patch"
  /\ \/ /\ ~fails
        /\ hangout' = Written(hangout, old, new)
        /\ skewed' = (skewed \/ req[r].overtaken)
        /\ req' = [q \in Requests |-> IF q = r THEN Free ELSE [req[q] EXCEPT !.overtaken = TRUE]]
     \/ fails /\ Done(r) /\ UNCHANGED <<hangout, skewed>>
  /\ UNCHANGED <<contact, account, calls, changes>>

-----------------------------------------------------------------------------
(* The contacts: each call is one transaction here.                        *)

Change == changes < MaxChanges /\ changes' = changes + 1

\* A contact is made, or gets another number.
SetContact(i, t) ==
  /\ Change
  /\ Usable(Normalized(t))
  /\ contact[i] # Gone /\ \A j \in Ids : contact[j] # Normalized(t)
  /\ contact' = [contact EXCEPT ![i] = Normalized(t)]
  /\ UNCHANGED <<account, hangout, req, calls, skewed>>

\* ON DELETE SET NULL of hangouts.organizer_profile_id.
DeleteContact(i) ==
  /\ Change /\ Exists(i)
  /\ contact' = [contact EXCEPT ![i] = Gone]
  /\ hangout' = IF hangout.org = i THEN [hangout EXCEPT !.org = None] ELSE hangout
  /\ UNCHANGED <<account, req, calls, skewed>>

Next ==
  \/ \E r \in Requests :
       \/ \E t \in Texts \cup {Blank}, n \in BOOLEAN, h \in Hours : LoadSave(r, t, n, h)
       \/ CommitSave(r) \/ LoadForm(r) \/ CommitCreate(r) \/ CommitPatch(r)
       \/ \E o \in Ids \cup {None}, e \in BOOLEAN, h \in Hours : LoadApi(r, o, e, h)
       \/ \E o \in Ids \cup {None, Keep}, e \in BOOLEAN \cup {Keep}, h \in Hours \cup {Keep} :
            LoadPatch(r, o, e, h)
  \/ \E i \in Ids : DeleteContact(i) \/ \E t \in Texts : SetContact(i, t)

Spec == Init /\ [][Next]_vars

-----------------------------------------------------------------------------
(* Properties.                                                             *)

Accounts == [made : BOOLEAN, phone : Numbers \cup {None}, notify : BOOLEAN, hours : Options]
Rows == [made : BOOLEAN, org : Ids \cup {None}, stamp : Numbers \cup {None},
         enabled : BOOLEAN, hours : Options]

\* Every value of the variables has its type: the cadence is one of the offered
\* ones whatever a client sent, stored numbers are normalised and usable, and a
\* hangout's organizer is a contact that exists.
TypeOK ==
  /\ contact \in [Ids -> Numbers \cup {None, Gone}]
  /\ account \in Accounts
  /\ hangout \in Rows
  /\ hangout.org # None => Exists(hangout.org)
  /\ \A r \in Requests :
       /\ req[r].kind \in {"idle", "save", "create", "patch"}
       /\ req[r].user \in Accounts
       /\ req[r].kind = "save" => req[r].new \in Accounts
       /\ req[r].kind \in {"create", "patch"} => req[r].new \in Rows
       /\ req[r].kind = "patch" => req[r].old \in Rows
  /\ calls \in 0..MaxCalls /\ changes \in 0..MaxChanges /\ skewed \in BOOLEAN

\* Notifications that are on have somebody to go to, whatever happened to the
\* contact that was chosen since: every request that turns them on checks it, and
\* the stamp outlives the contact.  Two PATCHes that overlap can break it: one
\* takes the organizer away while the other turns the notifications on.
EnabledReachable == hangout.made /\ hangout.enabled /\ ~skewed => Resolved(hangout) # None

\* A number that is shown by the form it is saved with, and sent back as it stands
\* there, is the number that was stored (docs/sms-and-rsvp.md:31: only what the pages
\* show is pretty-printed).  That is not so of the numbers that the page or its
\* script takes for American ones, of ten digits, or of fewer that do not begin with
\* a 1: a 1 comes before them, which is stored, but no digit of theirs is lost.
ShownIsKept ==
  account.phone # None =>
    SentBack(account.phone) =
      IF TakenForLocal(account.phone) THEN Typed(TRUE, <<1>> \o account.phone.digits)
      ELSE account.phone

=============================================================================
