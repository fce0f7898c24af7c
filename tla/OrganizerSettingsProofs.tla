----------------------- MODULE OrganizerSettingsProofs -----------------------
(***************************************************************************)
(* Proofs about OrganizerSettings, for every set of contacts, texts,       *)
(* clients and choices.                                                    *)
(***************************************************************************)
EXTENDS OrganizerSettings, TLAPS

USE OrganizerSettingsAssumption

\* A row whose notifications, if on, have a number even when the contact goes.
Reachable(h) ==
  /\ h.org # None => h.stamp # None
  /\ h.enabled => h.stamp # None

Contacts == [Ids -> Numbers \cup {None, Gone}]

Calls == [kind : {"idle", "save", "create", "patch"}, old : Rows \cup {None},
          new : Accounts \cup Rows \cup {None}, user : Accounts, overtaken : BOOLEAN]

RequestOK(c) ==
  /\ c.kind = "save" => c.new \in Accounts
  /\ c.kind \in {"create", "patch"} => c.new \in Rows
  /\ c.kind = "patch" => c.old \in Rows

TablesOK ==
  /\ contact \in Contacts /\ account \in Accounts /\ hangout \in Rows
  /\ hangout.org # None => Exists(hangout.org)

RequestsOK ==
  /\ req \in [Requests -> Calls]
  /\ \A r \in Requests : RequestOK(req[r])

CountersOK == calls \in 0..MaxCalls /\ changes \in 0..MaxChanges /\ skewed \in BOOLEAN

TypeInv == TablesOK /\ RequestsOK /\ CountersOK

\* The hangout is made once, and patched only then.
MadeOnce ==
  /\ \A r \in Requests : req[r].kind = "create" =>
       /\ ~hangout.made
       /\ \A q \in Requests : req[q].kind = "create" => q = r
  /\ \A r \in Requests : req[r].kind = "patch" => hangout.made /\ req[r].new.made

\* A PATCH that no other overtook holds the row as it is, but for an organizer
\* that was deleted since.
SeesRow(c) ==
  /\ \A f \in {"made", "stamp", "enabled", "hours"} : c.old[f] = hangout[f]
  /\ hangout.org \in {c.old.org, None}

\* What overlaps with nothing leads only to reachable rows.
ReachInv ==
  /\ hangout.made /\ ~skewed => Reachable(hangout)
  /\ \A r \in Requests : req[r].kind = "create" => Reachable(req[r].new)
  /\ \A r \in Requests : req[r].kind = "patch" /\ ~req[r].overtaken =>
       SeesRow(req[r]) /\ (~skewed => Reachable(req[r].new))

Inv == TypeInv /\ MadeOnce /\ ReachInv

-----------------------------------------------------------------------------
(* The operators.                                                          *)

LEMMA ClampedType == ASSUME NEW h, NEW d \in Options PROVE Clamped(h, d) \in Options
  BY DEF Clamped

LEMMA AccountFields ==
  ASSUME NEW a \in Accounts
  PROVE  a.made \in BOOLEAN /\ a.phone \in Numbers \cup {None} /\ a.notify \in BOOLEAN
         /\ a.hours \in Options /\ DOMAIN a = {"made", "phone", "notify", "hours"}
  BY DEF Accounts

LEMMA RowFields ==
  ASSUME NEW h \in Rows
  PROVE  h.made \in BOOLEAN /\ h.org \in Ids \cup {None} /\ h.stamp \in Numbers \cup {None}
         /\ h.enabled \in BOOLEAN /\ h.hours \in Options
         /\ DOMAIN h = {"made", "org", "stamp", "enabled", "hours"}
  BY DEF Rows

LEMMA MakeRow ==
  ASSUME NEW m \in BOOLEAN, NEW o \in Ids \cup {None}, NEW s \in Numbers \cup {None},
         NEW e \in BOOLEAN, NEW n \in Options
  PROVE  [made |-> m, org |-> o, stamp |-> s, enabled |-> e, hours |-> n] \in Rows
  BY DEF Rows

LEMMA WrittenAccount ==
  ASSUME NEW a \in Accounts, NEW old \in Accounts, NEW new \in Accounts
  PROVE  Written(a, old, new) \in Accounts
  <1> DEFINE W == Written(a, old, new)
             F == {"made", "phone", "notify", "hours"}
  <1>1. W = [f \in F |-> IF new[f] # old[f] THEN new[f] ELSE a[f]]
    BY AccountFields DEF Written
  <1>2. \A f \in F : W[f] \in {new[f], a[f]}
    BY <1>1
  <1>3. /\ W.made \in BOOLEAN /\ W.phone \in Numbers \cup {None} /\ W.notify \in BOOLEAN
        /\ W.hours \in Options
    BY <1>2, AccountFields
  <1>4. W = [made |-> W.made, phone |-> W.phone, notify |-> W.notify, hours |-> W.hours]
    BY <1>1
  <1> HIDE DEF W
  <1>5. W \in Accounts
    BY <1>3, <1>4 DEF Accounts
  <1> QED
    BY <1>5 DEF W

LEMMA WrittenRow ==
  ASSUME NEW h \in Rows, NEW old \in Rows, NEW new \in Rows
  PROVE  /\ Written(h, old, new) \in Rows
         /\ \A f \in {"made", "org", "stamp", "enabled", "hours"} :
              Written(h, old, new)[f] = IF new[f] # old[f] THEN new[f] ELSE h[f]
  <1> DEFINE W == Written(h, old, new)
             F == {"made", "org", "stamp", "enabled", "hours"}
  <1>1. W = [f \in F |-> IF new[f] # old[f] THEN new[f] ELSE h[f]]
    BY RowFields DEF Written
  <1>2. \A f \in F : W[f] \in {new[f], h[f]}
    BY <1>1
  <1>3. /\ W.made \in BOOLEAN /\ W.org \in Ids \cup {None} /\ W.stamp \in Numbers \cup {None}
        /\ W.enabled \in BOOLEAN /\ W.hours \in Options
    BY <1>2, RowFields
  <1>4. W = [made |-> W.made, org |-> W.org, stamp |-> W.stamp, enabled |-> W.enabled,
             hours |-> W.hours]
    BY <1>1
  <1>5. \A f \in F : W[f] = IF new[f] # old[f] THEN new[f] ELSE h[f]
    BY <1>1
  <1> HIDE DEF W
  <1>6. W \in Rows
    BY <1>3, <1>4 DEF Rows
  <1> QED
    BY <1>5, <1>6 DEF W

\* A number is found wherever one is stamped.
LEMMA ResolvedNumber ==
  ASSUME NEW h, h.stamp # None
  PROVE  Resolved(h) # None
  BY DEF Resolved, Exists

LEMMA FreeCall == Free \in Calls /\ RequestOK(Free)
  BY DEF Free, Calls, RequestOK, NoAccount, Accounts

-----------------------------------------------------------------------------
(* A request that begins, and one that ends.                               *)

LEMMA TypeBegin ==
  ASSUME TypeInv, NEW r \in Requests, NEW c \in Calls, RequestOK(c), Begin(r, c)
  PROVE  TypeInv'
  <1>1. TablesOK' /\ skewed' \in BOOLEAN /\ changes' \in 0..MaxChanges
    BY DEF Begin, TypeInv, TablesOK, CountersOK, Exists
  <1>2. calls' \in 0..MaxCalls
    BY DEF Begin, TypeInv, CountersOK
  <1>3. RequestsOK'
    <2>1. req' = [req EXCEPT ![r] = c]
      BY DEF Begin
    <2>2. \A q \in Requests : req'[q] = IF q = r THEN c ELSE req[q]
      BY <2>1 DEF TypeInv, RequestsOK
    <2>3. req' \in [Requests -> Calls]
      BY <2>1 DEF TypeInv, RequestsOK
    <2>4. \A q \in Requests : RequestOK(req'[q])
      BY <2>2 DEF TypeInv, RequestsOK
    <2> QED
      BY <2>3, <2>4 DEF RequestsOK, RequestOK
  <1> QED
    BY <1>1, <1>2, <1>3 DEF TypeInv, CountersOK

LEMMA TypeDone ==
  ASSUME RequestsOK, NEW r \in Requests, Done(r)
  PROVE  RequestsOK' /\ \A q \in Requests : req'[q] = IF q = r THEN Free ELSE req[q]
  <1>1. \A q \in Requests : req'[q] = IF q = r THEN Free ELSE req[q]
    BY DEF RequestsOK, Done
  <1>2. req' \in [Requests -> Calls]
    BY FreeCall DEF RequestsOK, Done
  <1>3. \A q \in Requests : RequestOK(req'[q])
    BY <1>1, FreeCall DEF RequestsOK
  <1> QED
    BY <1>1, <1>2, <1>3 DEF RequestsOK, RequestOK

LEMMA KindFree == Free.kind = "idle"
  BY DEF Free

\* A request that ends leaves the other requests as reachable as they were.
LEMMA ReachDone ==
  ASSUME Inv, NEW r \in Requests, Done(r), UNCHANGED <<hangout, skewed>>
  PROVE  MadeOnce' /\ ReachInv'
  <1>1. \A q \in Requests : req'[q] = IF q = r THEN Free ELSE req[q]
    BY TypeDone DEF Inv, TypeInv
  <1> QED
    BY <1>1, KindFree DEF Inv, MadeOnce, ReachInv, SeesRow, Reachable

-----------------------------------------------------------------------------
(* The account holder.                                                     *)

LEMMA InvInit == Init => Inv
  <1> SUFFICES ASSUME Init PROVE Inv
    OBVIOUS
  <1>1. TablesOK
    BY DEF Init, TablesOK, Contacts, NoAccount, NoHangout, Accounts, Rows
  <1>2. RequestsOK
    BY FreeCall DEF Init, RequestsOK
  <1>3. CountersOK
    <2>1. MaxCalls \in Nat /\ MaxChanges \in Nat
      OBVIOUS
    <2>2. calls = 0 /\ changes = 0 /\ skewed = FALSE
      BY DEF Init
    <2>3. calls \in 0..MaxCalls /\ changes \in 0..MaxChanges
      BY <2>1, <2>2
    <2>4. skewed \in BOOLEAN
      BY <2>2
    <2> QED
      BY <2>3, <2>4 DEF CountersOK
  <1>4. MadeOnce
    BY KindFree DEF Init, MadeOnce
  <1>5. ReachInv
    BY KindFree DEF Init, ReachInv, NoHangout
  <1> QED
    BY <1>1, <1>2, <1>3, <1>4, <1>5 DEF Inv, TypeInv

LEMMA InvLoadSave ==
  ASSUME Inv, NEW r \in Requests, NEW t \in Texts \cup {Blank}, NEW n \in BOOLEAN, NEW h \in Hours,
         LoadSave(r, t, n, h)
  PROVE  Inv'
  <1> DEFINE a == [made |-> TRUE, phone |-> IF t = Blank THEN None ELSE Normalized(t),
                   notify |-> n, hours |-> Clamped(h, Default)]
             c == [Free EXCEPT !.kind = "save", !.user = account, !.new = a]
  <1>1. Begin(r, c) /\ (t = Blank \/ Usable(Normalized(t)))
    BY DEF LoadSave
  <1>2. a.phone \in Numbers \cup {None}
    BY <1>1 DEF Numbers
  <1>3. a \in Accounts
    BY <1>2, ClampedType DEF Accounts
  <1> HIDE DEF a
  <1>4. c \in Calls /\ RequestOK(c) /\ c.kind = "save"
    BY <1>3, FreeCall DEF Calls, RequestOK, Free, Inv, TypeInv, TablesOK
  <1> HIDE DEF c
  <1>5. TypeInv'
    BY <1>1, <1>4, TypeBegin DEF Inv
  <1>6. /\ \A q \in Requests : req'[q] = IF q = r THEN c ELSE req[q]
        /\ UNCHANGED <<hangout, skewed>>
    BY <1>1 DEF Begin, Inv, TypeInv, RequestsOK
  <1>7. MadeOnce' /\ ReachInv'
    BY <1>4, <1>6 DEF Inv, MadeOnce, ReachInv, SeesRow, Reachable
  <1> QED
    BY <1>5, <1>7 DEF Inv

LEMMA InvCommitSave == ASSUME Inv, NEW r \in Requests, CommitSave(r) PROVE Inv'
  <1>1. /\ req[r].kind = "save" /\ Done(r) /\ UNCHANGED <<contact, hangout, calls, changes, skewed>>
        /\ account' \in {account, Written(account, req[r].user, req[r].new)}
    BY DEF CommitSave
  <1>2. account \in Accounts /\ req[r].user \in Accounts /\ req[r].new \in Accounts
    BY <1>1 DEF Inv, TypeInv, TablesOK, RequestsOK, RequestOK, Calls
  <1>3. account' \in Accounts
    BY <1>1, <1>2, WrittenAccount
  <1>4. RequestsOK'
    BY <1>1, TypeDone DEF Inv, TypeInv
  <1>5. TypeInv'
    BY <1>1, <1>3, <1>4 DEF Inv, TypeInv, TablesOK, CountersOK, Exists
  <1>6. MadeOnce' /\ ReachInv'
    BY <1>1, ReachDone
  <1> QED
    BY <1>5, <1>6 DEF Inv

-----------------------------------------------------------------------------
(* A new hangout.                                                          *)

LEMMA BeginCreate ==
  ASSUME Inv, NEW r \in Requests, NEW u \in Accounts, NEW h \in Rows, NoCreation, Reachable(h),
         Begin(r, [Free EXCEPT !.kind = "create", !.user = u, !.new = h])
  PROVE  Inv'
  <1> DEFINE c == [Free EXCEPT !.kind = "create", !.user = u, !.new = h]
  <1>1. c \in Calls /\ RequestOK(c) /\ c.kind = "create" /\ c.new = h
    BY DEF Calls, RequestOK, Free
  <1>2. Begin(r, c)
    OBVIOUS
  <1> HIDE DEF c
  <1>3. TypeInv'
    BY <1>1, <1>2, TypeBegin DEF Inv
  <1>4. /\ \A q \in Requests : req'[q] = IF q = r THEN c ELSE req[q]
        /\ UNCHANGED <<hangout, skewed>>
    BY <1>2 DEF Begin, Inv, TypeInv, RequestsOK
  <1>5. MadeOnce'
    BY <1>1, <1>4 DEF Inv, MadeOnce, NoCreation
  <1>6. ReachInv'
    BY <1>1, <1>4 DEF Inv, ReachInv, SeesRow, Reachable
  <1> QED
    BY <1>3, <1>5, <1>6 DEF Inv

LEMMA InvLoadForm == ASSUME Inv, NEW r \in Requests, LoadForm(r) PROVE Inv'
  <1> DEFINE mine == {i \in Ids : account.phone # None /\ contact[i] = account.phone}
             h == [made |-> TRUE, org |-> IF mine = {} THEN None ELSE CHOOSE i \in mine : TRUE,
                   stamp |-> account.phone, enabled |-> account.notify /\ account.phone # None,
                   hours |-> Clamped(account.hours, Default)]
  <1>1. account \in Accounts
    BY DEF Inv, TypeInv, TablesOK
  <1>2. mine # {} => (CHOOSE i \in mine : TRUE) \in Ids /\ account.phone # None
    OBVIOUS
  <1>3. h.org \in Ids \cup {None} /\ (h.org # None => h.stamp # None)
    BY <1>2
  <1>4. h.enabled \in BOOLEAN /\ (h.enabled => h.stamp # None)
    BY <1>1, AccountFields
  <1>5. h.stamp \in Numbers \cup {None} /\ h.hours \in Options
    BY <1>1, AccountFields, ClampedType
  <1>6. h = [made |-> TRUE, org |-> h.org, stamp |-> h.stamp, enabled |-> h.enabled,
             hours |-> h.hours]
    OBVIOUS
  <1>7. NoCreation /\ Begin(r, [Free EXCEPT !.kind = "create", !.user = account, !.new = h])
    BY DEF LoadForm
  <1> HIDE DEF h, mine
  <1>8. h \in Rows
    <2>1. [made |-> TRUE, org |-> h.org, stamp |-> h.stamp, enabled |-> h.enabled,
           hours |-> h.hours] \in Rows
      BY <1>3, <1>4, <1>5, MakeRow
    <2> QED
      BY <1>6, <2>1
  <1>9. Reachable(h)
    BY <1>3, <1>4 DEF Reachable
  <1> QED
    BY <1>1, <1>7, <1>8, <1>9, BeginCreate

LEMMA InvLoadApi ==
  ASSUME Inv, NEW r \in Requests, NEW o \in Ids \cup {None}, NEW e \in BOOLEAN, NEW n \in Hours,
         LoadApi(r, o, e, n)
  PROVE  Inv'
  <1> DEFINE stamp == IF o # None THEN contact[o] ELSE account.phone
             h == [made |-> TRUE, org |-> o, stamp |-> stamp, enabled |-> e,
                   hours |-> Clamped(n, Default)]
             u == IF o = None THEN account ELSE NotAsked
  <1>1. account \in Accounts
    BY DEF Inv, TypeInv, TablesOK
  <1>2. NoCreation /\ (o # None => Exists(o)) /\ (e => stamp # None)
    BY DEF LoadApi
  <1>3. stamp \in Numbers \cup {None} /\ (o # None => stamp # None)
    BY <1>1, <1>2, AccountFields DEF Exists
  <1>4. u \in Accounts
    BY <1>1 DEF NotAsked, NoAccount, Accounts
  <1>5. Begin(r, [Free EXCEPT !.kind = "create", !.user = u, !.new = h])
    BY DEF LoadApi
  <1> HIDE DEF stamp, u
  <1>6. h \in Rows /\ Reachable(h)
    BY <1>2, <1>3, ClampedType DEF Rows, Reachable
  <1> QED
    BY <1>2, <1>4, <1>5, <1>6, BeginCreate

LEMMA InvCommitCreate == ASSUME Inv, NEW r \in Requests, CommitCreate(r) PROVE Inv'
  <1> DEFINE h == req[r].new
  <1>1. /\ req[r].kind = "create" /\ Done(r) /\ UNCHANGED <<contact, calls, changes, skewed>>
        /\ \/ /\ hangout' = h /\ (h.org # None => Exists(h.org))
              /\ account' = [account EXCEPT !.made = @ \/ ~req[r].user.made]
           \/ UNCHANGED <<hangout, account>>
    BY DEF CommitCreate
  <1>2. h \in Rows /\ req[r].user \in Accounts /\ account \in Accounts
    BY <1>1 DEF Inv, TypeInv, TablesOK, RequestsOK, RequestOK, Calls
  <1>3. RequestsOK' /\ \A q \in Requests : req'[q] = IF q = r THEN Free ELSE req[q]
    BY <1>1, TypeDone DEF Inv, TypeInv
  <1>4. CASE UNCHANGED <<hangout, account>>
    <2>1. TypeInv'
      BY <1>1, <1>3, <1>4 DEF Inv, TypeInv, TablesOK, CountersOK, Exists
    <2> QED
      BY <1>1, <1>4, <2>1, ReachDone DEF Inv
  <1>5. CASE /\ hangout' = h /\ (h.org # None => Exists(h.org))
             /\ account' = [account EXCEPT !.made = @ \/ ~req[r].user.made]
    <2>1. account' \in Accounts
      <3>1. (account.made \/ ~req[r].user.made) \in BOOLEAN
        OBVIOUS
      <3>2. account' = [account EXCEPT !.made = (account.made \/ ~req[r].user.made)]
        BY <1>5
      <3> QED
        BY <1>2, <3>1, <3>2 DEF Accounts
    <2>2. TablesOK'
      BY <1>1, <1>2, <1>5, <2>1 DEF Inv, TypeInv, TablesOK, Exists
    <2>3. TypeInv'
      BY <1>1, <1>3, <2>2 DEF Inv, TypeInv, CountersOK
    <2>4. \A q \in Requests : q # r => req[q].kind \notin {"create", "patch"}
      BY <1>1 DEF Inv, MadeOnce
    <2>5. \A q \in Requests : req'[q].kind \notin {"create", "patch"}
      BY <1>3, <2>4, KindFree
    <2>6. Reachable(hangout')
      BY <1>1, <1>5 DEF Inv, ReachInv
    <2>7. MadeOnce'
      BY <2>5 DEF MadeOnce
    <2>8. ReachInv'
      BY <2>5, <2>6 DEF ReachInv, Reachable
    <2> QED
      BY <2>3, <2>7, <2>8 DEF Inv
  <1> QED
    BY <1>1, <1>4, <1>5

-----------------------------------------------------------------------------
(* PATCH.                                                                  *)

LEMMA ChosenRow ==
  ASSUME NEW h \in Rows, NEW o \in Ids \cup {None, Keep}, o \in Ids => Exists(o)
  PROVE  /\ Chosen(h, o) \in Rows
         /\ Chosen(h, o).made = h.made
         /\ (h.org # None => h.stamp # None) => (Chosen(h, o).org # None => Chosen(h, o).stamp # None)
  <1>1. CASE o = Keep
    BY <1>1 DEF Chosen
  <1>2. CASE o # Keep
    <2> DEFINE s == IF o = None THEN None ELSE contact[o]
    <2>1. o \in Ids \cup {None} /\ s \in Numbers \cup {None} /\ (o # None => s # None)
      BY <1>2 DEF Exists
    <2>2. Chosen(h, o) = [h EXCEPT !.org = o, !.stamp = s]
      BY <1>2 DEF Chosen
    <2> HIDE DEF s
    <2>3. [h EXCEPT !.org = o, !.stamp = s] \in Rows
      BY <2>1 DEF Rows
    <2>4. [h EXCEPT !.org = o, !.stamp = s].org = o /\ [h EXCEPT !.org = o, !.stamp = s].stamp = s
          /\ [h EXCEPT !.org = o, !.stamp = s].made = h.made
      BY DEF Rows
    <2> QED
      BY <2>1, <2>2, <2>3, <2>4
  <1> QED
    BY <1>1, <1>2

LEMMA PatchedRow ==
  ASSUME hangout \in Rows, NEW o \in Ids \cup {None, Keep}, o \in Ids => Exists(o),
         NEW e \in BOOLEAN \cup {Keep}, NEW n \in Hours \cup {Keep}
  PROVE  /\ Patched(o, e, n) \in Rows
         /\ Patched(o, e, n).made = hangout.made
         /\ Patched(o, e, n).org = Chosen(hangout, o).org
         /\ Patched(o, e, n).stamp = Chosen(hangout, o).stamp
  <1> DEFINE c == Chosen(hangout, o)
             e2 == IF e = Keep THEN c.enabled ELSE e
             n2 == IF n = Keep THEN c.hours ELSE Clamped(n, c.hours)
  <1>1. c \in Rows /\ c.made = hangout.made
    BY ChosenRow
  <1>2. Patched(o, e, n) = [c EXCEPT !.enabled = e2, !.hours = n2]
    BY DEF Patched
  <1>3. c.enabled \in BOOLEAN /\ c.hours \in Options
    BY <1>1, RowFields
  <1>4. e2 \in BOOLEAN
    BY <1>3, Zenon
  <1>5. n2 \in Options
    BY <1>3, ClampedType
  <1> HIDE DEF e2, n2, c
  <1>6. [c EXCEPT !.enabled = e2, !.hours = n2] \in Rows
    BY <1>1, <1>4, <1>5 DEF Rows
  <1>7. /\ [c EXCEPT !.enabled = e2, !.hours = n2].made = c.made
        /\ [c EXCEPT !.enabled = e2, !.hours = n2].org = c.org
        /\ [c EXCEPT !.enabled = e2, !.hours = n2].stamp = c.stamp
    BY <1>1 DEF Rows
  <1>8. c = Chosen(hangout, o)
    BY DEF c
  <1> QED
    BY <1>1, <1>2, <1>6, <1>7, <1>8

LEMMA InvLoadPatch ==
  ASSUME Inv, NEW r \in Requests, NEW o \in Ids \cup {None, Keep}, NEW e \in BOOLEAN \cup {Keep},
         NEW n \in Hours \cup {Keep}, LoadPatch(r, o, e, n)
  PROVE  Inv'
  <1> DEFINE new == Patched(o, e, n)
             c == [Free EXCEPT !.kind = "patch", !.old = hangout, !.new = new]
  <1>1. /\ hangout.made /\ (o \in Ids => Exists(o)) /\ (new.enabled => Resolved(new) # None)
        /\ Begin(r, c)
    BY DEF LoadPatch
  <1>2. hangout \in Rows
    BY DEF Inv, TypeInv, TablesOK
  <1>3. /\ new \in Rows /\ new.made = hangout.made /\ new.org = Chosen(hangout, o).org
        /\ new.stamp = Chosen(hangout, o).stamp
    BY <1>1, <1>2, PatchedRow
  <1>4. ~skewed => Reachable(new)
    <2> SUFFICES ASSUME ~skewed PROVE Reachable(new)
      OBVIOUS
    <2>1. hangout.org # None => hangout.stamp # None
      BY <1>1 DEF Inv, ReachInv, Reachable
    <2>2. new.org # None => new.stamp # None
      BY <1>1, <1>2, <1>3, <2>1, ChosenRow
    <2>3. new.enabled => new.stamp # None
      BY <1>1, <2>2 DEF Resolved
    <2> QED
      BY <2>2, <2>3 DEF Reachable
  <1> HIDE DEF new
  <1>5. c \in Calls /\ RequestOK(c) /\ c.kind = "patch" /\ c.old = hangout /\ c.new = new
    BY <1>2, <1>3, FreeCall DEF Calls, RequestOK, Free
  <1> HIDE DEF c
  <1>6. TypeInv'
    BY <1>1, <1>5, TypeBegin DEF Inv
  <1>7. /\ \A q \in Requests : req'[q] = IF q = r THEN c ELSE req[q]
        /\ UNCHANGED <<hangout, skewed>>
    BY <1>1 DEF Begin, Inv, TypeInv, RequestsOK
  <1>8. MadeOnce'
    BY <1>1, <1>3, <1>5, <1>7 DEF Inv, MadeOnce
  <1>9. SeesRow(c)
    BY <1>2, <1>5 DEF SeesRow
  <1>10. ReachInv'
    BY <1>4, <1>5, <1>7, <1>9 DEF Inv, ReachInv, SeesRow, Reachable
  <1> QED
    BY <1>6, <1>8, <1>10 DEF Inv

\* What a PATCH that was not overtaken writes is what it checked, but for an
\* organizer that was deleted since.
LEMMA WrittenReachable ==
  ASSUME hangout \in Rows, NEW c, c.old \in Rows, c.new \in Rows, SeesRow(c), Reachable(c.new)
  PROVE  Reachable(Written(hangout, c.old, c.new))
  <1> DEFINE w == Written(hangout, c.old, c.new)
  <1>1. w.stamp = c.new.stamp
    BY WrittenRow DEF SeesRow
  <1>2. w.enabled = c.new.enabled
    BY WrittenRow DEF SeesRow
  <1>3. w.org \in {c.new.org, None}
    BY WrittenRow DEF SeesRow
  <1> HIDE DEF w
  <1>4. Reachable(w)
    BY <1>1, <1>2, <1>3 DEF Reachable
  <1> QED
    BY <1>4 DEF w

\* The marks of the requests that are overtaken.
LEMMA TypeOvertaken ==
  ASSUME RequestsOK, NEW r \in Requests,
         req' = [q \in Requests |-> IF q = r THEN Free ELSE [req[q] EXCEPT !.overtaken = TRUE]]
  PROVE  /\ RequestsOK'
         /\ \A q \in Requests : req'[q] = IF q = r THEN Free ELSE [req[q] EXCEPT !.overtaken = TRUE]
         /\ \A q \in Requests : q # r =>
              req'[q].kind = req[q].kind /\ req'[q].new = req[q].new /\ req'[q].overtaken
  <1>1. \A q \in Requests : req'[q] = IF q = r THEN Free ELSE [req[q] EXCEPT !.overtaken = TRUE]
    OBVIOUS
  <1>2. ASSUME NEW q \in Requests
        PROVE  /\ [req[q] EXCEPT !.overtaken = TRUE] \in Calls
               /\ [req[q] EXCEPT !.overtaken = TRUE].kind = req[q].kind
               /\ [req[q] EXCEPT !.overtaken = TRUE].new = req[q].new
               /\ [req[q] EXCEPT !.overtaken = TRUE].old = req[q].old
               /\ [req[q] EXCEPT !.overtaken = TRUE].overtaken = TRUE
    BY DEF RequestsOK, Calls
  <1>3. req' \in [Requests -> Calls]
    BY <1>2, FreeCall
  <1>4. \A q \in Requests : RequestOK(req'[q])
    BY <1>1, <1>2, FreeCall DEF RequestsOK, RequestOK
  <1> QED
    BY <1>1, <1>2, <1>3, <1>4 DEF RequestsOK, RequestOK

LEMMA InvCommitPatch == ASSUME Inv, NEW r \in Requests, CommitPatch(r) PROVE Inv'
  <1> DEFINE c == req[r]
             w == Written(hangout, c.old, c.new)
             Fails == c.new.org \notin {c.old.org, None} /\ ~Exists(c.new.org)
  <1>1. /\ c.kind = "patch" /\ UNCHANGED <<contact, account, calls, changes>>
        /\ \/ /\ ~Fails /\ hangout' = w /\ skewed' = (skewed \/ c.overtaken)
              /\ req' = [q \in Requests |-> IF q = r THEN Free
                                            ELSE [req[q] EXCEPT !.overtaken = TRUE]]
           \/ Done(r) /\ UNCHANGED <<hangout, skewed>>
    BY DEF CommitPatch
  <1>2. hangout \in Rows /\ c.old \in Rows /\ c.new \in Rows /\ c.overtaken \in BOOLEAN
    BY <1>1 DEF Inv, TypeInv, TablesOK, RequestsOK, RequestOK, Calls
  <1>3. CASE Done(r) /\ UNCHANGED <<hangout, skewed>>
    <2>1. TypeInv'
      BY <1>1, <1>3, TypeDone DEF Inv, TypeInv, TablesOK, CountersOK, Exists
    <2> QED
      BY <1>3, <2>1, ReachDone DEF Inv
  <1>4. CASE /\ ~Fails /\ hangout' = w /\ skewed' = (skewed \/ c.overtaken)
             /\ req' = [q \in Requests |-> IF q = r THEN Free
                                           ELSE [req[q] EXCEPT !.overtaken = TRUE]]
    <2>1. w \in Rows /\ w.made \in {hangout.made, c.new.made}
          /\ w.org = IF c.new.org # c.old.org THEN c.new.org ELSE hangout.org
      BY <1>2, WrittenRow
    <2>2. w.org # None => Exists(w.org)
      BY <1>4, <2>1 DEF Inv, TypeInv, TablesOK
    <2>3. TablesOK'
      BY <1>1, <1>4, <2>1, <2>2 DEF Inv, TypeInv, TablesOK, Exists
    <2>4. skewed' \in BOOLEAN
      BY <1>4
    <2>5. /\ RequestsOK'
          /\ \A q \in Requests : req'[q] = IF q = r THEN Free
                                             ELSE [req[q] EXCEPT !.overtaken = TRUE]
          /\ \A q \in Requests : q # r =>
               req'[q].kind = req[q].kind /\ req'[q].new = req[q].new /\ req'[q].overtaken
      BY <1>4, TypeOvertaken DEF Inv, TypeInv
    <2>6. TypeInv'
      BY <1>1, <2>3, <2>4, <2>5 DEF Inv, TypeInv, CountersOK
    <2>7. \A q \in Requests : req'[q].kind # "create"
      BY <1>1, <2>5, KindFree DEF Inv, MadeOnce
    <2>8. w.made
      BY <1>1, <2>1 DEF Inv, MadeOnce
    <2>9. MadeOnce'
      BY <1>4, <2>5, <2>7, <2>8, KindFree DEF Inv, MadeOnce
    <2>10. ~skewed' => Reachable(w)
      <3> SUFFICES ASSUME ~skewed' PROVE Reachable(w)
        OBVIOUS
      <3>1. ~skewed /\ ~c.overtaken
        BY <1>4
      <3>2. SeesRow(c) /\ Reachable(c.new)
        BY <1>1, <3>1 DEF Inv, ReachInv
      <3> QED
        BY <1>2, <3>2, WrittenReachable
    <2>11. \A q \in Requests : req'[q].kind # "patch" \/ req'[q].overtaken
      BY <2>5, KindFree
    <2>12. ReachInv'
      BY <1>4, <2>7, <2>10, <2>11 DEF ReachInv, Reachable
    <2> QED
      BY <2>6, <2>9, <2>12 DEF Inv
  <1> QED
    BY <1>1, <1>3, <1>4

-----------------------------------------------------------------------------
(* The contacts.                                                           *)

LEMMA InvSetContact ==
  ASSUME Inv, NEW i \in Ids, NEW t \in Texts, SetContact(i, t)
  PROVE  Inv'
  <1>1. /\ Usable(Normalized(t)) /\ contact' = [contact EXCEPT ![i] = Normalized(t)]
        /\ changes < MaxChanges /\ changes' = changes + 1
        /\ UNCHANGED <<account, hangout, req, calls, skewed>>
    BY DEF SetContact, Change
  <1>2. Normalized(t) \in Numbers
    BY <1>1 DEF Numbers
  <1>3. contact' \in Contacts /\ \A j \in Ids : contact[j] \in Numbers => contact'[j] \in Numbers
    BY <1>1, <1>2 DEF Inv, TypeInv, TablesOK, Contacts
  <1>4. TablesOK'
    BY <1>1, <1>3 DEF Inv, TypeInv, TablesOK, Exists, Rows
  <1>5. CountersOK'
    BY <1>1 DEF Inv, TypeInv, CountersOK
  <1>6. RequestsOK'
    BY <1>1 DEF Inv, TypeInv, RequestsOK, RequestOK
  <1>7. MadeOnce' /\ ReachInv'
    BY <1>1 DEF Inv, MadeOnce, ReachInv, SeesRow, Reachable
  <1> QED
    BY <1>4, <1>5, <1>6, <1>7 DEF Inv, TypeInv

LEMMA InvDeleteContact ==
  ASSUME Inv, NEW i \in Ids, DeleteContact(i)
  PROVE  Inv'
  <1>1. /\ contact' = [contact EXCEPT ![i] = Gone]
        /\ changes < MaxChanges /\ changes' = changes + 1
        /\ UNCHANGED <<account, req, calls, skewed>>
        /\ hangout' = IF hangout.org = i THEN [hangout EXCEPT !.org = None] ELSE hangout
    BY DEF DeleteContact, Change
  <1>2. hangout \in Rows
    BY DEF Inv, TypeInv, TablesOK
  <1>3. /\ hangout' \in Rows /\ hangout'.org = (IF hangout.org = i THEN None ELSE hangout.org)
        /\ \A f \in {"made", "stamp", "enabled", "hours"} : hangout'[f] = hangout[f]
    BY <1>1, <1>2 DEF Rows
  <1>4. contact' \in Contacts /\ \A j \in Ids : j # i => contact'[j] = contact[j]
    BY <1>1 DEF Inv, TypeInv, TablesOK, Contacts
  <1>5. TablesOK'
    BY <1>1, <1>2, <1>3, <1>4, RowFields DEF Inv, TypeInv, TablesOK, Exists
  <1>6. CountersOK'
    BY <1>1 DEF Inv, TypeInv, CountersOK
  <1>7. RequestsOK'
    BY <1>1 DEF Inv, TypeInv, RequestsOK, RequestOK
  <1>8. hangout'.made = hangout.made /\ hangout'.stamp = hangout.stamp
        /\ hangout'.enabled = hangout.enabled /\ hangout'.hours = hangout.hours
    BY <1>3
  <1>9. MadeOnce'
    BY <1>1, <1>8 DEF Inv, MadeOnce
  <1>10. ReachInv'
    <2>1. Reachable(hangout) => Reachable(hangout)'
      BY <1>3, <1>8 DEF Reachable
    <2>2. ASSUME NEW r \in Requests, SeesRow(req[r]) PROVE SeesRow(req[r])'
      BY <1>1, <1>3, <2>2 DEF SeesRow
    <2> QED
      BY <1>1, <1>8, <2>1, <2>2 DEF Inv, ReachInv, Reachable
  <1> QED
    BY <1>5, <1>6, <1>7, <1>9, <1>10 DEF Inv, TypeInv

LEMMA InvNext == ASSUME Inv, [Next]_vars PROVE Inv'
  <1>1. CASE UNCHANGED vars
    <2>1. TypeInv'
      BY <1>1 DEF vars, Inv, TypeInv, TablesOK, RequestsOK, RequestOK, CountersOK, Exists
    <2>2. MadeOnce' /\ ReachInv'
      BY <1>1 DEF vars, Inv, MadeOnce, ReachInv, SeesRow, Reachable
    <2> QED
      BY <2>1, <2>2 DEF Inv
  <1> QED
    BY <1>1, InvLoadSave, InvCommitSave, InvLoadForm, InvLoadApi, InvCommitCreate, InvLoadPatch,
       InvCommitPatch, InvSetContact, InvDeleteContact
    DEF Next

-----------------------------------------------------------------------------
(* The theorems.                                                           *)

\* What the rows hold is of its type: numbers are normalised and usable, hours
\* are offered ones, and an organizer is a contact that exists (users.py:40-117,
\* services.py:176-189, api.py:606-762).
THEOREM TypeCorrect == Spec => []TypeOK
  <1>1. Inv => TypeOK
    BY DEF Inv, TypeInv, TablesOK, Contacts, RequestsOK, RequestOK, Calls, CountersOK, TypeOK
  <1> QED
    BY <1>1, InvInit, InvNext, PTL DEF Spec

\* Notifications that are on have a number to go to, however contacts come, change
\* and go, unless two PATCHes of the hangout overlapped (services.py:150-173).
THEOREM EnabledHasNumber == Spec => []EnabledReachable
  <1>1. ASSUME Inv PROVE EnabledReachable
    <2> SUFFICES ASSUME hangout.made, hangout.enabled, ~skewed PROVE Resolved(hangout) # None
      BY DEF EnabledReachable
    <2>1. hangout.stamp # None
      BY <1>1 DEF Inv, ReachInv, Reachable
    <2> QED
      BY <2>1, ResolvedNumber
  <1> QED
    BY <1>1, InvInit, InvNext, PTL DEF Spec

-----------------------------------------------------------------------------
(* Numbers that are shown.                                                 *)

\* An accepted number is a plus sign and its digits, and they are not none.
LEMMA NumberIs ==
  ASSUME NEW p \in Numbers
  PROVE  p = Typed(TRUE, p.digits) /\ p.digits # <<>>
  <1>1. PICK t \in Texts : p = Normalized(t)
    BY DEF Numbers
  <1>2. p.plus /\ Len(p.digits) \in 8..15
    BY DEF Numbers, Usable
  <1>3. p.digits # <<>>
    <2>1. Len(<<>>) = 0 /\ 0 \notin 8..15
      OBVIOUS
    <2> QED
      BY <1>2, <2>1
  <1>4. ~Blank.plus
    BY DEF Blank, Typed
  <1>5. PICK d : p = Typed(TRUE, d)
    BY <1>1, <1>2, <1>4 DEF Normalized
  <1>6. p.digits = d
    BY <1>5 DEF Typed
  <1> QED
    BY <1>3, <1>5, <1>6

\* Its digits are eight to fifteen, of a sequence.
LEMMA NumberDigits ==
  ASSUME NEW p \in Numbers
  PROVE  p.digits \in Seq(Nat) /\ Len(p.digits) \in 8..15
  <1>1. PICK t \in Texts : p = Normalized(t)
    BY DEF Numbers
  <1>2. p.plus /\ Len(p.digits) \in 8..15
    BY DEF Numbers, Usable
  <1>3. t.digits \in Seq(0..9)
    BY OrganizerSettingsAssumption
  <1>4. t.digits \in Seq(Nat) /\ <<1>> \o t.digits \in Seq(Nat)
    BY <1>3
  <1>5. p.digits = t.digits \/ p.digits = <<1>> \o t.digits \/ p.digits = <<>>
    BY <1>1 DEF Normalized, Typed, Blank
  <1>6. <<>> \in Seq(Nat)
    OBVIOUS
  <1> QED
    BY <1>2, <1>4, <1>5, <1>6

\* A number written with its plus sign is normalised to itself.
LEMMA NormalizedTwice ==
  ASSUME NEW d, d # <<>>
  PROVE  Normalized(Typed(TRUE, d)) = Typed(TRUE, d)
  BY DEF Normalized, Typed

\* One more digit in front.
LEMMA OneInFront ==
  ASSUME NEW d \in Seq(Nat)
  PROVE  /\ <<1>> \o d \in Seq(Nat)
         /\ Len(<<1>> \o d) = Len(d) + 1
         /\ (<<1>> \o d)[1] = 1
         /\ <<1>> \o d # <<>>
  OBVIOUS

\* Numbers of digits in the range accepted.
LEMMA Between ==
  ASSUME NEW n \in 8..15
  PROVE  n \in Nat /\ 8 <= n /\ n <= 15
  OBVIOUS

\* Two ways to say at most ten.
LEMMA UnlessTen ==
  ASSUME NEW n \in Nat, n # 10
  PROVE  n <= 10 <=> n < 10
  OBVIOUS

\* Up to fifteen digits are not cut.
LEMMA NotCut ==
  ASSUME NEW d \in Seq(Nat), Len(d) <= 15
  PROVE  Cut(d) = d
  <1>1. Len(d) \in Nat
    OBVIOUS
  <1>2. ~(Len(d) > 15)
    BY <1>1
  <1> QED
    BY <1>2 DEF Cut

\* What the script makes of the digits.
LEMMA RewrittenDigits ==
  ASSUME NEW d \in Seq(Nat), d # <<>>, Len(d) <= 15
  PROVE  Rewritten(Typed(TRUE, d)) =
           IF Len(d) <= 10 /\ d[1] # 1 THEN Typed(TRUE, <<1>> \o d) ELSE Typed(TRUE, d)
  <1>1. Typed(TRUE, d).digits = d
    BY DEF Typed
  <1>2. Cut(Typed(TRUE, d).digits) = d
    BY <1>1, NotCut
  <1> QED
    BY <1>2 DEF Rewritten

\* What comes back of a number that a form was filled with.
LEMMA ShownAgain ==
  ASSUME NEW p \in Numbers
  PROVE  SentBack(p) = IF TakenForLocal(p) THEN Typed(TRUE, <<1>> \o p.digits) ELSE p
  <1> DEFINE d == p.digits
  <1>1. p = Typed(TRUE, d) /\ d # <<>>
    BY NumberIs
  <1>2. d \in Seq(Nat) /\ Len(d) \in 8..15
    BY NumberDigits
  <1>3. /\ <<1>> \o d \in Seq(Nat) /\ Len(<<1>> \o d) = Len(d) + 1
        /\ (<<1>> \o d)[1] = 1 /\ <<1>> \o d # <<>>
    BY <1>2, OneInFront
  <1>4. Len(d) \in Nat /\ 8 <= Len(d) /\ Len(d) <= 15
    BY <1>2, Between
  <1> HIDE DEF d
  <1>5. CASE Len(d) = 10
    <2>1. Displayed(p) = Typed(TRUE, <<1>> \o d)
      BY <1>1, <1>5 DEF Displayed, d
    <2>2. Rewritten(Typed(TRUE, <<1>> \o d)) = Typed(TRUE, <<1>> \o d)
      <3>1. Len(<<1>> \o d) <= 15
        BY <1>3, <1>5
      <3> QED
        BY <1>3, <3>1, RewrittenDigits
    <2> QED
      BY <1>3, <1>5, <2>1, <2>2, NormalizedTwice DEF SentBack, TakenForLocal, d
  <1>6. CASE Len(d) # 10
    <2>1. Displayed(p) = Typed(TRUE, d)
      BY <1>1, <1>6 DEF Displayed, d
    <2>2. Len(d) <= 10 <=> Len(d) < 10
      BY <1>4, <1>6, UnlessTen
    <2>3. Rewritten(Typed(TRUE, d)) =
            IF Len(d) < 10 /\ d[1] # 1 THEN Typed(TRUE, <<1>> \o d) ELSE Typed(TRUE, d)
      BY <1>1, <1>2, <1>4, <2>2, RewrittenDigits
    <2>4. CASE Len(d) < 10 /\ d[1] # 1
      BY <1>3, <2>1, <2>3, <2>4, NormalizedTwice DEF SentBack, TakenForLocal, d
    <2>5. CASE ~(Len(d) < 10 /\ d[1] # 1)
      BY <1>1, <1>6, <2>1, <2>3, <2>5, NormalizedTwice DEF SentBack, TakenForLocal, d
    <2> QED
      BY <2>4, <2>5
  <1> QED
    BY <1>5, <1>6

\* The number on the settings page, saved as the page shows it once its script has
\* rewritten it, is the number that was stored, or that number behind a 1 exactly if
\* it was taken for an American one (format_phone, formatPhone and normalize_phone
\* one after the other, on what users.py stores), whatever a client may have typed.
THEOREM ShownNumberIsKept == Spec => []ShownIsKept
  <1>1. Inv => ShownIsKept
    <2> SUFFICES ASSUME Inv, account.phone # None
                 PROVE  SentBack(account.phone) =
                          IF TakenForLocal(account.phone)
                          THEN Typed(TRUE, <<1>> \o account.phone.digits) ELSE account.phone
      BY DEF ShownIsKept
    <2>1. account.phone \in Numbers
      BY AccountFields DEF Inv, TypeInv, TablesOK
    <2> QED
      BY <2>1, ShownAgain
  <1> QED
    BY <1>1, InvInit, InvNext, PTL DEF Spec

=============================================================================
