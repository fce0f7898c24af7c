------------------------------- MODULE Contacts -------------------------------
(***************************************************************************)
(* The contacts of one workspace and their tags (app/routers/api.py,       *)
(* app/routers/web.py), with one row of the contacts page                  *)
(* (app/static/contacts_autosave.js) that saves itself.  A PATCH is two    *)
(* steps: its reads, and its flush and commit, which write the difference  *)
(* between what was read and what was asked.  Allergies go the way of tags.*)
(***************************************************************************)
EXTENDS Naturals, FiniteSets

CONSTANTS
  Ids,          \* contact rows; a deleted row's id is not used again
  Mine,         \* the row the open page edits
  Names, Word,      \* tags by name; Word[n] is n without its case
  FirstTags,    \* the tags there are at the start
  Phones,       \* usable numbers, normalised
  Unusable,     \* a number typed in part
  FirstPhone,   \* the number of Mine at the start
  None,
  Requests,     \* concurrent requests
  MaxEdits, MaxCalls   \* bounds of the instances

ASSUME ContactsAssumption ==
  /\ Mine \in Ids /\ FirstTags \subseteq Names /\ FirstPhone \in Phones
  /\ DOMAIN Word = Names
  /\ {Unusable, None} \cap Phones = {} /\ Unusable # None
  /\ None \notin {"patch", "create", "tag"} /\ \A T \in SUBSET Names : T # None
  /\ {MaxEdits, MaxCalls} \subseteq Nat

VARIABLES
  phone,        \* profiles.phone, None is no row
  tagged,       \* profile_tags
  catalogue,    \* tags
  gone,         \* ids of deleted contacts and tags
  req,          \* each request
  page,         \* the row on the page: ticks, shown number, changes not yet sent
  status,       \* its save status
  edits, calls, \* bound counters
  typed,        \* history: the number typed last
  doubt,        \* history: fields whose last save failed, or was under way with
                \* another
  lost          \* history: what was typed last left the field before it was sent

database == <<phone, tagged, catalogue, gone>>
browser  == <<page, status, edits, typed>>
history == <<doubt, lost>>
vars == <<database, req, browser, calls, history>>

Fields == {"phone", "tags"}
NoChange == [phone |-> None, tags |-> None]
Blank == [at |-> "idle", kind |-> None, body |-> NoChange, alone |-> TRUE,
          seen |-> {}, had |-> None]

FieldsOf(body) == {f \in Fields : body[f] # None}

Init ==
  /\ phone = [i \in Ids |-> IF i = Mine THEN FirstPhone ELSE None]
  /\ tagged = [i \in Ids |-> {}]
  /\ catalogue = FirstTags
  /\ gone = {}
  /\ req = [r \in Requests |-> Blank]
  /\ page = [ticks |-> {}, shown |-> FirstPhone, pending |-> NoChange, dirty |-> FALSE]
  /\ status = "quiet"
  /\ edits = 0 /\ calls = 0
  /\ typed = None /\ doubt = {} /\ lost = FALSE

Flight == {r \in Requests : req[r].kind = "patch"}

-----------------------------------------------------------------------------
(* The page.                                                               *)

\* Seeded fault: a new change takes the place of the ones that wait.
Merged_Last(waiting, body) == body

\* A new change joins the ones that wait.
Merged(waiting, body) ==
  [f \in Fields |-> IF body[f] # None THEN body[f] ELSE waiting[f]]

\* patchContact: nothing keeps a PATCH from overtaking the one before it.
Sent(body) ==
  \E r \in Requests :
    /\ req[r].at = "idle"
    /\ req' = [q \in Requests |->
                 IF q = r THEN [Blank EXCEPT !.at = "sent", !.kind = "patch", !.body = body,
                                             !.alone = (Flight = {})]
                 ELSE [req[q] EXCEPT !.alone = FALSE]]
    /\ status' = "saving"
    /\ doubt' = IF Flight = {} THEN doubt ELSE Fields

\* A box is ticked: the change is sent at once, with what waited.
Tick(t) ==
  LET ticks == IF t \in page.ticks THEN page.ticks \ {t} ELSE page.ticks \cup {t} IN
  /\ edits < MaxEdits /\ edits' = edits + 1
  /\ page' = [page EXCEPT !.ticks = ticks, !.pending = NoChange]
  /\ Sent(Merged(page.pending, [NoChange EXCEPT !.tags = ticks]))
  /\ UNCHANGED <<database, calls, typed, lost>>

\* A number is typed: it waits for the timer.
Type(p) ==
  /\ edits < MaxEdits /\ edits' = edits + 1
  /\ page' = [page EXCEPT !.shown = p, !.dirty = TRUE,
                          !.pending = Merged(page.pending, [NoChange EXCEPT !.phone = p])]
  /\ typed' = p /\ lost' = FALSE
  /\ UNCHANGED <<database, req, status, calls, doubt>>

\* The timer runs out.
Fire ==
  /\ page.pending # NoChange
  /\ Sent(page.pending)
  /\ page' = [page EXCEPT !.pending = NoChange]
  /\ UNCHANGED <<database, edits, calls, typed, lost>>

\* The field is left after it was typed in: what it shows is sent at once.
Leave ==
  /\ page.dirty
  /\ Sent(Merged(page.pending, [NoChange EXCEPT !.phone = page.shown]))
  /\ page' = [page EXCEPT !.pending = NoChange, !.dirty = FALSE]
  /\ lost' = (page.shown # typed)
  /\ UNCHANGED <<database, edits, calls, typed>>

\* The answer: syncDataset shows the number that was saved; the ticks stay.
Saved(r) ==
  /\ req[r].at = "saved"
  /\ status' = "saved"
  /\ page' = [page EXCEPT !.shown = req[r].had]
  /\ doubt' = IF req[r].alone THEN doubt \ FieldsOf(req[r].body) ELSE doubt
  /\ req' = [req EXCEPT ![r] = Blank]
  /\ UNCHANGED <<database, edits, calls, typed, lost>>

\* Refused, failed or lost: only the status says so, and nothing is sent again.
NotSaved(r) ==
  /\ req[r].kind = "patch" /\ req[r].at \in {"sent", "failed", "saved"}
  /\ status' = "error"
  /\ doubt' = doubt \cup FieldsOf(req[r].body)
  /\ req' = [req EXCEPT ![r] = Blank]
  /\ UNCHANGED <<database, page, edits, calls, typed, lost>>

-----------------------------------------------------------------------------
(* The server.                                                             *)

Taken(p, i) == \E j \in Ids \ {i} : phone[j] = p

Goto(r, place) == req' = [req EXCEPT ![r].at = place]

\* update_contact up to its commit: the row, the clash, the tags that exist,
\* and the row's tags of now.
LoadPatch(r) ==
  LET b == req[r].body IN
  /\ req[r].at = "sent"
  /\ IF phone[Mine] = None \/ b.phone = Unusable \/ (b.phone # None /\ Taken(b.phone, Mine))
     THEN Goto(r, "failed")
     ELSE req' = [req EXCEPT ![r].at = "loaded", ![r].seen = tagged[Mine], ![r].had = phone[Mine],
                             ![r].body.tags = IF @ = None THEN None ELSE @ \cap catalogue]
  /\ UNCHANGED <<database, browser, calls, history>>

Added(r)   == IF req[r].body.tags = None THEN {} ELSE req[r].body.tags \ req[r].seen
Dropped(r) == IF req[r].body.tags = None THEN {} ELSE req[r].seen \ req[r].body.tags
NewPhone(r) == req[r].body.phone \notin {None, req[r].had}

\* What the tables refuse: a number or a pair that is there, a tag or a row that
\* is not.
Refused(r) ==
  \/ NewPhone(r) /\ (phone[Mine] = None \/ Taken(req[r].body.phone, Mine))
  \/ Added(r) # {} /\ phone[Mine] = None
  \/ ~(Added(r) \subseteq catalogue \ tagged[Mine])

\* The flush writes the difference and the commit keeps it.
CommitPatch(r) ==
  /\ req[r].at = "loaded" /\ ~Refused(r) /\ phone[Mine] # None
  /\ phone'  = IF NewPhone(r) THEN [phone EXCEPT ![Mine] = req[r].body.phone] ELSE phone
  /\ tagged' = [tagged EXCEPT ![Mine] = (@ \ Dropped(r)) \cup Added(r)]
  /\ req' = [req EXCEPT ![r].at = "saved", ![r].had = phone'[Mine]]
  /\ UNCHANGED <<catalogue, gone, browser, calls, history>>

\* A constraint is violated, the row is gone, or a pair to be deleted is not
\* there and the driver's row count tells.
FailPatch(r) ==
  /\ req[r].at = "loaded"
  /\ Refused(r) \/ phone[Mine] = None \/ ~(Dropped(r) \subseteq tagged[Mine])
  /\ Goto(r, "failed")
  /\ UNCHANGED <<database, browser, calls, history>>

\* One call of another page or of the API.
Call == calls < MaxCalls /\ calls' = calls + 1

\* create_contact, and the form of several contacts: the clash, and the tags that
\* exist, here the same for every row.
LoadCreate(r, P, T) ==
  /\ Call /\ req[r].at = "idle"
  /\ \A p \in P : \A i \in Ids : phone[i] # p
  /\ req' = [req EXCEPT ![r] = [Blank EXCEPT !.at = "loaded", !.kind = "create", !.seen = P,
                                            !.body.tags = T]]
  /\ UNCHANGED <<database, browser, history>>

\* All rows with their pairs, or none: a number is taken or a tag has gone.
CommitCreate(r) ==
  LET P == req[r].seen
      T == req[r].body.tags
  IN
  /\ req[r].at = "loaded" /\ req[r].kind = "create"
  /\ \/ /\ \A p \in P : \A i \in Ids : phone[i] # p
        /\ T \subseteq catalogue
        /\ \E f \in [P -> {i \in Ids : phone[i] = None} \ gone] :
             /\ \A p, q \in P : f[p] = f[q] => p = q
             /\ phone' = [i \in Ids |-> IF \E p \in P : f[p] = i
                                        THEN CHOOSE p \in P : f[p] = i ELSE phone[i]]
             /\ tagged' = [i \in Ids |-> IF \E p \in P : f[p] = i THEN T ELSE tagged[i]]
     \/ /\ (\E p \in P : \E i \in Ids : phone[i] = p) \/ ~(T \subseteq catalogue)
        /\ UNCHANGED <<phone, tagged>>
  /\ req' = [req EXCEPT ![r] = Blank]
  /\ UNCHANGED <<catalogue, gone, browser, calls, history>>

\* delete_contact; the pairs of the contact go with it.
DeleteContact(i) ==
  /\ Call /\ phone[i] # None
  /\ phone' = [phone EXCEPT ![i] = None]
  /\ tagged' = [tagged EXCEPT ![i] = {}]
  /\ gone' = gone \cup {i}
  /\ UNCHANGED <<catalogue, req, browser, history>>

\* Seeded fault: the pairs stay.
Untagged_None(t) == tagged

\* ON DELETE CASCADE of profile_tags.
Untagged(t) == [i \in Ids |-> tagged[i] \ {t}]

DeleteTag(t) ==
  /\ Call /\ t \in catalogue
  /\ catalogue' = catalogue \ {t}
  /\ tagged' = Untagged(t)
  /\ gone' = gone \cup {t}
  /\ UNCHANGED <<phone, req, browser, history>>

\* ilike: the case does not matter.
Known(n) == \E m \in catalogue : Word[m] = Word[n]

\* create_tag: the look, and the INSERT that only the very same name refuses.
LoadTag(r, n) ==
  /\ Call /\ req[r].at = "idle" /\ n \notin gone
  /\ ~Known(n)
  /\ req' = [req EXCEPT ![r] = [Blank EXCEPT !.at = "loaded", !.kind = "tag", !.seen = {n}]]
  /\ UNCHANGED <<database, browser, history>>

CommitTag(r) ==
  /\ req[r].at = "loaded" /\ req[r].kind = "tag"
  /\ catalogue' = catalogue \cup (req[r].seen \ gone)
  /\ req' = [req EXCEPT ![r] = Blank]
  /\ UNCHANGED <<phone, tagged, gone, browser, calls, history>>

-----------------------------------------------------------------------------
Next ==
  \/ \E t \in FirstTags : Tick(t)
  \/ \E p \in Phones \cup {Unusable} : Type(p)
  \/ Fire \/ Leave
  \/ \E r \in Requests :
       \/ Saved(r) \/ NotSaved(r) \/ LoadPatch(r)
       \/ req[r].kind = "patch" /\ (CommitPatch(r) \/ FailPatch(r))
       \/ CommitCreate(r) \/ CommitTag(r)
       \/ \E P \in SUBSET Phones \ {{}}, T \in SUBSET catalogue : LoadCreate(r, P, T)
       \/ \E n \in Names : LoadTag(r, n)
  \/ \E i \in Ids : DeleteContact(i)
  \/ \E t \in catalogue : DeleteTag(t)

Spec == Init /\ [][Next]_vars

-----------------------------------------------------------------------------
(* Properties.                                                             *)

\* Types; the pairs join contacts and tags that exist, and a number is one
\* contact's (models.py:239-301).
TypeOK ==
  /\ phone \in [Ids -> Phones \cup {None}]
  /\ tagged \in [Ids -> SUBSET catalogue]
  /\ catalogue \subseteq Names /\ gone \subseteq Ids \cup Names
  /\ \A i, j \in Ids : phone[i] = phone[j] /\ i # j => phone[i] = None
  /\ \A i \in Ids : phone[i] = None => tagged[i] = {}
  /\ \A r \in Requests : req[r].at \in {"idle", "sent", "loaded", "saved", "failed"}
  /\ page.ticks \subseteq FirstTags
  /\ status \in {"quiet", "saving", "saved", "error"}
  /\ doubt \subseteq Fields

\* Nothing waits and nothing is under way.
Quiet == Flight = {} /\ page.pending = NoChange

\* A row that says "Saved" is saved: the tags ticked and the number typed last are
\* stored, unless saves of the row were under way together, the last one of
\* that field failed, or an earlier answer had overwritten what was typed
\* (contacts_autosave.js:30-99, api.py:532-570).
SavedIsStored ==
  Quiet /\ status = "saved" /\ phone[Mine] # None =>
    /\ "tags" \notin doubt => tagged[Mine] = page.ticks \cap catalogue
    /\ "phone" \notin doubt /\ ~lost /\ typed # None => phone[Mine] = typed

=============================================================================
