---------------------------- MODULE ContactsProofs ----------------------------
(***************************************************************************)
(* Contacts, for any number of contacts, tags and concurrent requests: the *)
(* tables keep their constraints, and a row of the page that says "Saved"  *)
(* is saved.  The invariant says what every PATCH that is under way alone  *)
(* has read and what it is about to write.                                 *)
(***************************************************************************)
EXTENDS Contacts, TLAPS

Numbers == Phones \cup {Unusable}

Bodies == [phone : Numbers \cup {None}, tags : (SUBSET Names) \cup {None}]

RequestSet ==
  [at : {"idle", "sent", "loaded", "saved", "failed"}, kind : {"patch", "create", "tag", None},
   body : Bodies, alone : BOOLEAN, seen : SUBSET (Names \cup Phones), had : Phones \cup {None}]

\* A request that was read knows usable values; only a PATCH waits for an answer.
RequestOK(q) ==
  /\ q.at = "idle" => q.kind = None
  /\ q.at \in {"sent", "saved", "failed"} => q.kind = "patch"
  /\ q.at = "loaded" => /\ q.kind # None
                        /\ q.kind = "patch" => q.seen \subseteq Names /\ q.body.phone # Unusable
                        /\ q.kind = "create" => q.seen \subseteq Phones
                        /\ q.kind = "tag" => q.seen \subseteq Names
  /\ q.at = "saved" => q.had # None

RequestsOK == req \in [Requests -> RequestSet] /\ \A r \in Requests : RequestOK(req[r])

\* Only a number waits, and it is the one typed last.
PageOK ==
  /\ page \in [ticks : SUBSET FirstTags, shown : Numbers,
               pending : [phone : Numbers \cup {None}, tags : {None}], dirty : BOOLEAN]
  /\ page.pending.phone \in {None, typed}
  /\ typed \in Numbers \cup {None} /\ lost \in BOOLEAN /\ doubt \subseteq Fields
  /\ status \in {"quiet", "saving", "saved", "error"}

Unique == \A i, j \in Ids : phone[i] = phone[j] /\ i # j => phone[i] = None

Owned == \A i \in Ids : phone[i] = None => tagged[i] = {}

TablesOK ==
  /\ phone \in [Ids -> Phones \cup {None}]
  /\ tagged \in [Ids -> SUBSET catalogue]
  /\ catalogue \subseteq Names /\ gone \subseteq Ids \cup Names
  /\ Unique /\ Owned

\* What was there once and is not there now does not come back.
Gone ==
  /\ phone[Mine] = None => Mine \in gone
  /\ FirstTags \subseteq catalogue \cup gone

Types == RequestsOK /\ PageOK /\ TablesOK /\ Gone

\* A save that was under way with another leaves every field in doubt.
Together ==
  \A r \in Flight : IF req[r].alone THEN Flight = {r} ELSE doubt = Fields

\* What a PATCH that is alone has read is still so, but for tags deleted since.
ReadOK(r) ==
  /\ req[r].body.tags # None => req[r].body.tags \subseteq catalogue \cup gone
  /\ req[r].at = "loaded" /\ req[r].alone /\ phone[Mine] # None =>
       /\ req[r].seen \subseteq catalogue \cup gone
       /\ tagged[Mine] = req[r].seen \cap catalogue
       /\ req[r].had = phone[Mine]

Reads == \A r \in Flight : ReadOK(r)

Shown == page.ticks \cap catalogue

\* The tags: stored as ticked, unless a PATCH under way brings them.
TagsKept ==
  phone[Mine] # None =>
    /\ (\A r \in Flight : req[r].body.tags = None) /\ "tags" \notin doubt => tagged[Mine] = Shown
    /\ \A r \in Flight : req[r].alone /\ req[r].body.tags # None =>
         /\ req[r].body.tags \cap catalogue = Shown
         /\ req[r].at = "saved" => tagged[Mine] = Shown

\* The number: stored as typed, unless it waits or a PATCH under way brings it.
NumberKept ==
  phone[Mine] # None /\ ~lost /\ page.pending.phone = None =>
    /\ (\A r \in Flight : req[r].body.phone = None) /\ "phone" \notin doubt /\ typed # None =>
         phone[Mine] = typed
    /\ \A r \in Flight : req[r].alone /\ req[r].body.phone # None =>
         /\ req[r].body.phone = typed
         /\ req[r].at = "saved" => phone[Mine] = typed

Kept == Together /\ Reads /\ TagsKept /\ NumberKept

-----------------------------------------------------------------------------
(* Types and tables.                                                       *)

LEMMA BlankIsRequest == Blank \in RequestSet /\ RequestOK(Blank)
  <1>1. NoChange \in Bodies
    BY DEF NoChange, Bodies
  <1>2. Blank \in RequestSet
    BY <1>1 DEF Blank, RequestSet
  <1>3. Blank.at = "idle" /\ Blank.kind = None
    BY DEF Blank
  <1> QED
    BY <1>2, <1>3 DEF RequestOK

LEMMA TypesInit == Init => Types
  <1> SUFFICES ASSUME Init PROVE Types
    OBVIOUS
  <1>1. RequestsOK
    BY BlankIsRequest DEF Init, RequestsOK
  <1>2. PageOK
    BY ContactsAssumption DEF Init, PageOK, Numbers, NoChange
  <1>3. TablesOK
    BY ContactsAssumption DEF Init, TablesOK, Unique, Owned
  <1>4. Gone
    BY ContactsAssumption DEF Init, Gone
  <1> QED
    BY <1>1, <1>2, <1>3, <1>4 DEF Types

\* A PATCH leaves as a new request, and no other one is alone any more.
LEMMA SentRequest ==
  ASSUME RequestsOK, NEW body \in Bodies, Sent(body)
  PROVE  RequestsOK' /\ \E r \in Requests :
           /\ r \notin Flight /\ Flight' = Flight \cup {r}
           /\ req'[r].at = "sent" /\ req'[r].body = body /\ req'[r].alone = (Flight = {})
           /\ \A q \in Requests \ {r} :
                req'[q].alone = FALSE /\ req'[q].body = req[q].body /\ req'[q].at = req[q].at
                /\ req'[q].seen = req[q].seen /\ req'[q].had = req[q].had
  <1>1. PICK r \in Requests :
          /\ req[r].at = "idle"
          /\ req' = [q \in Requests |->
                 IF q = r THEN [Blank EXCEPT !.at = "sent", !.kind = "patch", !.body = body,
                                             !.alone = (Flight = {})]
                 ELSE [req[q] EXCEPT !.alone = FALSE]]
    BY DEF Sent
  <1> DEFINE new == [Blank EXCEPT !.at = "sent", !.kind = "patch", !.body = body, !.alone = (Flight = {})]
  <1>2. new \in RequestSet /\ RequestOK(new) /\ new.kind = "patch"
        /\ new.at = "sent" /\ new.body = body /\ new.alone = (Flight = {})
    BY BlankIsRequest, ContactsAssumption DEF Blank, RequestSet, RequestOK
  <1>3. req'[r] = new
    BY <1>1
  <1>4. ASSUME NEW q \in Requests \ {r}
        PROVE  /\ req'[q] = [req[q] EXCEPT !.alone = FALSE] /\ req'[q] \in RequestSet
               /\ RequestOK(req'[q]) /\ req'[q].kind = req[q].kind
               /\ req'[q].alone = FALSE /\ req'[q].body = req[q].body /\ req'[q].at = req[q].at
               /\ req'[q].seen = req[q].seen /\ req'[q].had = req[q].had
    <2>1. req'[q] = [req[q] EXCEPT !.alone = FALSE]
      BY <1>1
    <2>2. req[q] \in RequestSet /\ RequestOK(req[q])
      BY DEF RequestsOK
    <2> QED
      BY <2>1, <2>2 DEF RequestSet, RequestOK
  <1>5. RequestsOK'
    BY <1>1, <1>2, <1>3, <1>4 DEF RequestsOK
  <1>6. r \notin Flight
    BY <1>1, ContactsAssumption DEF Flight, RequestsOK, RequestOK
  <1>7. Flight' = Flight \cup {r}
    <2>1. \A q \in Requests : (req'[q].kind = "patch") = (req[q].kind = "patch" \/ q = r)
      BY ZenonT(60), <1>2, <1>3, <1>4
    <2> QED
      BY <2>1 DEF Flight
  <1>8. req'[r].at = "sent" /\ req'[r].body = body /\ req'[r].alone = (Flight = {})
    BY <1>2, <1>3
  <1>9. \A q \in Requests \ {r} :
          req'[q].alone = FALSE /\ req'[q].body = req[q].body /\ req'[q].at = req[q].at
          /\ req'[q].seen = req[q].seen /\ req'[q].had = req[q].had
    BY <1>4
  <1> HIDE DEF new
  <1> QED
    BY <1>5, <1>6, <1>7, <1>8, <1>9, Zenon

\* One request changes.
LEMMA OneRequest ==
  ASSUME RequestsOK, NEW r \in Requests, NEW new \in RequestSet, RequestOK(new),
         req' = [req EXCEPT ![r] = new]
  PROVE  RequestsOK' /\ req'[r] = new /\ \A q \in Requests \ {r} : req'[q] = req[q]
  BY DEF RequestsOK

\* A request goes to its next place.
LEMMA GotoRequest ==
  ASSUME RequestsOK, NEW r \in Requests, Goto(r, "failed"), req[r].kind = "patch"
  PROVE  RequestsOK' /\ req'[r] = [req[r] EXCEPT !.at = "failed"]
         /\ \A q \in Requests \ {r} : req'[q] = req[q]
  <1> DEFINE new == [req[r] EXCEPT !.at = "failed"]
  <1>1. new \in RequestSet /\ RequestOK(new)
    BY DEF RequestsOK, RequestSet, RequestOK
  <1>2. req' = [req EXCEPT ![r] = new]
    BY DEF Goto
  <1> QED
    BY <1>1, <1>2, OneRequest

\* The PATCH that is read.
LEMMA LoadedRequest ==
  ASSUME RequestsOK, TablesOK, NEW r \in Requests, req[r].at = "sent", phone[Mine] # None,
         req[r].body.phone # Unusable,
         req' = [req EXCEPT ![r].at = "loaded", ![r].seen = tagged[Mine], ![r].had = phone[Mine],
                            ![r].body.tags = IF @ = None THEN None ELSE @ \cap catalogue]
  PROVE  /\ RequestsOK'
         /\ \A q \in Requests \ {r} : req'[q] = req[q]
         /\ req'[r].at = "loaded" /\ req'[r].seen = tagged[Mine] /\ req'[r].had = phone[Mine]
         /\ req'[r].kind = req[r].kind /\ req'[r].alone = req[r].alone
         /\ req'[r].body.phone = req[r].body.phone
         /\ req[r].body.tags = None => req'[r].body.tags = None
         /\ req[r].body.tags # None => /\ req'[r].body.tags # None
                                       /\ req'[r].body.tags = req[r].body.tags \cap catalogue
  <1> DEFINE tags == IF req[r].body.tags = None THEN None ELSE req[r].body.tags \cap catalogue
             body == [req[r].body EXCEPT !.tags = tags]
             new  == [req[r] EXCEPT !.at = "loaded", !.seen = tagged[Mine], !.had = phone[Mine], !.body = body]
  <1>1. req[r] \in RequestSet /\ RequestOK(req[r]) /\ req[r].kind = "patch"
    BY DEF RequestsOK, RequestOK
  <1>2. req[r].body \in Bodies
    BY <1>1 DEF RequestSet
  <1>3. /\ req[r].body.tags # None => tags \in SUBSET Names /\ tags # None
        /\ req[r].body.tags = None => tags = None
    BY <1>2, ContactsAssumption DEF Bodies
  <1> HIDE DEF tags
  <1>4. body \in Bodies /\ body.phone = req[r].body.phone /\ body.tags = tags
    BY <1>2, <1>3 DEF Bodies
  <1>5. tagged[Mine] \in SUBSET Names /\ phone[Mine] \in Phones
    BY ContactsAssumption DEF TablesOK
  <1>6. req' = [req EXCEPT ![r] = new]
    BY ZenonT(60) DEF RequestsOK, tags
  <1> HIDE DEF body
  <1>7. new \in RequestSet /\ RequestOK(new)
    BY <1>1, <1>4, <1>5, ContactsAssumption DEF RequestSet, RequestOK
  <1>8. /\ new.at = "loaded" /\ new.seen = tagged[Mine] /\ new.had = phone[Mine]
        /\ new.kind = req[r].kind /\ new.alone = req[r].alone /\ new.body = body
    BY <1>1 DEF RequestSet
  <1>9. RequestsOK' /\ req'[r] = new /\ \A q \in Requests \ {r} : req'[q] = req[q]
    BY <1>6, <1>7, OneRequest
  <1>10. req[r].body.tags # None => tags = req[r].body.tags \cap catalogue
    BY DEF tags
  <1> QED
    BY <1>3, <1>4, <1>8, <1>9, <1>10

\* The PATCH that is stored.
LEMMA StoredRequest ==
  ASSUME RequestsOK, TablesOK, NEW r \in Requests, req[r].kind = "patch", CommitPatch(r)
  PROVE  /\ RequestsOK' /\ TablesOK'
         /\ \A q \in Requests \ {r} : req'[q] = req[q]
         /\ req'[r].at = "saved" /\ req'[r].kind = "patch" /\ req'[r].alone = req[r].alone
         /\ req'[r].body = req[r].body
         /\ phone[Mine] # None /\ phone'[Mine] # None
         /\ phone'[Mine] = IF NewPhone(r) THEN req[r].body.phone ELSE phone[Mine]
         /\ tagged'[Mine] = (tagged[Mine] \ Dropped(r)) \cup Added(r)
         /\ Added(r) \subseteq catalogue
         /\ \A i \in Ids \ {Mine} : phone'[i] = phone[i] /\ tagged'[i] = tagged[i]
  <1>1. req[r] \in RequestSet /\ req[r].body.phone \in Phones \cup {None}
    BY DEF RequestsOK, RequestOK, CommitPatch, RequestSet, Bodies, Numbers
  <1>2. /\ phone[Mine] # None
        /\ NewPhone(r) => ~Taken(req[r].body.phone, Mine)
        /\ Added(r) \subseteq catalogue \ tagged[Mine]
        /\ phone'  = IF NewPhone(r) THEN [phone EXCEPT ![Mine] = req[r].body.phone] ELSE phone
        /\ tagged' = [tagged EXCEPT ![Mine] = (@ \ Dropped(r)) \cup Added(r)]
        /\ UNCHANGED <<catalogue, gone>>
    BY DEF CommitPatch, Refused
  <1>3. /\ phone'[Mine] = IF NewPhone(r) THEN req[r].body.phone ELSE phone[Mine]
        /\ \A i \in Ids \ {Mine} : phone'[i] = phone[i] /\ tagged'[i] = tagged[i]
        /\ tagged'[Mine] = (tagged[Mine] \ Dropped(r)) \cup Added(r)
    BY <1>2, ContactsAssumption DEF TablesOK
  <1>4. phone'[Mine] \in Phones
    BY <1>1, <1>2, <1>3, ContactsAssumption DEF NewPhone, TablesOK
  <1>5. TablesOK'
    <2>1. phone' \in [Ids -> Phones \cup {None}]
      BY <1>1, <1>2 DEF TablesOK
    <2>2. tagged' \in [Ids -> SUBSET catalogue']
      BY <1>2 DEF TablesOK
    <2>3. Unique'
      <3>1. ASSUME NEW i \in Ids, NEW j \in Ids, phone'[i] = phone'[j], i # j PROVE phone'[i] = None
        BY <1>2, <1>3, <3>1 DEF TablesOK, Unique, Taken
      <3> QED
        BY <3>1 DEF Unique
    <2>4. Owned'
      BY <1>3, <1>4, ContactsAssumption DEF TablesOK, Owned
    <2> QED
      BY <1>2, <2>1, <2>2, <2>3, <2>4 DEF TablesOK
  <1> DEFINE new == [req[r] EXCEPT !.at = "saved", !.had = phone'[Mine]]
  <1>6. req' = [req EXCEPT ![r] = new]
    <2>1. req' = [req EXCEPT ![r].at = "saved", ![r].had = phone'[Mine]]
      BY DEF CommitPatch
    <2> QED
      BY <2>1 DEF RequestsOK
  <1>7. /\ new \in RequestSet /\ new.at = "saved" /\ new.kind = "patch" /\ new.had # None
        /\ new.alone = req[r].alone /\ new.body = req[r].body
    BY <1>1, <1>4, ContactsAssumption DEF RequestSet
  <1>8. RequestOK(new)
    BY <1>7, ContactsAssumption DEF RequestOK
  <1> HIDE DEF new
  <1> QED
    BY ZenonT(60), <1>2, <1>3, <1>4, <1>5, <1>6, <1>7, <1>8, OneRequest, ContactsAssumption

\* A number joins what waits, and ticks are sent with it.
LEMMA MergedBody ==
  ASSUME NEW a \in Bodies, NEW b \in Bodies
  PROVE  /\ Merged(a, b) \in Bodies
         /\ Merged(a, b).phone = IF b.phone # None THEN b.phone ELSE a.phone
         /\ Merged(a, b).tags = IF b.tags # None THEN b.tags ELSE a.tags
  <1> DEFINE m == [phone |-> IF b.phone # None THEN b.phone ELSE a.phone,
                   tags |-> IF b.tags # None THEN b.tags ELSE a.tags]
  <1>1. Merged(a, b) = m
    BY DEF Merged, Fields, Bodies
  <1>2. m \in Bodies
    BY DEF Bodies
  <1> QED
    BY <1>1, <1>2

LEMMA FieldsOfBody ==
  ASSUME NEW b \in Bodies
  PROVE  /\ "phone" \in FieldsOf(b) <=> b.phone # None
         /\ "tags" \in FieldsOf(b) <=> b.tags # None
         /\ FieldsOf(b) \subseteq Fields
  BY DEF FieldsOf, Fields, Bodies

LEMMA NewBodies ==
  /\ \A ticks \in SUBSET Names : LET b == [NoChange EXCEPT !.tags = ticks] IN
       b \in Bodies /\ b.phone = None /\ b.tags = ticks /\ ticks # None
  /\ \A p \in Numbers : LET b == [NoChange EXCEPT !.phone = p] IN
       b \in Bodies /\ b.tags = None /\ b.phone = p /\ p # None
  BY ContactsAssumption DEF NoChange, Bodies, Numbers

\* What the page sends, and what it is left with.
LEMMA PendingBody ==
  ASSUME PageOK
  PROVE  /\ page.pending \in Bodies /\ page.pending.tags = None
         /\ page.pending.phone \in {None, typed} /\ page.shown \in Numbers
         /\ page.ticks \in SUBSET FirstTags /\ FirstTags \subseteq Names
         /\ (page.pending = NoChange) = (page.pending.phone = None)
  <1>1. page.pending \in [phone : Numbers \cup {None}, tags : {None}]
    BY DEF PageOK
  <1>2. page.pending \in Bodies /\ page.pending.tags = None
    BY <1>1 DEF Bodies
  <1>3. (page.pending = NoChange) = (page.pending.phone = None)
    BY <1>1 DEF NoChange
  <1> QED
    BY <1>2, <1>3, ContactsAssumption DEF PageOK

LEMMA SentPage ==
  ASSUME PageOK, NEW body, Sent(body)
  PROVE  /\ status' \in {"quiet", "saving", "saved", "error"} /\ doubt' \subseteq Fields
         /\ doubt' = IF Flight = {} THEN doubt ELSE Fields
  BY DEF Sent, PageOK

LEMMA EmptyPending ==
  NoChange \in [phone : Numbers \cup {None}, tags : {None}] /\ NoChange.phone = None
  BY DEF NoChange

LEMMA TickSends ==
  ASSUME PageOK, NEW t \in FirstTags, Tick(t)
  PROVE  /\ PageOK' /\ UNCHANGED <<database, typed, lost>>
         /\ page'.pending.phone = None
         /\ \E body \in Bodies : /\ Sent(body)
                                 /\ body.tags = page'.ticks /\ body.tags # None
                                 /\ body.phone = page.pending.phone
  <1> DEFINE ticks == IF t \in page.ticks THEN page.ticks \ {t} ELSE page.ticks \cup {t}
             b == [NoChange EXCEPT !.tags = ticks]
             body == Merged(page.pending, b)
  <1>1. /\ Sent(body) /\ UNCHANGED <<database, typed, lost>>
        /\ page' = [page EXCEPT !.ticks = ticks, !.pending = NoChange]
    BY DEF Tick
  <1>2. ticks \in SUBSET FirstTags /\ ticks \in SUBSET Names
    BY PendingBody
  <1> HIDE DEF ticks
  <1>3. b \in Bodies /\ b.phone = None /\ b.tags = ticks /\ ticks # None
    BY <1>2, NewBodies
  <1> HIDE DEF b
  <1>4. body \in Bodies /\ body.phone = page.pending.phone /\ body.tags = ticks
    BY <1>3, PendingBody, MergedBody
  <1> HIDE DEF body
  <1>5. page'.pending.phone = None /\ page'.ticks = ticks
    BY <1>1, EmptyPending DEF PageOK
  <1>6. PageOK'
    BY <1>1, <1>2, <1>5, SentPage, EmptyPending DEF PageOK
  <1> QED
    BY <1>1, <1>3, <1>4, <1>5, <1>6

LEMMA FireSends ==
  ASSUME PageOK, Fire
  PROVE  /\ PageOK' /\ UNCHANGED <<database, typed, lost>> /\ page'.ticks = page.ticks
         /\ page'.pending.phone = None
         /\ page.pending \in Bodies /\ Sent(page.pending)
         /\ page.pending.tags = None /\ page.pending.phone # None /\ page.pending.phone = typed
  <1>1. /\ Sent(page.pending) /\ UNCHANGED <<database, typed, lost>> /\ page.pending # NoChange
        /\ page' = [page EXCEPT !.pending = NoChange]
    BY DEF Fire
  <1>2. page'.pending = NoChange /\ page'.ticks = page.ticks
    BY <1>1 DEF PageOK
  <1>3. PageOK'
    BY <1>1, <1>2, SentPage, EmptyPending DEF PageOK
  <1> QED
    BY <1>1, <1>2, <1>3, PendingBody, EmptyPending

LEMMA LeaveSends ==
  ASSUME PageOK, Leave
  PROVE  /\ PageOK' /\ UNCHANGED <<database, typed>> /\ page'.ticks = page.ticks
         /\ page'.pending.phone = None
         /\ lost' = (page.shown # typed)
         /\ \E body \in Bodies : /\ Sent(body)
                                 /\ body.tags = None
                                 /\ body.phone = page.shown /\ body.phone # None
  <1> DEFINE b == [NoChange EXCEPT !.phone = page.shown]
             body == Merged(page.pending, b)
  <1>1. /\ Sent(body) /\ UNCHANGED <<database, typed>> /\ lost' = (page.shown # typed)
        /\ page' = [page EXCEPT !.pending = NoChange, !.dirty = FALSE]
    BY DEF Leave
  <1>2. b \in Bodies /\ b.tags = None /\ b.phone = page.shown /\ page.shown # None
    BY PendingBody, NewBodies
  <1> HIDE DEF b
  <1>3. body \in Bodies /\ body.phone = page.shown /\ body.tags = None
    BY <1>2, PendingBody, MergedBody
  <1> HIDE DEF body
  <1>4. page'.pending = NoChange /\ page'.ticks = page.ticks
    BY <1>1 DEF PageOK
  <1>5. PageOK'
    BY <1>1, <1>4, SentPage, EmptyPending DEF PageOK
  <1> QED
    BY <1>1, <1>2, <1>3, <1>4, <1>5, EmptyPending

LEMMA TypeWaits ==
  ASSUME PageOK, NEW p \in Phones \cup {Unusable}, Type(p)
  PROVE  /\ PageOK' /\ UNCHANGED <<database, req, doubt>> /\ page'.ticks = page.ticks
         /\ page'.pending.phone # None
  <1> DEFINE b == [NoChange EXCEPT !.phone = p]
             body == Merged(page.pending, b)
  <1>1. /\ typed' = p /\ lost' = FALSE /\ UNCHANGED <<database, req, doubt, status>>
        /\ page' = [page EXCEPT !.shown = p, !.dirty = TRUE, !.pending = body]
    BY DEF Type
  <1>2. p \in Numbers /\ b \in Bodies /\ b.tags = None /\ b.phone = p /\ p # None
    BY NewBodies DEF Numbers
  <1> HIDE DEF b
  <1>3. body \in Bodies /\ body.phone = p /\ body.tags = None
    BY <1>2, PendingBody, MergedBody
  <1> HIDE DEF body
  <1>4. body \in [phone : Numbers \cup {None}, tags : {None}]
    BY <1>3 DEF Bodies
  <1>5. page'.pending = body /\ page'.ticks = page.ticks
    BY <1>1 DEF PageOK
  <1>6. PageOK'
    BY <1>1, <1>2, <1>3, <1>4, <1>5 DEF PageOK
  <1> QED
    BY <1>1, <1>2, <1>3, <1>5, <1>6

\* What the calls of others may do to the row of the page: it is deleted, and
\* tags are; no tag that is gone comes back, and no PATCH of the page is touched.
Elsewhere ==
  /\ catalogue \cup gone \subseteq catalogue' \cup gone'
  /\ (catalogue' \ catalogue) \cap gone = {}
  /\ phone'[Mine] # None => phone'[Mine] = phone[Mine] /\ tagged'[Mine] = tagged[Mine] \cap catalogue'
  /\ Flight' = Flight /\ \A r \in Flight : req'[r] = req[r]
  /\ UNCHANGED <<browser, history>>

LEMMA OtherRequest ==
  ASSUME RequestsOK, NEW r \in Requests, NEW new \in RequestSet, RequestOK(new),
         req' = [req EXCEPT ![r] = new], new.kind # "patch", req[r].kind # "patch"
  PROVE  RequestsOK' /\ Flight' = Flight /\ \A q \in Flight : req'[q] = req[q]
  <1>1. RequestsOK' /\ req'[r] = new /\ \A q \in Requests \ {r} : req'[q] = req[q]
    BY OneRequest
  <1>2. \A q \in Requests : (req'[q].kind = "patch") = (req[q].kind = "patch")
    BY <1>1
  <1> QED
    BY <1>1, <1>2 DEF Flight

LEMMA LoadCreateElsewhere ==
  ASSUME Types, NEW r \in Requests, NEW P \in SUBSET Phones, NEW T \in SUBSET catalogue, LoadCreate(r, P, T)
  PROVE  Types' /\ Elsewhere
  <1> DEFINE new == [Blank EXCEPT !.at = "loaded", !.kind = "create", !.seen = P, !.body.tags = T]
  <1>1. /\ req[r].at = "idle" /\ req' = [req EXCEPT ![r] = new]
        /\ UNCHANGED <<database, browser, history>>
    BY DEF LoadCreate
  <1>2. T \in SUBSET Names /\ T # None
    BY ContactsAssumption DEF Types, TablesOK
  <1>3. new \in RequestSet /\ new.at = "loaded" /\ new.kind = "create" /\ new.seen = P
    <2> DEFINE body == [NoChange EXCEPT !.tags = T]
    <2>1. body \in Bodies
      BY <1>2, NewBodies
    <2>2. new = [Blank EXCEPT !.at = "loaded", !.kind = "create", !.seen = P, !.body = body]
      BY DEF Blank
    <2> HIDE DEF new, body
    <2> QED
      BY <2>1, <2>2, BlankIsRequest DEF RequestSet
  <1> HIDE DEF new
  <1>4. RequestOK(new) /\ req[r].kind # "patch"
    BY <1>1, <1>3, ContactsAssumption DEF RequestOK, Types, RequestsOK
  <1>5. RequestsOK' /\ Flight' = Flight /\ \A q \in Flight : req'[q] = req[q]
    BY <1>1, <1>3, <1>4, OtherRequest DEF Types
  <1>6. PageOK' /\ TablesOK' /\ Gone'
    BY <1>1 DEF Types, database, browser, history, PageOK, TablesOK, Unique, Owned, Gone
  <1>7. tagged'[Mine] = tagged[Mine] \cap catalogue'
    BY <1>1, ContactsAssumption DEF database, Types, TablesOK
  <1> QED
    BY <1>1, <1>5, <1>6, <1>7 DEF Types, Elsewhere, database

LEMMA LoadTagElsewhere ==
  ASSUME Types, NEW r \in Requests, NEW n \in Names, LoadTag(r, n)
  PROVE  Types' /\ Elsewhere
  <1> DEFINE new == [Blank EXCEPT !.at = "loaded", !.kind = "tag", !.seen = {n}]
  <1>1. /\ req[r].at = "idle" /\ req' = [req EXCEPT ![r] = new]
        /\ UNCHANGED <<database, browser, history>>
    BY DEF LoadTag
  <1>2. new \in RequestSet /\ new.at = "loaded" /\ new.kind = "tag" /\ new.seen = {n}
    BY BlankIsRequest DEF Blank, RequestSet
  <1> HIDE DEF new
  <1>3. RequestOK(new) /\ req[r].kind # "patch"
    BY <1>1, <1>2, ContactsAssumption DEF RequestOK, Types, RequestsOK
  <1>4. RequestsOK' /\ Flight' = Flight /\ \A q \in Flight : req'[q] = req[q]
    BY <1>1, <1>2, <1>3, OtherRequest DEF Types
  <1>5. PageOK' /\ TablesOK' /\ Gone'
    BY <1>1 DEF Types, database, browser, history, PageOK, TablesOK, Unique, Owned, Gone
  <1>6. tagged'[Mine] = tagged[Mine] \cap catalogue'
    BY <1>1, ContactsAssumption DEF database, Types, TablesOK
  <1> QED
    BY <1>1, <1>4, <1>5, <1>6 DEF Types, Elsewhere, database

LEMMA CommitTagElsewhere ==
  ASSUME Types, NEW r \in Requests, CommitTag(r)
  PROVE  Types' /\ Elsewhere
  <1>1. /\ req[r].at = "loaded" /\ req[r].kind = "tag" /\ req' = [req EXCEPT ![r] = Blank]
        /\ catalogue' = catalogue \cup (req[r].seen \ gone)
        /\ UNCHANGED <<phone, tagged, gone, browser, history>>
    BY DEF CommitTag
  <1>2. req[r].seen \subseteq Names /\ Blank.kind # "patch"
    BY <1>1, ContactsAssumption DEF Types, RequestsOK, RequestOK, Blank
  <1>3. RequestsOK' /\ Flight' = Flight /\ \A q \in Flight : req'[q] = req[q]
    BY <1>1, <1>2, BlankIsRequest, OtherRequest DEF Types
  <1>4. TablesOK'
    BY <1>1, <1>2 DEF Types, TablesOK, Unique, Owned
  <1>5. PageOK' /\ Gone'
    BY <1>1 DEF Types, browser, history, PageOK, Gone
  <1>6. tagged'[Mine] = tagged[Mine] \cap catalogue'
    BY <1>1, ContactsAssumption DEF Types, TablesOK
  <1> QED
    BY <1>1, <1>3, <1>4, <1>5, <1>6 DEF Types, Elsewhere

LEMMA DeleteContactElsewhere ==
  ASSUME Types, NEW i \in Ids, DeleteContact(i)
  PROVE  Types' /\ Elsewhere
  <1>1. /\ phone' = [phone EXCEPT ![i] = None] /\ tagged' = [tagged EXCEPT ![i] = {}]
        /\ gone' = gone \cup {i}
        /\ UNCHANGED <<catalogue, req, browser, history>>
    BY DEF DeleteContact
  <1>2. RequestsOK' /\ PageOK'
    BY <1>1 DEF Types, RequestsOK, browser, history, PageOK
  <1>3. TablesOK'
    BY <1>1 DEF Types, TablesOK, Unique, Owned
  <1>4. Gone'
    BY <1>1, ContactsAssumption DEF Types, Gone, TablesOK
  <1>5. phone'[Mine] # None => phone'[Mine] = phone[Mine] /\ tagged'[Mine] = tagged[Mine] \cap catalogue'
    BY <1>1, ContactsAssumption DEF Types, TablesOK
  <1> QED
    BY <1>1, <1>2, <1>3, <1>4, <1>5 DEF Types, Elsewhere, Flight

LEMMA DeleteTagElsewhere ==
  ASSUME Types, NEW t \in catalogue, DeleteTag(t)
  PROVE  Types' /\ Elsewhere
  <1>1. /\ catalogue' = catalogue \ {t} /\ tagged' = [i \in Ids |-> tagged[i] \ {t}]
        /\ gone' = gone \cup {t}
        /\ UNCHANGED <<phone, req, browser, history>>
    BY DEF DeleteTag, Untagged
  <1>2. RequestsOK' /\ PageOK'
    BY <1>1 DEF Types, RequestsOK, browser, history, PageOK
  <1>3. TablesOK'
    BY <1>1 DEF Types, TablesOK, Unique, Owned
  <1>4. Gone'
    BY <1>1 DEF Types, Gone
  <1>5. tagged'[Mine] = tagged[Mine] \cap catalogue'
    BY <1>1, ContactsAssumption DEF Types, TablesOK
  <1> QED
    BY <1>1, <1>2, <1>3, <1>4, <1>5 DEF Types, Elsewhere, Flight

LEMMA CommitCreateElsewhere ==
  ASSUME Types, NEW r \in Requests, CommitCreate(r)
  PROVE  Types' /\ Elsewhere
  <1> DEFINE P == req[r].seen
             T == req[r].body.tags
  <1>1. /\ req[r].at = "loaded" /\ req[r].kind = "create" /\ req' = [req EXCEPT ![r] = Blank]
        /\ UNCHANGED <<catalogue, gone, browser, history>>
    BY DEF CommitCreate
  <1>2. P \subseteq Phones /\ Blank.kind # "patch"
    BY <1>1, ContactsAssumption DEF Types, RequestsOK, RequestOK, Blank
  <1>3. RequestsOK' /\ Flight' = Flight /\ \A q \in Flight : req'[q] = req[q]
    BY <1>1, <1>2, BlankIsRequest, OtherRequest DEF Types
  <1>4. PageOK'
    BY <1>1 DEF Types, browser, history, PageOK
  <1>5. /\ TablesOK' /\ Gone'
        /\ phone'[Mine] # None => phone'[Mine] = phone[Mine] /\ tagged'[Mine] = tagged[Mine]
    <2>1. CASE UNCHANGED <<phone, tagged>>
      BY <1>1, <2>1 DEF Types, TablesOK, Unique, Owned, Gone
    <2>2. CASE ~UNCHANGED <<phone, tagged>>
      <3>1. PICK f \in [P -> {i \in Ids : phone[i] = None} \ gone] :
              /\ \A p, q \in P : f[p] = f[q] => p = q
              /\ phone' = [i \in Ids |-> IF \E p \in P : f[p] = i
                                         THEN CHOOSE p \in P : f[p] = i ELSE phone[i]]
              /\ tagged' = [i \in Ids |-> IF \E p \in P : f[p] = i THEN T ELSE tagged[i]]
        BY <2>2 DEF CommitCreate
      <3>2. (\A p \in P : \A i \in Ids : phone[i] # p) /\ T \subseteq catalogue
        BY <2>2 DEF CommitCreate
      <3>3. ASSUME NEW i \in Ids, NEW p \in P, f[p] = i
            PROVE  phone'[i] = p /\ tagged'[i] = T /\ phone[i] = None /\ i \notin gone
        <4>1. phone'[i] \in P /\ f[phone'[i]] = i
          BY <3>1, <3>3
        <4> QED
          BY <3>1, <3>3, <4>1
      <3>4. ASSUME NEW i \in Ids, ~\E p \in P : f[p] = i
            PROVE  phone'[i] = phone[i] /\ tagged'[i] = tagged[i]
        BY <3>1, <3>4
      <3>5. \A i \in Ids : \/ phone'[i] \in P /\ f[phone'[i]] = i /\ tagged'[i] = T
                           \/ phone'[i] = phone[i] /\ tagged'[i] = tagged[i]
        BY <3>3, <3>4
      <3>6. phone' \in [Ids -> Phones \cup {None}]
        <4>1. \A i \in Ids : phone'[i] \in Phones \cup {None}
          BY <1>2, <3>5 DEF Types, TablesOK
        <4> QED
          BY <3>1, <4>1
      <3>7. tagged' \in [Ids -> SUBSET catalogue']
        <4>1. \A i \in Ids : tagged'[i] \subseteq catalogue
          BY <3>2, <3>5 DEF Types, TablesOK
        <4> QED
          BY <1>1, <3>1, <4>1
      <3>8. Unique'
        <4>1. ASSUME NEW i \in Ids, NEW j \in Ids, phone'[i] = phone'[j], i # j PROVE phone'[i] = None
          BY <3>2, <3>5, <4>1 DEF Types, TablesOK, Unique
        <4> QED
          BY <4>1 DEF Unique
      <3>9. Owned'
        BY <1>2, <3>5, ContactsAssumption DEF Types, TablesOK, Owned
      <3>10. Mine \in gone \/ phone[Mine] # None
        BY DEF Types, Gone
      <3>11. ~\E p \in P : f[p] = Mine
        BY <3>3, <3>10, ContactsAssumption
      <3>12. phone'[Mine] = phone[Mine] /\ tagged'[Mine] = tagged[Mine]
        BY <3>4, <3>11, ContactsAssumption
      <3> QED
        BY <1>1, <3>6, <3>7, <3>8, <3>9, <3>12 DEF Types, TablesOK, Gone
    <2> QED
      BY <2>1, <2>2
  <1>6. phone'[Mine] # None => phone'[Mine] = phone[Mine] /\ tagged'[Mine] = tagged[Mine] \cap catalogue'
    BY <1>1, <1>5, ContactsAssumption DEF Types, TablesOK
  <1> QED
    BY <1>1, <1>3, <1>4, <1>5, <1>6 DEF Types, Elsewhere

-----------------------------------------------------------------------------
(* What is kept.                                                           *)

LEMMA KeptInit == Init => Kept
  <1> SUFFICES ASSUME Init PROVE Kept
    OBVIOUS
  <1>1. Flight = {}
    BY ContactsAssumption DEF Init, Flight, Blank
  <1>2. tagged[Mine] = {} /\ page.ticks = {} /\ typed = None
    BY ContactsAssumption DEF Init
  <1> QED
    BY <1>1, <1>2 DEF Kept, Together, Reads, TagsKept, NumberKept, Shown

LEMMA KeptElsewhere ==
  ASSUME Types, Types', Kept, Elsewhere
  PROVE  Kept'
  <1>1. UNCHANGED <<page, typed, doubt, lost>>
    BY DEF Elsewhere, browser, history
  <1>2. Together'
    BY <1>1 DEF Kept, Together, Elsewhere
  <1>3. Reads'
    <2>1. ASSUME NEW r \in Flight PROVE ReadOK(r)'
      BY DEF Elsewhere, Kept, Reads, ReadOK
    <2> QED
      BY <2>1 DEF Reads, Elsewhere
  <1>4. phone'[Mine] # None =>
          /\ phone[Mine] = phone'[Mine]
          /\ tagged[Mine] = Shown => tagged'[Mine] = Shown'
    BY <1>1 DEF Elsewhere, Shown, Types, Gone, PageOK
  <1>5. TagsKept'
    <2> SUFFICES ASSUME phone'[Mine] # None PROVE TagsKept'
      BY DEF TagsKept
    <2>1. (\A r \in Flight' : req'[r].body.tags = None) /\ "tags" \notin doubt' => tagged'[Mine] = Shown'
      BY <1>1, <1>4 DEF Elsewhere, Kept, TagsKept
    <2>2. ASSUME NEW r \in Flight', req'[r].alone, req'[r].body.tags # None
          PROVE  /\ req'[r].body.tags \cap catalogue' = Shown'
                 /\ req'[r].at = "saved" => tagged'[Mine] = Shown'
      <3>1. r \in Flight /\ req'[r] = req[r]
        BY DEF Elsewhere
      <3>2. /\ req[r].body.tags \cap catalogue = Shown
            /\ req[r].at = "saved" => tagged[Mine] = Shown
            /\ req[r].body.tags \subseteq catalogue \cup gone
        BY <1>4, <2>2, <3>1 DEF Kept, TagsKept, Reads, ReadOK
      <3>3. page.ticks \subseteq catalogue \cup gone /\ page' = page
        BY <1>1 DEF Types, PageOK, Gone
      <3>4. req[r].body.tags \cap catalogue' = page.ticks \cap catalogue'
        BY <3>2, <3>3 DEF Elsewhere, Shown
      <3> QED
        BY <1>4, <3>1, <3>2, <3>3, <3>4 DEF Shown
    <2> QED
      BY <2>1, <2>2 DEF TagsKept
  <1>6. NumberKept'
    BY <1>1, <1>4 DEF Elsewhere, Kept, NumberKept
  <1> QED
    BY <1>2, <1>3, <1>5, <1>6 DEF Kept

\* A save leaves the page: with what is ticked, with the number typed last.
LEMMA KeptSent ==
  ASSUME Types, Types', Kept, NEW body \in Bodies, Sent(body), UNCHANGED <<database, typed>>,
         page'.pending.phone = None,
         body.tags # None => body.tags = page'.ticks,
         body.tags = None => page'.ticks = page.ticks,
         body.phone # None /\ ~lost' => body.phone = typed,
         body.phone = None => lost' = lost /\ page.pending.phone = None
  PROVE  Kept'
  <1>1. PICK r \in Requests :
           /\ r \notin Flight /\ Flight' = Flight \cup {r}
           /\ req'[r].at = "sent" /\ req'[r].body = body /\ req'[r].alone = (Flight = {})
           /\ \A q \in Requests \ {r} :
                req'[q].alone = FALSE /\ req'[q].body = req[q].body /\ req'[q].at = req[q].at
                /\ req'[q].seen = req[q].seen /\ req'[q].had = req[q].had
    BY SentRequest DEF Types
  <1>2. Flight \subseteq Requests
    BY DEF Flight
  <1>3. doubt' = IF Flight = {} THEN doubt ELSE Fields
    BY DEF Sent
  <1>4. UNCHANGED <<phone, tagged, catalogue, gone, typed>>
    BY DEF database
  <1>5. Together'
    BY <1>1, <1>2, <1>3 DEF Together
  <1>6. Reads'
    <2>1. ReadOK(r)'
      BY <1>1, <1>4 DEF ReadOK, Types, PageOK, Gone
    <2>2. ASSUME NEW q \in Flight PROVE ReadOK(q)'
      BY <1>1, <1>2, <1>4, <2>2 DEF Kept, Reads, ReadOK
    <2> QED
      BY <1>1, <2>1, <2>2 DEF Reads
  <1>7. CASE Flight = {}
    <2>1. Flight' = {r} /\ doubt' = doubt
      BY <1>1, <1>3, <1>7
    <2>2. TagsKept'
      BY <1>1, <1>4, <1>7, <2>1 DEF Kept, TagsKept, Shown
    <2>3. NumberKept'
      BY <1>1, <1>4, <1>7, <2>1 DEF Kept, NumberKept
    <2> QED
      BY <1>5, <1>6, <2>2, <2>3 DEF Kept
  <1>8. CASE Flight # {}
    <2>1. doubt' = Fields /\ \A q \in Flight' : req'[q].alone = FALSE
      BY <1>1, <1>2, <1>3, <1>8
    <2>2. TagsKept' /\ NumberKept'
      BY <2>1 DEF TagsKept, NumberKept, Fields
    <2> QED
      BY <1>5, <1>6, <2>2 DEF Kept
  <1> QED
    BY <1>7, <1>8

\* The page acts.
LEMMA UnchangedTables ==
  ASSUME Types, UNCHANGED database
  PROVE  TablesOK' /\ Gone'
  BY DEF Types, database, TablesOK, Unique, Owned, Gone

LEMMA PageStep ==
  ASSUME Types, Kept, (\E t \in FirstTags : Tick(t)) \/ Fire \/ Leave
  PROVE  Types' /\ Kept'
  <1>1. CASE \E t \in FirstTags : Tick(t)
    <2> PICK t \in FirstTags : Tick(t)
      BY <1>1
    <2>1. /\ PageOK' /\ UNCHANGED <<database, typed, lost>> /\ page'.pending.phone = None
          /\ \E body \in Bodies : /\ Sent(body)
                                  /\ body.tags = page'.ticks /\ body.tags # None
                                  /\ body.phone = page.pending.phone
      BY TickSends DEF Types
    <2> PICK body \in Bodies : /\ Sent(body)
                               /\ body.tags = page'.ticks /\ body.tags # None
                               /\ body.phone = page.pending.phone
      BY <2>1
    <2>2. Types'
      BY <2>1, SentRequest, UnchangedTables DEF Types
    <2>3. page.pending.phone \in {None, typed}
      BY DEF Types, PageOK
    <2> QED
      BY <2>1, <2>2, <2>3, KeptSent
  <1>2. CASE Fire
    <2>1. /\ PageOK' /\ UNCHANGED <<database, typed, lost>> /\ page'.ticks = page.ticks
          /\ page'.pending.phone = None
          /\ page.pending \in Bodies /\ Sent(page.pending)
          /\ page.pending.tags = None /\ page.pending.phone # None /\ page.pending.phone = typed
      BY <1>2, FireSends DEF Types
    <2>2. Types'
      BY <2>1, SentRequest, UnchangedTables DEF Types
    <2> QED
      BY <2>1, <2>2, KeptSent
  <1>3. CASE Leave
    <2>1. /\ PageOK' /\ UNCHANGED <<database, typed>> /\ page'.ticks = page.ticks
          /\ page'.pending.phone = None
          /\ lost' = (page.shown # typed)
          /\ \E body \in Bodies : Sent(body) /\ body.tags = None
                                  /\ body.phone = page.shown /\ body.phone # None
      BY <1>3, LeaveSends DEF Types
    <2> PICK body \in Bodies : Sent(body) /\ body.tags = None
                               /\ body.phone = page.shown /\ body.phone # None
      BY <2>1
    <2>2. Types'
      BY <2>1, SentRequest, UnchangedTables DEF Types
    <2>3. ~lost' => body.phone = typed
      BY <2>1
    <2> QED
      BY <2>1, <2>2, <2>3, KeptSent
  <1> QED
    BY <1>1, <1>2, <1>3

LEMMA TypeStep ==
  ASSUME Types, Kept, NEW p \in Phones \cup {Unusable}, Type(p)
  PROVE  Types' /\ Kept'
  <1>1. /\ PageOK' /\ UNCHANGED <<database, req, doubt>> /\ page'.ticks = page.ticks
        /\ page'.pending.phone # None
    BY TypeWaits DEF Types
  <1>2. Types'
    BY <1>1, UnchangedTables DEF Types, RequestsOK
  <1>3. Flight' = Flight
    BY <1>1 DEF Flight
  <1>4. Together' /\ TagsKept' /\ NumberKept'
    BY <1>1, <1>3 DEF Kept, Together, TagsKept, Shown, NumberKept, database
  <1>5. Reads'
    <2>1. ASSUME NEW r \in Flight PROVE ReadOK(r)'
      BY <1>1 DEF Kept, Reads, ReadOK, database
    <2> QED
      BY <1>3, <2>1 DEF Reads
  <1> QED
    BY <1>2, <1>4, <1>5 DEF Kept

\* An answer, or none: the request is over.
LEMMA Answered ==
  ASSUME Types, NEW r \in Flight, req' = [req EXCEPT ![r] = Blank]
  PROVE  RequestsOK' /\ Flight' = Flight \ {r} /\ \A q \in Flight \ {r} : req'[q] = req[q]
  <1>1. r \in Requests /\ Blank.kind # "patch"
    BY ContactsAssumption DEF Flight, Blank
  <1>2. RequestsOK' /\ req'[r] = Blank /\ \A q \in Requests \ {r} : req'[q] = req[q]
    BY <1>1, BlankIsRequest, OneRequest DEF Types
  <1>3. Flight' = Flight \ {r}
    BY <1>1, <1>2 DEF Flight
  <1> QED
    BY <1>2, <1>3 DEF Flight

LEMMA SavedStep ==
  ASSUME Types, Kept, NEW r \in Requests, Saved(r)
  PROVE  Types' /\ Kept'
  <1>1. /\ req[r].at = "saved" /\ req' = [req EXCEPT ![r] = Blank] /\ status' = "saved"
        /\ page' = [page EXCEPT !.shown = req[r].had]
        /\ doubt' = IF req[r].alone THEN doubt \ FieldsOf(req[r].body) ELSE doubt
        /\ UNCHANGED <<database, typed, lost>>
    BY DEF Saved
  <1>2. r \in Flight /\ req[r].had \in Numbers /\ req[r].body \in Bodies /\ req[r].alone \in BOOLEAN
    BY <1>1 DEF Types, RequestsOK, RequestSet, RequestOK, Flight, Numbers
  <1>3. RequestsOK' /\ Flight' = Flight \ {r} /\ \A q \in Flight \ {r} : req'[q] = req[q]
    BY <1>1, <1>2, Answered
  <1>4. PageOK' /\ page'.ticks = page.ticks /\ page'.pending = page.pending
    BY <1>1, <1>2 DEF Types, PageOK
  <1>5. UNCHANGED <<phone, tagged, catalogue, gone>>
    BY <1>1 DEF database
  <1>6. Types'
    BY <1>1, <1>3, <1>4, UnchangedTables DEF Types
  <1>7. Reads'
    <2>1. ASSUME NEW q \in Flight \ {r} PROVE ReadOK(q)'
      BY <1>3, <1>5 DEF Kept, Reads, ReadOK
    <2> QED
      BY <1>3, <2>1 DEF Reads
  <1>8. CASE req[r].alone
    <2>1. Flight' = {}
      BY <1>2, <1>3, <1>8 DEF Kept, Together
    <2>2. TagsKept'
      <3> SUFFICES ASSUME phone[Mine] # None, "tags" \notin doubt' PROVE tagged[Mine] = Shown
        BY <1>4, <1>5, <2>1 DEF TagsKept, Shown
      <3>1. CASE req[r].body.tags = None
        <4>1. "tags" \notin doubt
          BY <1>1, <1>2, <1>8, <3>1, FieldsOfBody
        <4>2. Flight = {r}
          BY <1>2, <1>8 DEF Kept, Together
        <4> QED
          BY <3>1, <4>1, <4>2 DEF Kept, TagsKept
      <3>2. CASE req[r].body.tags # None
        BY <1>1, <1>2, <1>8, <3>2 DEF Kept, TagsKept
      <3> QED
        BY <3>1, <3>2
    <2>3. NumberKept'
      <3> SUFFICES ASSUME phone[Mine] # None, ~lost, page.pending.phone = None,
                          "phone" \notin doubt', typed # None
                   PROVE  phone[Mine] = typed
        BY <1>1, <1>4, <1>5, <2>1 DEF NumberKept
      <3>1. CASE req[r].body.phone = None
        <4>1. "phone" \notin doubt
          BY <1>1, <1>2, <1>8, <3>1, FieldsOfBody
        <4>2. Flight = {r}
          BY <1>2, <1>8 DEF Kept, Together
        <4> QED
          BY <3>1, <4>1, <4>2 DEF Kept, NumberKept
      <3>2. CASE req[r].body.phone # None
        BY <1>1, <1>2, <1>8, <3>2 DEF Kept, NumberKept
      <3> QED
        BY <3>1, <3>2
    <2> QED
      BY <1>6, <1>7, <2>1, <2>2, <2>3 DEF Kept, Together
  <1>9. CASE ~req[r].alone
    <2>1. doubt' = Fields /\ doubt = Fields
      BY <1>1, <1>2, <1>9 DEF Kept, Together
    <2>2. \A q \in Flight : ~req[q].alone
      BY <1>2, <1>9 DEF Kept, Together
    <2>3. Together' /\ TagsKept' /\ NumberKept'
      BY <1>3, <2>1, <2>2 DEF Together, TagsKept, NumberKept, Fields
    <2> QED
      BY <1>6, <1>7, <2>3 DEF Kept
  <1> QED
    BY <1>2, <1>8, <1>9

LEMMA NotSavedStep ==
  ASSUME Types, Kept, NEW r \in Requests, NotSaved(r)
  PROVE  Types' /\ Kept'
  <1>1. /\ req[r].kind = "patch" /\ req' = [req EXCEPT ![r] = Blank] /\ status' = "error"
        /\ doubt' = doubt \cup FieldsOf(req[r].body)
        /\ UNCHANGED <<database, page, typed, lost>>
    BY DEF NotSaved
  <1>2. r \in Flight /\ req[r].body \in Bodies /\ req[r].alone \in BOOLEAN
    BY <1>1 DEF Types, RequestsOK, RequestSet, Flight
  <1>3. RequestsOK' /\ Flight' = Flight \ {r} /\ \A q \in Flight \ {r} : req'[q] = req[q]
    BY <1>1, <1>2, Answered
  <1>4. PageOK'
    BY <1>1, <1>2, FieldsOfBody DEF Types, PageOK
  <1>5. UNCHANGED <<phone, tagged, catalogue, gone>>
    BY <1>1 DEF database
  <1>6. Types'
    BY <1>1, <1>3, <1>4, UnchangedTables DEF Types
  <1>7. Reads'
    <2>1. ASSUME NEW q \in Flight \ {r} PROVE ReadOK(q)'
      BY <1>3, <1>5 DEF Kept, Reads, ReadOK
    <2> QED
      BY <1>3, <2>1 DEF Reads
  <1>8. CASE req[r].alone
    <2>1. Flight' = {} /\ Flight = {r}
      BY <1>2, <1>3, <1>8 DEF Kept, Together
    <2>2. TagsKept'
      <3> SUFFICES ASSUME phone[Mine] # None, "tags" \notin doubt' PROVE tagged[Mine] = Shown
        BY <1>1, <1>5, <2>1 DEF TagsKept, Shown
      <3>1. req[r].body.tags = None /\ "tags" \notin doubt
        BY <1>1, <1>2, FieldsOfBody
      <3> QED
        BY <2>1, <3>1 DEF Kept, TagsKept
    <2>3. NumberKept'
      <3> SUFFICES ASSUME phone[Mine] # None, ~lost, page.pending.phone = None,
                          "phone" \notin doubt', typed # None
                   PROVE  phone[Mine] = typed
        BY <1>1, <1>5, <2>1 DEF NumberKept
      <3>1. req[r].body.phone = None /\ "phone" \notin doubt
        BY <1>1, <1>2, FieldsOfBody
      <3> QED
        BY <2>1, <3>1 DEF Kept, NumberKept
    <2> QED
      BY <1>6, <1>7, <2>1, <2>2, <2>3 DEF Kept, Together
  <1>9. CASE ~req[r].alone
    <2>1. doubt' = Fields
      BY <1>1, <1>2, <1>9, FieldsOfBody DEF Kept, Together
    <2>2. \A q \in Flight : ~req[q].alone
      BY <1>2, <1>9 DEF Kept, Together
    <2>3. Together' /\ TagsKept' /\ NumberKept'
      BY <1>3, <2>1, <2>2 DEF Together, TagsKept, NumberKept, Fields
    <2> QED
      BY <1>6, <1>7, <2>3 DEF Kept
  <1> QED
    BY <1>2, <1>8, <1>9

\* A PATCH that fails changes nothing but itself.
LEMMA FailedKept ==
  ASSUME Types, Kept, NEW r \in Flight, Goto(r, "failed"), UNCHANGED <<database, browser, history>>
  PROVE  Types' /\ Kept'
  <1>1. r \in Requests /\ req[r].kind = "patch"
    BY DEF Flight
  <1>2. /\ RequestsOK' /\ req'[r] = [req[r] EXCEPT !.at = "failed"]
        /\ \A q \in Requests \ {r} : req'[q] = req[q]
    BY <1>1, GotoRequest DEF Types
  <1>3. /\ req'[r].at = "failed" /\ req'[r].kind = "patch"
        /\ req'[r].alone = req[r].alone /\ req'[r].body = req[r].body
    BY <1>1, <1>2 DEF Types, RequestsOK, RequestSet
  <1>4. Flight' = Flight
    BY ZenonT(60), <1>1, <1>2, <1>3 DEF Flight
  <1>5. \A q \in Flight : /\ req'[q].alone = req[q].alone /\ req'[q].body = req[q].body
                          /\ req'[q].at # "failed" => req'[q] = req[q]
    BY <1>2, <1>3 DEF Flight
  <1>6. UNCHANGED <<phone, tagged, catalogue, gone, page, typed, doubt, lost, status>>
    BY DEF database, browser, history
  <1>7. PageOK' /\ TablesOK' /\ Gone'
    BY <1>6, UnchangedTables DEF Types, PageOK
  <1>8. Together'
    BY <1>4, <1>5, <1>6 DEF Kept, Together
  <1>9. Reads'
    <2>1. ASSUME NEW q \in Flight PROVE ReadOK(q)'
      BY <1>5, <1>6 DEF Kept, Reads, ReadOK
    <2> QED
      BY <1>4, <2>1 DEF Reads
  <1>10. TagsKept'
    BY <1>4, <1>5, <1>6 DEF Kept, TagsKept, Shown
  <1>11. NumberKept'
    BY <1>4, <1>5, <1>6 DEF Kept, NumberKept
  <1> QED
    BY <1>2, <1>7, <1>8, <1>9, <1>10, <1>11 DEF Types, Kept

LEMMA LoadStep ==
  ASSUME Types, Kept, NEW r \in Requests, LoadPatch(r)
  PROVE  Types' /\ Kept'
  <1>1. req[r].at = "sent" /\ UNCHANGED <<database, browser, history>>
    BY DEF LoadPatch
  <1>2. r \in Flight
    BY <1>1 DEF Types, RequestsOK, RequestOK, Flight
  <1>3. CASE phone[Mine] = None \/ req[r].body.phone = Unusable
             \/ (req[r].body.phone # None /\ Taken(req[r].body.phone, Mine))
    BY <1>1, <1>2, <1>3, FailedKept DEF LoadPatch
  <1>4. CASE ~(phone[Mine] = None \/ req[r].body.phone = Unusable
               \/ (req[r].body.phone # None /\ Taken(req[r].body.phone, Mine)))
    <2>1. req' = [req EXCEPT ![r].at = "loaded", ![r].seen = tagged[Mine], ![r].had = phone[Mine],
                             ![r].body.tags = IF @ = None THEN None ELSE @ \cap catalogue]
      BY <1>4 DEF LoadPatch
    <2>2. /\ RequestsOK'
          /\ \A q \in Requests \ {r} : req'[q] = req[q]
          /\ req'[r].at = "loaded" /\ req'[r].seen = tagged[Mine] /\ req'[r].had = phone[Mine]
          /\ req'[r].kind = req[r].kind /\ req'[r].alone = req[r].alone
          /\ req'[r].body.phone = req[r].body.phone
          /\ req[r].body.tags = None => req'[r].body.tags = None
          /\ req[r].body.tags # None => /\ req'[r].body.tags # None
                                        /\ req'[r].body.tags = req[r].body.tags \cap catalogue
      BY <1>1, <1>4, <2>1, LoadedRequest DEF Types
    <2>3. Flight' = Flight /\ Flight \subseteq Requests
      BY <2>2 DEF Flight
    <2>4. UNCHANGED <<phone, tagged, catalogue, gone, page, typed, doubt, lost, status>>
      BY <1>1 DEF database, browser, history
    <2>5. PageOK' /\ TablesOK' /\ Gone'
      BY <1>1, <2>4, UnchangedTables DEF Types, PageOK
    <2>6. Together'
      BY <1>2, <2>2, <2>3, <2>4 DEF Kept, Together
    <2>7. Reads'
      <3>1. ReadOK(r)'
        BY <1>2, <2>2, <2>4, ContactsAssumption DEF Kept, Reads, ReadOK, Types, TablesOK
      <3>2. ASSUME NEW q \in Flight \ {r} PROVE ReadOK(q)'
        BY <2>2, <2>3, <2>4 DEF Kept, Reads, ReadOK
      <3> QED
        BY <2>3, <3>1, <3>2 DEF Reads
    <2>8. TagsKept'
      <3>1. \A q \in Flight : (req'[q].body.tags = None) = (req[q].body.tags = None)
        BY <2>2, <2>3
      <3>2. ASSUME phone[Mine] # None, NEW q \in Flight, req'[q].alone, req'[q].body.tags # None
            PROVE  /\ req'[q].body.tags \cap catalogue = Shown
                   /\ req'[q].at = "saved" => tagged[Mine] = Shown
        BY <2>2, <2>3, <3>1, <3>2 DEF Kept, TagsKept
      <3> QED
        BY <2>3, <2>4, <3>1, <3>2 DEF Kept, TagsKept, Shown
    <2>9. NumberKept'
      BY <2>2, <2>3, <2>4 DEF Kept, NumberKept
    <2> QED
      BY <2>2, <2>5, <2>6, <2>7, <2>8, <2>9 DEF Types, Kept
  <1> QED
    BY <1>3, <1>4

LEMMA CommitStep ==
  ASSUME Types, Kept, NEW r \in Requests, req[r].kind = "patch", CommitPatch(r)
  PROVE  Types' /\ Kept'
  <1>1. /\ RequestsOK' /\ TablesOK'
        /\ \A q \in Requests \ {r} : req'[q] = req[q]
        /\ req'[r].at = "saved" /\ req'[r].kind = "patch" /\ req'[r].alone = req[r].alone
        /\ req'[r].body = req[r].body
        /\ phone[Mine] # None /\ phone'[Mine] # None
        /\ phone'[Mine] = IF NewPhone(r) THEN req[r].body.phone ELSE phone[Mine]
        /\ tagged'[Mine] = (tagged[Mine] \ Dropped(r)) \cup Added(r)
        /\ Added(r) \subseteq catalogue
    BY StoredRequest DEF Types
  <1>2. req[r].at = "loaded" /\ UNCHANGED <<catalogue, gone, page, typed, doubt, lost, status>>
    BY DEF CommitPatch, browser, history
  <1>3. r \in Flight /\ Flight' = Flight /\ Flight \subseteq Requests
    BY <1>1 DEF Flight
  <1>4. PageOK' /\ Gone'
    BY <1>1, <1>2 DEF Types, PageOK, Gone
  <1>5. req[r].body \in Bodies /\ req[r].alone \in BOOLEAN /\ \A q \in Flight : req'[q].alone = req[q].alone
    BY <1>1, <1>3 DEF Types, RequestsOK, RequestSet
  <1>6. Together'
    BY <1>2, <1>3, <1>5 DEF Kept, Together
  <1>7. CASE ~req[r].alone
    <2>1. doubt' = Fields /\ \A q \in Flight : ~req'[q].alone
      BY <1>2, <1>3, <1>5, <1>7 DEF Kept, Together
    <2>2. TagsKept' /\ NumberKept'
      BY <1>3, <2>1 DEF TagsKept, NumberKept, Fields
    <2>3. Reads'
      <3>1. ASSUME NEW q \in Flight PROVE ReadOK(q)'
        BY <1>1, <1>2, <1>3, <2>1 DEF Kept, Reads, ReadOK
      <3> QED
        BY <1>3, <3>1 DEF Reads
    <2> QED
      BY <1>1, <1>4, <1>6, <2>2, <2>3 DEF Types, Kept
  <1>8. CASE req[r].alone
    <2>1. Flight = {r}
      BY <1>3, <1>8 DEF Kept, Together
    <2>2. /\ tagged[Mine] = req[r].seen \cap catalogue /\ req[r].had = phone[Mine]
      BY <1>1, <1>2, <1>3, <1>8 DEF Kept, Reads, ReadOK
    <2>3. Reads'
      BY <1>1, <1>2, <1>3, <2>1 DEF Kept, Reads, ReadOK
    <2>4. TagsKept'
      <3>1. CASE req[r].body.tags = None
        <4>1. tagged'[Mine] = tagged[Mine]
          BY <1>1, <3>1 DEF Added, Dropped
        <4> QED
          BY <1>1, <1>2, <1>3, <2>1, <3>1, <4>1 DEF Kept, TagsKept, Shown
      <3>2. CASE req[r].body.tags # None
        <4>1. tagged'[Mine] = req[r].body.tags \cap catalogue
          BY <1>1, <2>2, <3>2 DEF Added, Dropped
        <4>2. req[r].body.tags \cap catalogue = Shown
          BY <1>1, <1>8, <2>1, <3>2 DEF Kept, TagsKept
        <4> QED
          BY <1>1, <1>2, <1>3, <2>1, <3>2, <4>1, <4>2 DEF TagsKept, Shown
      <3> QED
        BY <3>1, <3>2
    <2>5. NumberKept'
      <3>1. CASE req[r].body.phone = None
        BY <1>1, <1>2, <1>3, <2>1, <3>1 DEF Kept, NumberKept, NewPhone
      <3>2. CASE req[r].body.phone # None
        <4>1. phone'[Mine] = req[r].body.phone
          BY <1>1, <2>2, <3>2 DEF NewPhone
        <4> QED
          BY <1>1, <1>2, <1>3, <1>8, <2>1, <3>2, <4>1 DEF Kept, NumberKept
      <3> QED
        BY <3>1, <3>2
    <2> QED
      BY <1>1, <1>4, <1>6, <2>3, <2>4, <2>5 DEF Types, Kept
  <1> QED
    BY <1>5, <1>7, <1>8

-----------------------------------------------------------------------------
(* The invariant.                                                          *)

LEMMA KeptStep == Types /\ Kept /\ [Next]_vars => (Types /\ Kept)'
  <1> SUFFICES ASSUME Types, Kept, [Next]_vars PROVE Types' /\ Kept'
    OBVIOUS
  <1>1. CASE UNCHANGED vars
    <2>1. UNCHANGED <<database, req, page, status, typed, doubt, lost>>
      BY <1>1 DEF vars, browser, history
    <2>2. Types'
      BY <2>1, UnchangedTables DEF Types, RequestsOK, PageOK
    <2>3. UNCHANGED <<phone, tagged, catalogue, gone>> /\ Flight' = Flight
      BY <2>1 DEF database, Flight
    <2>4. Reads'
      <3>1. ASSUME NEW q \in Flight PROVE ReadOK(q)'
        BY <2>1, <2>3 DEF Kept, Reads, ReadOK
      <3> QED
        BY <2>3, <3>1 DEF Reads
    <2>5. Together' /\ TagsKept' /\ NumberKept'
      BY <2>1, <2>3 DEF Kept, Together, TagsKept, Shown, NumberKept
    <2> QED
      BY <2>2, <2>4, <2>5 DEF Kept
  <1>2. CASE (\E t \in FirstTags : Tick(t)) \/ Fire \/ Leave
    BY <1>2, PageStep
  <1>3. CASE \E p \in Phones \cup {Unusable} : Type(p)
    BY <1>3, TypeStep
  <1>4. ASSUME NEW r \in Requests, Saved(r) \/ NotSaved(r) \/ LoadPatch(r) PROVE Types' /\ Kept'
    BY <1>4, SavedStep, NotSavedStep, LoadStep
  <1>5. ASSUME NEW r \in Requests, req[r].kind = "patch", CommitPatch(r) \/ FailPatch(r)
        PROVE  Types' /\ Kept'
    <2>1. CASE FailPatch(r)
      BY <1>5, <2>1, FailedKept DEF FailPatch, Flight
    <2> QED
      BY <1>5, <2>1, CommitStep
  <1>6. ASSUME NEW r \in Requests,
               \/ CommitCreate(r) \/ CommitTag(r)
               \/ \E P \in SUBSET Phones \ {{}}, T \in SUBSET catalogue : LoadCreate(r, P, T)
               \/ \E n \in Names : LoadTag(r, n)
        PROVE  Types' /\ Kept'
    BY <1>6, CommitCreateElsewhere, CommitTagElsewhere, LoadCreateElsewhere, LoadTagElsewhere, KeptElsewhere
  <1>7. CASE (\E i \in Ids : DeleteContact(i)) \/ \E t \in catalogue : DeleteTag(t)
    BY <1>7, DeleteContactElsewhere, DeleteTagElsewhere, KeptElsewhere
  <1> QED
    BY <1>1, <1>2, <1>3, <1>4, <1>5, <1>6, <1>7 DEF Next

LEMMA TypesAndKept == Spec => [](Types /\ Kept)
  <1>1. Init => Types /\ Kept
    BY TypesInit, KeptInit
  <1> QED
    BY <1>1, KeptStep, PTL DEF Spec

\* Whatever requests run beside each other, the pairs join contacts and tags
\* that exist and a number is one contact's (models.py:239-301).
THEOREM TablesAreSound == Spec => []TypeOK
  <1>1. Types => TypeOK
    BY DEF Types, RequestsOK, RequestSet, PageOK, TablesOK, Unique, Owned, TypeOK
  <1> QED
    BY <1>1, TypesAndKept, PTL

\* Whatever runs beside it, a row that says "Saved" with nothing under way is
\* stored as it shows, but for fields in doubt (contacts_autosave.js:30-99).
THEOREM WhatIsSavedIsStored == Spec => []SavedIsStored
  <1>1. Types /\ Kept => SavedIsStored
    <2> SUFFICES ASSUME Types, Kept, Flight = {}, page.pending = NoChange, phone[Mine] # None
                 PROVE  /\ "tags" \notin doubt => tagged[Mine] = page.ticks \cap catalogue
                        /\ "phone" \notin doubt /\ ~lost /\ typed # None => phone[Mine] = typed
      BY DEF SavedIsStored, Quiet
    <2>1. page.pending.phone = None
      BY EmptyPending
    <2> QED
      BY <2>1 DEF Kept, TagsKept, NumberKept, Shown
  <1> QED
    BY <1>1, TypesAndKept, PTL

=============================================================================
