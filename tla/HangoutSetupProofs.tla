------------------------- MODULE HangoutSetupProofs -------------------------
(***************************************************************************)
(* Proofs about HangoutSetup, for every number of requests and people, any *)
(* do-not-contact list and any bounds.                                     *)
(***************************************************************************)
EXTENDS HangoutSetup, FiniteSetTheorems, FunctionTheorems, WellFoundedInduction, TLAPS

InPass == {"each", "insert", "send", "raised"}

\* As much of the types as the argument needs.
Shape ==
  /\ hangout \in [status : HangoutStatus, deleted : BOOLEAN]
  /\ pc \in [Requests -> Places]
  /\ stale \in [Requests -> BOOLEAN]
  /\ DOMAIN job = Requests
  /\ \A r \in Requests : "seen" \in DOMAIN job[r]

\* No request runs before the hangout exists.
IdleAtFirst == hangout.status = "none" => \A r \in Requests : pc[r] = "idle"

\* A setup that nothing overtook still sees the hangout as it is, and it is open.
TruePicture ==
  \A r \in Requests : pc[r] \in InPass /\ ~stale[r] =>
    job[r].seen = hangout.status /\ hangout.status \notin {"none", "closed"}

\* Every pass began on a draft or on an active hangout.
SeenOpen == \A r \in Requests : pc[r] \in InPass => job[r].seen \in {"draft", "active"}

Inv == Shape /\ IdleAtFirst /\ TruePicture /\ SeenOpen

-----------------------------------------------------------------------------
LEMMA BlankSession == "seen" \in DOMAIN Blank
  BY DEF Blank

LEMMA InvInit == Init => Inv
  BY BlankSession DEF Init, Inv, Shape, IdleAtFirst, TruePicture, SeenOpen, InPass, HangoutStatus, Places

LEMMA InvAbandon == ASSUME Inv, NEW r \in Requests, Abandon(r) PROVE Inv'
  BY BlankSession DEF Inv, Shape, IdleAtFirst, TruePicture, SeenOpen, InPass, Abandon, Goto, Places

\* A session moves on inside its pass, or to a place outside one, and keeps
\* what it saw; the hangout is not touched.
LEMMA InvMove ==
  ASSUME Inv, NEW r \in Requests, NEW p \in Places, pc[r] # "idle",
         pc' = [pc EXCEPT ![r] = p], p \in InPass => pc[r] \in InPass,
         DOMAIN job' = Requests,
         \A q \in Requests : "seen" \in DOMAIN job'[q] /\ job'[q].seen = job[q].seen,
         UNCHANGED <<hangout, stale>>
  PROVE  Inv'
  BY DEF Inv, Shape, IdleAtFirst, TruePicture, SeenOpen

\* A pass begins with a true picture.
LEMMA InvLoad ==
  ASSUME Inv, NEW r \in Requests, NEW ids, NEW chosen, Load(r, ids, chosen), hangout.status # "none"
  PROVE  Inv'
  <1>1. CASE Abandon(r)
    BY <1>1, InvAbandon
  <1>2. CASE ~Abandon(r)
    <2>1. /\ MayStart(hangout.status)
          /\ pc' = [pc EXCEPT ![r] = "each"]
          /\ stale' = [stale EXCEPT ![r] = FALSE]
          /\ UNCHANGED hangout
      BY <1>2 DEF Load, Goto
    <2>2. PICK now, drop :
            job' = [job EXCEPT ![r] = [Blank EXCEPT !.seen = hangout.status, !.was = now[1],
                                                    !.now = now[2], !.drop = drop,
                                                    !.todo = ids]]
      <3>1. PICK last \in [Persons(rows) -> rows] :
              job' = [job EXCEPT ![r] =
                        [Blank EXCEPT !.seen = hangout.status, !.was = Range(last),
                                      !.now = Range(last) \ (IF chosen THEN Left(Range(last), ids) ELSE {}),
                                      !.drop = Ids(IF chosen THEN Left(Range(last), ids) ELSE {}),
                                      !.todo = ids]]
        BY <1>2 DEF Load
      <3> WITNESS <<Range(last), Range(last) \ (IF chosen THEN Left(Range(last), ids) ELSE {})>>,
                  Ids(IF chosen THEN Left(Range(last), ids) ELSE {})
      <3> QED
        BY <3>1
    <2>3. /\ DOMAIN job' = Requests
          /\ \A q \in Requests : "seen" \in DOMAIN job'[q]
          /\ job'[r].seen = hangout.status
          /\ \A q \in Requests \ {r} : job'[q] = job[q]
      BY <2>2 DEF Inv, Shape, Blank
    <2>4. hangout.status \in {"draft", "active"}
      BY <2>1 DEF Inv, Shape, HangoutStatus, MayStart
    <2>5. SeenOpen'
      BY <2>1, <2>3, <2>4 DEF Inv, SeenOpen, Shape, InPass
    <2>6. Shape' /\ IdleAtFirst' /\ TruePicture'
      BY <2>1, <2>3, <2>4 DEF Inv, Shape, IdleAtFirst, TruePicture, InPass, Places
    <2> QED
      BY <2>5, <2>6 DEF Inv
  <1> QED
    BY <1>1, <1>2

\* A commit that overtakes every other request, or every request, leaves those
\* in flight with a stale picture.
LEMMA InvOvertake ==
  ASSUME Inv, NEW set, Overtakes(set), hangout.status # "none",
         hangout' \in [status : HangoutStatus \ {"none"}, deleted : BOOLEAN],
         pc' \in [Requests -> Places],
         \A q \in Requests : IF q \in set THEN pc'[q] \notin InPass ELSE pc'[q] = pc[q],
         DOMAIN job' = Requests, \A q \in Requests : "seen" \in DOMAIN job'[q],
         \A q \in Requests \ set : job'[q] = job[q]
  PROVE  Inv'
  <1>1. \A q \in Requests : stale'[q] = (q \notin set /\ pc[q] # "idle")
    BY DEF Overtakes
  <1>2. stale' \in [Requests -> BOOLEAN]
    BY DEF Overtakes
  <1>3. Shape'
    BY <1>2 DEF Shape
  <1>4. IdleAtFirst'
    BY DEF IdleAtFirst
  <1>5. TruePicture'
    BY <1>1 DEF TruePicture, InPass
  <1>6. SeenOpen'
    BY DEF Inv, SeenOpen, InPass
  <1> QED
    BY <1>3, <1>4, <1>5, <1>6 DEF Inv

-----------------------------------------------------------------------------
(* The requests.                                                           *)

LEMMA InvEdit == ASSUME Inv, NEW r \in Requests, LoadEdit(r) PROVE Inv'
  <1>1. CASE Abandon(r)
    BY <1>1, InvAbandon
  <1>2. CASE ~Abandon(r)
    <2>1. PICK wanted, detail, then :
            job' = [job EXCEPT ![r] =
                      [Blank EXCEPT !.drop = {x.id : x \in {y \in rows : y.person \notin wanted}},
                                    !.todo = wanted \ Persons(rows),
                                    !.detail = detail, !.then = then, !.wanted = wanted]]
      BY <1>2 DEF LoadEdit
    <2>2. /\ pc' = [pc EXCEPT ![r] = "save"] /\ UNCHANGED <<hangout, stale>>
          /\ hangout.status # "none"
      BY <1>2 DEF LoadEdit, Goto, Ask
    <2>3. /\ DOMAIN job' = Requests
          /\ \A q \in Requests : "seen" \in DOMAIN job'[q]
          /\ \A q \in Requests \ {r} : job'[q] = job[q]
      BY <2>1 DEF Inv, Shape, Blank
    <2> QED
      BY <2>2, <2>3 DEF Inv, Shape, IdleAtFirst, TruePicture, SeenOpen, InPass, Places
  <1> QED
    BY <1>1, <1>2

LEMMA InvSave == ASSUME Inv, NEW r \in Requests, SaveEdit(r) PROVE Inv'
  <1>1. CASE Abandon(r)
    BY <1>1, InvAbandon
  <1>2. CASE ~Abandon(r)
    <2>1. /\ Overtakes({r}) /\ UNCHANGED hangout
          /\ pc' = [pc EXCEPT ![r] = IF job[r].then THEN "setup" ELSE "idle"]
          /\ job' = [job EXCEPT ![r] =
                       [Blank EXCEPT !.wanted = IF job[r].then THEN job[r].wanted ELSE {}]]
      BY <1>2 DEF SaveEdit, Goto
    <2>2. hangout.status # "none"
      BY DEF Inv, IdleAtFirst, SaveEdit
    <2>3. /\ DOMAIN job' = Requests /\ \A q \in Requests : "seen" \in DOMAIN job'[q]
          /\ \A q \in Requests \ {r} : job'[q] = job[q]
      BY <2>1 DEF Inv, Shape, Blank
    <2>4. /\ pc' \in [Requests -> Places]
          /\ \A q \in Requests : IF q \in {r} THEN pc'[q] \notin InPass ELSE pc'[q] = pc[q]
      BY <2>1 DEF Inv, Shape, Places, InPass
    <2>5. hangout' \in [status : HangoutStatus \ {"none"}, deleted : BOOLEAN]
      BY <2>1, <2>2 DEF Inv, Shape
    <2> QED
      BY <2>1, <2>2, <2>3, <2>4, <2>5, InvOvertake
  <1> QED
    BY <1>1, <1>2

LEMMA InvEach == ASSUME Inv, NEW r \in Requests, Each(r) PROVE Inv'
  <1>1. PICK p \in Places : pc' = [pc EXCEPT ![r] = p] /\ p \in InPass
    <2>1. CASE UNCHANGED pc
      <3>1. "each" \in Places /\ "each" \in InPass /\ pc' = [pc EXCEPT ![r] = "each"]
        BY <2>1 DEF Each, Inv, Shape, InPass, Places
      <3> QED
        BY <3>1
    <2>2. CASE pc' # pc
      <3>1. pc' = [pc EXCEPT ![r] = "insert"] \/ pc' = [pc EXCEPT ![r] = "send"]
        BY <2>2 DEF Each, Goto
      <3> QED
        BY <3>1 DEF Places, InPass
    <2> QED
      BY <2>1, <2>2
  <1>2. PICK who : \/ job' = [job EXCEPT ![r].todo = @ \ {who}]
                   \/ job' = [job EXCEPT ![r].cur = who]
    BY DEF Each
  <1>3. /\ DOMAIN job' = Requests
        /\ \A q \in Requests : "seen" \in DOMAIN job'[q] /\ job'[q].seen = job[q].seen
    BY <1>2 DEF Inv, Shape
  <1>4. pc[r] = "each" /\ UNCHANGED <<hangout, stale>>
    BY DEF Each
  <1> QED
    BY <1>1, <1>3, <1>4, InvMove DEF InPass

LEMMA InvInsert == ASSUME Inv, NEW r \in Requests, Insert(r) PROVE Inv'
  <1>1. CASE Abandon(r)
    BY <1>1, InvAbandon
  <1>2. CASE ~Abandon(r)
    <2>1. /\ pc[r] = "insert" /\ pc' = [pc EXCEPT ![r] = "send"] /\ UNCHANGED <<hangout, stale>>
          /\ job' = [job EXCEPT ![r].now = @ \cup {Fresh(nextId, job[r].cur)}]
      BY <1>2 DEF Insert, Goto
    <2>2. /\ DOMAIN job' = Requests
          /\ \A q \in Requests : "seen" \in DOMAIN job'[q] /\ job'[q].seen = job[q].seen
      BY <2>1 DEF Inv, Shape
    <2> QED
      BY <2>1, <2>2, InvMove DEF InPass, Places
  <1> QED
    BY <1>1, <1>2

LEMMA InvSend == ASSUME Inv, NEW r \in Requests, Send(r) PROVE Inv'
  <1>1. CASE Goto(r, "raised") /\ UNCHANGED job
    <2>1. /\ pc[r] = "send" /\ pc' = [pc EXCEPT ![r] = "raised"]
          /\ UNCHANGED <<hangout, stale>>
      BY <1>1 DEF Send, Goto
    <2> QED
      BY <1>1, <2>1, InvMove DEF Inv, Shape, InPass, Places
  <1>2. CASE ~(Goto(r, "raised") /\ UNCHANGED job)
    <2>1. /\ pc[r] = "send" /\ pc' = [pc EXCEPT ![r] = "each"] /\ UNCHANGED <<hangout, stale>>
      BY <1>2 DEF Send, Goto
    <2>2. PICK x, outcome :
            job' = [job EXCEPT ![r].now = (@ \ {x}) \cup {Sent(x, outcome)},
                               ![r].sent = @ \cup {x.id}, ![r].todo = @ \ {job[r].cur},
                               ![r].cur = None]
      BY <1>2 DEF Send
    <2>3. /\ DOMAIN job' = Requests
          /\ \A q \in Requests : "seen" \in DOMAIN job'[q] /\ job'[q].seen = job[q].seen
      BY <2>2 DEF Inv, Shape
    <2> QED
      BY <2>1, <2>3, InvMove DEF InPass, Places
  <1> QED
    BY <1>1, <1>2

LEMMA InvCommit == ASSUME Inv, NEW r \in Requests, Commit(r) PROVE Inv'
  <1>1. /\ Overtakes({r}) /\ pc[r] = "each" /\ pc' = [pc EXCEPT ![r] = "idle"]
        /\ job' = [job EXCEPT ![r] = Blank]
        /\ hangout' = hangout \/ hangout' = [hangout EXCEPT !.status = "active"]
    BY DEF Commit, Goto, Done
  <1>2. hangout.status # "none"
    BY <1>1 DEF Inv, IdleAtFirst
  <1>3. hangout' \in [status : HangoutStatus \ {"none"}, deleted : BOOLEAN]
    BY <1>1, <1>2 DEF Inv, Shape, HangoutStatus
  <1>4. /\ DOMAIN job' = Requests /\ \A q \in Requests : "seen" \in DOMAIN job'[q]
        /\ \A q \in Requests \ {r} : job'[q] = job[q]
    BY <1>1, BlankSession DEF Inv, Shape
  <1>5. /\ pc' \in [Requests -> Places]
        /\ \A q \in Requests : IF q \in {r} THEN pc'[q] \notin InPass ELSE pc'[q] = pc[q]
    BY <1>1 DEF Inv, Shape, Places, InPass
  <1> QED
    BY <1>1, <1>2, <1>3, <1>4, <1>5, InvOvertake

LEMMA InvRequest == ASSUME Inv, NEW r \in Requests, LoadEdit(r) \/ LoadSetup(r) \/ Step(r) PROVE Inv'
  <1>1. CASE LoadEdit(r)
    BY <1>1, InvEdit
  <1>2. CASE LoadSetup(r)
    BY <1>2, InvLoad DEF LoadSetup, Ask
  <1>3. CASE ThenSetup(r)
    <2>1. hangout.status # "none"
      BY <1>3 DEF ThenSetup, Inv, IdleAtFirst
    <2> QED
      BY <1>3, <2>1, InvLoad DEF ThenSetup
  <1>4. CASE SaveEdit(r)
    BY <1>4, InvSave
  <1>5. CASE Each(r)
    BY <1>5, InvEach
  <1>6. CASE Insert(r)
    BY <1>6, InvInsert
  <1>7. CASE Send(r)
    BY <1>7, InvSend
  <1>8. CASE Commit(r)
    BY <1>8, InvCommit
  <1>9. CASE LockRow(r)
    BY <1>9 DEF LockRow, Inv, Shape, IdleAtFirst, TruePicture, SeenOpen
  <1>10. CASE Aborts(r) \/ CloseSession(r)
    BY <1>10, InvAbandon DEF Aborts, CloseSession
  <1> QED
    BY <1>1, <1>2, <1>3, <1>4, <1>5, <1>6, <1>7, <1>8, <1>9, <1>10 DEF Step

-----------------------------------------------------------------------------
(* Whatever else commits.                                                  *)

LEMMA InvOther ==
  ASSUME Inv, Other, hangout' \in [status : HangoutStatus \ {"none"}, deleted : BOOLEAN]
  PROVE  Inv'
  BY InvOvertake DEF Other, Inv, Shape

LEMMA InvEvents ==
  ASSUME Inv, Close \/ Hide \/ Unhide \/ Reply \/ GiveUp \/ DeleteContact
  PROVE  Inv' /\ (hangout.status = "closed" => hangout'.status = "closed")
  <1>1. Other
    BY DEF Close, Hide, Unhide, Reply, GiveUp, DeleteContact, Event
  <1>2. \/ hangout' = hangout
        \/ hangout' = [hangout EXCEPT !.status = "closed"]
        \/ hangout' = [hangout EXCEPT !.deleted = TRUE]
        \/ hangout' = [hangout EXCEPT !.deleted = FALSE]
    BY DEF Close, Hide, Unhide, Reply, GiveUp, DeleteContact
  <1>3. hangout' \in [status : HangoutStatus \ {"none"}, deleted : BOOLEAN]
    BY <1>1, <1>2 DEF Other, Inv, Shape, HangoutStatus
  <1>4. hangout.status = "closed" => hangout'.status = "closed"
    BY <1>2 DEF Inv, Shape
  <1> QED
    BY <1>1, <1>3, <1>4, InvOther

LEMMA InvCreate == ASSUME Inv, Create PROVE Inv'
  <1>1. /\ hangout.status = "none" /\ hangout' = [status |-> "draft", deleted |-> FALSE]
        /\ UNCHANGED <<pc, job, stale>>
    BY DEF Create
  <1> QED
    BY <1>1 DEF Inv, Shape, IdleAtFirst, TruePicture, SeenOpen, InPass, HangoutStatus

LEMMA InvCrash == ASSUME Inv, Crash PROVE Inv'
  BY BlankSession DEF Crash, Inv, Shape, IdleAtFirst, TruePicture, SeenOpen, InPass, Places

LEMMA InvNext == ASSUME Inv, [Next]_vars PROVE Inv'
  <1>1. CASE Create
    BY <1>1, InvCreate
  <1>2. CASE Close \/ Hide \/ Unhide \/ Reply \/ GiveUp \/ DeleteContact
    BY <1>2, InvEvents
  <1>3. CASE Crash
    BY <1>3, InvCrash
  <1>4. CASE \E r \in Requests : LoadEdit(r) \/ LoadSetup(r) \/ Step(r)
    BY <1>4, InvRequest
  <1>5. CASE UNCHANGED vars
    BY <1>5 DEF vars, Inv, Shape, IdleAtFirst, TruePicture, SeenOpen
  <1> QED
    BY <1>1, <1>2, <1>3, <1>4, <1>5 DEF Next

\* A closed hangout becomes active again only under a setup that loaded it before
\* the close, as a draft: a setup that asks again on an active hangout never writes
\* its status (services.py:476-482, 587).
THEOREM ClosedIsFinal == Spec => ClosedStays
  <1> DEFINE Reopens == hangout.status = "closed" /\ hangout'.status # "closed"
             Excused == \E r \in Requests : Ends(r) /\ stale[r] /\ job[r].seen = "draft"
  <1>1. ASSUME Inv, Next, Reopens PROVE Excused
    <2>1. ~(Create \/ Close \/ Hide \/ Unhide \/ Reply \/ GiveUp \/ DeleteContact \/ Crash)
      BY <1>1, InvEvents DEF Create, Crash
    <2>2. PICK r \in Requests : LoadEdit(r) \/ LoadSetup(r) \/ Step(r)
      BY <1>1, <2>1 DEF Next
    <2>3. Commit(r)
      BY <1>1, <2>2 DEF LoadEdit, LoadSetup, Load, Step, SaveEdit, ThenSetup, Each, Insert, Send,
                        LockRow, Aborts, CloseSession, Abandon
    <2>4. Done(r) /\ pc[r] = "each" /\ pc'[r] = "idle" /\ job[r].seen # "active"
      BY <1>1, <2>3 DEF Commit, Done, Goto, Inv, Shape
    <2>5. stale[r] /\ job[r].seen = "draft"
      BY <1>1, <2>4 DEF Inv, TruePicture, SeenOpen, InPass
    <2> QED
      BY <2>4, <2>5 DEF Ends
  <1>2. Inv /\ [Next]_vars => [Reopens => Excused]_vars
    BY <1>1
  <1> QED
    BY <1>2, InvInit, InvNext, PTL DEF Spec, ClosedStays

-----------------------------------------------------------------------------
(* The stored rows, the locks and the sessions: what every setup relies on. *)

UniqueIds(set)    == \A x, y \in set : x.id = y.id => x = y
OnePerPerson(set) == \A x, y \in set : x.person = y.person => x = y

Session == [seen : HangoutStatus, was : SUBSET Row, now : SUBSET Row,
            sent : SUBSET Nat, drop : SUBSET Nat, todo : SUBSET People,
            cur : People \cup {None}, detail : BOOLEAN, then : BOOLEAN, wanted : SUBSET People]

\* Rows a session has inserted and not committed.
New(j) == {y \in j.now : y.id \notin Ids(j.was)}

Store ==
  /\ rows \subseteq Row /\ UniqueIds(rows)
  /\ nextId \in Nat \ {0} /\ Ids(rows) \subseteq 1..(nextId - 1)
  /\ contacts \subseteq People /\ Persons(rows) \subseteq contacts
  /\ tainted \in BOOLEAN

Locks ==
  /\ held \in [Requests -> SUBSET (Ids(rows) \cup {0})]
  /\ \A r \in Requests : \A q \in Requests \ {r} : held[q] \cap held[r] = {}

\* What the age of the hangout says of its rows.
Ages ==
  /\ hangout.status = "none" => rows = {} /\ contacts = People
  /\ hangout.status = "draft" => \A x \in rows : ~x.texted /\ x.status \notin Answered
  /\ ~tainted => OnePerPerson(rows)

\* A session's own books: whoever was texted is out of the selection and was not
\* to be skipped; the other rows are as loaded, or are new and still to be texted.
\* What it deletes it read as untexted, and a draft has no answers.
Books(j) ==
  /\ UniqueIds(j.was) /\ UniqueIds(j.now) /\ OnePerPerson(j.now)
  /\ j.sent \subseteq Ids(j.now)
  /\ Ids(j.was) \subseteq Ids(j.now) \cup j.drop
  /\ \A y \in j.now : y.id \in j.sent => y.texted /\ y.person \notin j.todo
  /\ \A y \in j.now : y.id \notin j.sent =>
       IF y.id \in Ids(j.was) THEN y \in j.was ELSE y.person \in j.todo /\ ~Skipped(j.seen, y)
  /\ \A z \in j.was : z.id \in j.sent => ~Skipped(j.seen, z)
  /\ \A z \in j.was : z.id \in j.drop => ~z.texted
  /\ j.seen = "draft" => \A z \in j.was : z.status \notin Answered

Numbered(j, n) == Ids(j.was) \cup Ids(j.now) \cup j.drop \subseteq 1..(n - 1)

\* Where a session is, the person in hand agrees with its books.
AtPerson(place, j) ==
  /\ place \in {"insert", "send"} => j.cur \in j.todo
  /\ place = "save" => j.was = {}
  /\ place = "insert" => j.cur \notin Persons(j.now)
  /\ place = "send"   => \A y \in j.now : y.person = j.cur => ~Skipped(j.seen, y)

Resting(r) == pc[r] = "idle" => job[r] = Blank /\ held[r] = {} /\ ~stale[r]

\* Nobody else can know, or number, a row that is not committed.
Unborn(r) ==
  \A y \in New(job[r]) :
    /\ y.id \notin Ids(rows) /\ y.person \in contacts
    /\ \A q \in Requests \ {r} : y.id \notin Ids(New(job[q]))

SeenActive(r) == pc[r] \in InPass /\ job[r].seen = "active" => hangout.status \in {"active", "closed"}

\* A picture of the rows that nothing has overtaken.
Current(j) ==
  /\ j.was \subseteq rows /\ (~tainted => rows \subseteq j.was)
  /\ \A i \in j.drop : \E z \in j.was : z.id = i /\ ~z.texted
  /\ j.todo \cap Persons(rows) \subseteq Persons(j.now)
  /\ Persons(New(j)) \cap Persons(rows) = {}
  /\ Persons(j.now) \subseteq contacts
  /\ j.seen = "draft" => \A y \in j.now : y.id \in j.sent \/ y.person \in j.todo

CurrentEdit(j) == hangout.status = "draft" /\ j.todo \cap Persons(rows) = {}

UpToDate(r) ==
  /\ pc[r] \in InPass /\ ~stale[r] => Current(job[r])
  /\ pc[r] = "save" /\ ~stale[r] => CurrentEdit(job[r])

SessionOK(r) ==
  /\ Books(job[r]) /\ Numbered(job[r], nextId) /\ AtPerson(pc[r], job[r])
  /\ Resting(r) /\ Unborn(r) /\ SeenActive(r) /\ UpToDate(r)

Sessions == job \in [Requests -> Session] /\ \A r \in Requests : SessionOK(r)

Strong == Inv /\ Store /\ Locks /\ Ages /\ NobodyForgotten /\ Sessions

-----------------------------------------------------------------------------
LEMMA BlankType == Blank \in Session
  BY DEF Blank, Session, HangoutStatus

LEMMA BlankFields == /\ Blank.was = {} /\ Blank.now = {} /\ Blank.sent = {} /\ Blank.drop = {}
                     /\ Blank.todo = {} /\ Blank.seen = "none"
  BY DEF Blank

LEMMA NothingNew == ASSUME NEW j \in Session, j.now = {} PROVE New(j) = {}
  BY DEF New

\* A session without rows has its books in order.
LEMMA NoBooks ==
  ASSUME NEW j \in Session, j.was = {}, j.now = {}, j.sent = {}
  PROVE  Books(j)
  BY DEF Books, UniqueIds, OnePerPerson, Ids

LEMMA BlankBooks == Books(Blank) /\ New(Blank) = {} /\ \A n : Numbered(Blank, n)
  <1>1. Books(Blank) /\ New(Blank) = {}
    BY BlankType, BlankFields, NoBooks, NothingNew
  <1>2. \A n : Numbered(Blank, n)
    BY BlankFields DEF Numbered, Ids
  <1> QED
    BY <1>1, <1>2

LEMMA StrongInit == Init => Strong
  <1> SUFFICES ASSUME Init PROVE Strong
    OBVIOUS
  <1>1. Inv
    BY InvInit
  <1>2. Store
    <2>1. rows = {} /\ nextId = 1 /\ contacts = People /\ tainted = FALSE
      BY DEF Init
    <2>2. Ids(rows) = {} /\ Persons(rows) = {} /\ UniqueIds(rows)
      BY <2>1 DEF Ids, Persons, UniqueIds
    <2>3. tainted \in BOOLEAN /\ contacts \subseteq People
      BY <2>1
    <2>4. nextId \in Nat \ {0} /\ rows \subseteq Row
      BY <2>1
    <2> QED
      BY <2>2, <2>1, <2>3, <2>4 DEF Store
  <1>3. Locks
    BY DEF Init, Locks
  <1>4. Ages /\ NobodyForgotten
    BY DEF Init, Ages, NobodyForgotten, OnePerPerson
  <1>5. job \in [Requests -> Session]
    BY BlankType DEF Init
  <1>6. ASSUME NEW r \in Requests PROVE SessionOK(r)
    <2>1. job[r] = Blank /\ pc[r] = "idle" /\ held[r] = {} /\ ~stale[r]
      BY DEF Init
    <2>2. AtPerson(pc[r], job[r]) /\ SeenActive(r) /\ UpToDate(r)
      BY <2>1 DEF AtPerson, SeenActive, UpToDate, InPass
    <2>3. Resting(r) /\ Unborn(r)
      BY <2>1, BlankBooks DEF Resting, Unborn
    <2> QED
      BY <2>1, <2>2, <2>3, BlankBooks DEF SessionOK
  <1> QED
    BY <1>1, <1>2, <1>3, <1>4, <1>5, <1>6 DEF Strong, Sessions

-----------------------------------------------------------------------------
(* A request that works by itself: no row, contact or status changes.      *)

LEMMA SessionStep ==
  ASSUME Strong, Inv', NEW r \in Requests, NEW j \in Session, NEW place,
         pc' = [pc EXCEPT ![r] = place], job' = [job EXCEPT ![r] = j],
         UNCHANGED <<hangout, rows, contacts, tainted>>,
         nextId' \in Nat, nextId' >= nextId,
         Locks', \A q \in Requests \ {r} : held'[q] = held[q] /\ stale'[q] = stale[q],
         Books(j), Numbered(j, nextId'), AtPerson(place, j), Resting(r)',
         SeenActive(r)', UpToDate(r)',
         \A y \in New(j) : /\ y.id \notin Ids(rows) /\ y.person \in contacts
                           /\ \/ y.id >= nextId
                              \/ y.id \in Ids(New(job[r]))
  PROVE  Strong'
  <1>1. Store' /\ Ages' /\ NobodyForgotten'
    BY DEF Strong, Store, Ages, NobodyForgotten
  <1>2. job' \in [Requests -> Session] /\ pc' \in [Requests -> Places]
    BY DEF Strong, Sessions, Inv, Shape
  <1>3. job'[r] = j /\ pc'[r] = place
    BY DEF Strong, Sessions, Inv, Shape
  <1>4. \A q \in Requests \ {r} : job'[q] = job[q] /\ pc'[q] = pc[q]
    BY DEF Strong, Sessions, Inv, Shape
  <1>5. \A q \in Requests : Books(job[q]) /\ Numbered(job[q], nextId) /\ Unborn(q)
    BY DEF Strong, Sessions, SessionOK
  <1>6. \A q \in Requests : \A y \in New(job[q]) : y.id \in 1..(nextId - 1)
    BY <1>5 DEF Numbered, New, Ids
  <1>7. Unborn(r)'
    <2> SUFFICES ASSUME NEW y \in New(j), NEW q \in Requests \ {r}
                 PROVE  y.id \notin Ids(New(job[q]))
      BY <1>3, <1>4 DEF Unborn
    <2>1. CASE y.id >= nextId
      BY <2>1, <1>6 DEF Ids, Strong, Store
    <2>2. CASE y.id \in Ids(New(job[r]))
      BY <2>2, <1>5 DEF Unborn, Ids
    <2> QED
      BY <2>1, <2>2
  <1>8. SessionOK(r)'
    BY <1>3, <1>7 DEF SessionOK
  <1>9. ASSUME NEW q \in Requests \ {r} PROVE SessionOK(q)'
    <2>1. SessionOK(q)
      BY DEF Strong, Sessions
    <2>2. Unborn(q)'
      <3> SUFFICES ASSUME NEW y \in New(job[q]) PROVE y.id \notin Ids(New(j))
        BY <1>3, <1>4, <1>5 DEF Unborn
      <3>1. y.id \in 1..(nextId - 1)
        BY <1>6
      <3>2. y.id \notin Ids(New(job[r]))
        BY <1>5 DEF Unborn
      <3> QED
        BY <3>1, <3>2 DEF Ids, Strong, Store
    <2>3. Books(job'[q]) /\ AtPerson(pc'[q], job'[q]) /\ Resting(q)'
      BY <2>1, <1>4 DEF SessionOK, Resting
    <2>4. Numbered(job'[q], nextId')
      BY <2>1, <1>4 DEF SessionOK, Numbered, Strong, Store
    <2>5. SeenActive(q)' /\ UpToDate(q)'
      BY <2>1, <1>4 DEF SessionOK, SeenActive, UpToDate, Current, CurrentEdit
    <2> QED
      BY <2>2, <2>3, <2>4, <2>5 DEF SessionOK
  <1> QED
    BY <1>1, <1>2, <1>8, <1>9 DEF Strong, Sessions

LEMMA StrongAbandon ==
  ASSUME Strong, NEW r \in Requests, Abandon(r), UNCHANGED nextId
  PROVE  Strong'
  <1>1. /\ pc' = [pc EXCEPT ![r] = "idle"] /\ job' = [job EXCEPT ![r] = Blank]
        /\ held' = [held EXCEPT ![r] = {}] /\ stale' = [stale EXCEPT ![r] = FALSE]
        /\ UNCHANGED <<hangout, rows, contacts, tainted>>
    BY DEF Abandon, Goto
  <1>2. Inv'
    BY InvAbandon DEF Strong
  <1>3. Locks'
    BY <1>1 DEF Strong, Locks
  <1>4. \A q \in Requests \ {r} : held'[q] = held[q] /\ stale'[q] = stale[q]
    BY <1>1 DEF Strong, Locks, Inv, Shape
  <1>5. pc'[r] = "idle" /\ job'[r] = Blank /\ held'[r] = {} /\ ~stale'[r]
    BY <1>1 DEF Strong, Locks, Sessions, Inv, Shape
  <1>6. Resting(r)' /\ SeenActive(r)' /\ UpToDate(r)' /\ AtPerson("idle", Blank)
    BY <1>5 DEF Resting, SeenActive, UpToDate, AtPerson, InPass
  <1>7. nextId' \in Nat /\ nextId' >= nextId
    BY DEF Strong, Store
  <1> QED
    BY <1>1, <1>2, <1>3, <1>4, <1>6, <1>7, BlankType, BlankBooks, SessionStep

LEMMA StrongCrash == ASSUME Strong, Crash PROVE Strong'
  <1>1. /\ UNCHANGED <<hangout, rows, contacts, tainted, nextId>>
        /\ held' = [r \in Requests |-> {}] /\ job' = [r \in Requests |-> Blank]
    BY DEF Crash
  <1>2. Inv'
    BY InvCrash DEF Strong
  <1>3. Store' /\ Ages' /\ NobodyForgotten' /\ Locks'
    BY <1>1 DEF Strong, Store, Ages, NobodyForgotten, Locks
  <1>4. job' \in [Requests -> Session]
    BY <1>1, BlankType
  <1>5. ASSUME NEW r \in Requests PROVE SessionOK(r)'
    <2>1. job'[r] = Blank /\ pc'[r] = "idle" /\ held'[r] = {} /\ ~stale'[r]
      BY DEF Crash
    <2>2. AtPerson(pc'[r], job'[r]) /\ SeenActive(r)' /\ UpToDate(r)'
      BY <2>1 DEF AtPerson, SeenActive, UpToDate, InPass
    <2>3. Resting(r)' /\ Unborn(r)'
      BY <2>1, BlankBooks DEF Resting, Unborn
    <2> QED
      BY <2>1, <2>2, <2>3, BlankBooks DEF SessionOK
  <1> QED
    BY <1>2, <1>3, <1>4, <1>5 DEF Strong, Sessions

\* A nonempty set of numbers has a least one: of the intervals 0..n that end in
\* it some one contains no other.
LEMMA MinIsIn == ASSUME NEW set \in SUBSET Nat, set # {} PROVE Min(set) \in set
  <1> DEFINE Below == {0..n : n \in set}
  <1>1. Below \subseteq FiniteSubsetsOf(Nat)
    <2> SUFFICES ASSUME NEW n \in set PROVE 0..n \in FiniteSubsetsOf(Nat)
      OBVIOUS
    <2>1. 0 \in Int /\ n \in Int
      OBVIOUS
    <2>2. IsFiniteSet(0..n)
      BY <2>1, FS_Interval
    <2> QED
      BY <2>2 DEF FiniteSubsetsOf
  <1>2. Below # {}
    OBVIOUS
  <1> HIDE DEF Below
  <1>3. PICK least \in Below : \A one \in Below : ~(<<one, least>> \in StrictSubsetOrdering(Nat))
    <2>1. IsWellFoundedOn(StrictSubsetOrdering(Nat), FiniteSubsetsOf(Nat))
      BY FS_StrictSubsetOrderingWellFounded
    <2> QED
      BY <1>1, <1>2, <2>1, WFMin
  <1>4. PICK m \in set : least = 0..m
    BY DEF Below
  <1>5. ASSUME NEW n \in set PROVE m =< n
    <2>1. SUFFICES ASSUME n < m PROVE FALSE
      OBVIOUS
    <2>2. 0..n \in Below
      BY DEF Below
    <2>3. 0..n \subseteq 0..m /\ m \in 0..m /\ m \notin 0..n
      BY <2>1
    <2>4. <<0..n, 0..m>> \in StrictSubsetOrdering(Nat)
      BY <2>3 DEF StrictSubsetOrdering
    <2> QED
      BY <1>3, <1>4, <2>2, <2>4
  <1> QED
    BY <1>5 DEF Min

\* What a flush waits for is the hangout's row or a row that exists, not yet its own.
LEMMA NextIsNeeded ==
  ASSUME Strong, NEW r \in Requests, Locking(r)
  PROVE  NextLock(r) \in (Ids(rows) \cup {0}) \ held[r] /\ NextLock(r) \in Needed(r)
  <1> DEFINE updates == Hangouts(r) \cup Changed(r)
             left    == (IF updates \subseteq held[r] THEN Needed(r) ELSE updates) \ held[r]
  <1>1. left # {}
    BY DEF Locking
  <1>2. left \subseteq Needed(r) \ held[r]
    BY DEF Needed
  <1>3. Needed(r) \subseteq Ids(rows) \cup {0}
    BY DEF Locking, RowGone, Needed, Hangouts
  <1>4. left \in SUBSET Nat
    BY <1>2, <1>3 DEF Strong, Store
  <1>5. NextLock(r) = Min(left)
    BY DEF NextLock
  <1> HIDE DEF left
  <1> QED
    BY <1>1, <1>2, <1>3, <1>4, <1>5, MinIsIn

LEMMA StrongLockRow == ASSUME Strong, NEW r \in Requests, LockRow(r) PROVE Strong'
  <1>1. /\ UNCHANGED <<hangout, rows, nextId, contacts, pc, job, stale, tainted>>
        /\ held' = [held EXCEPT ![r] = held[r] \cup {NextLock(r)}]
        /\ Flushing(r)
    BY DEF LockRow, Locking
  <1>2. Store' /\ Ages' /\ NobodyForgotten' /\ Inv'
    BY <1>1 DEF Strong, Store, Ages, NobodyForgotten, Inv, Shape, IdleAtFirst, TruePicture, SeenOpen
  <1>3. \A q \in Requests \ {r} : NextLock(r) \notin held[q]
    BY DEF LockRow, Free
  <1>4. Locks'
    <2>1. NextLock(r) \in Ids(rows) \cup {0}
      BY NextIsNeeded DEF LockRow
    <2> QED
      BY <1>1, <1>3, <2>1 DEF Strong, Locks
  <1>5. ASSUME NEW q \in Requests PROVE SessionOK(q)'
    <2>1. Resting(q)'
      <3>1. pc[r] # "idle"
        BY <1>1 DEF Flushing, Done
      <3> QED
        BY <1>1, <3>1 DEF Strong, Sessions, SessionOK, Resting, Locks
    <2>2. Unborn(q)' /\ SeenActive(q)' /\ UpToDate(q)'
      BY <1>1 DEF Strong, Sessions, SessionOK, Unborn, SeenActive, UpToDate, Current, CurrentEdit
    <2> QED
      BY <1>1, <2>1, <2>2 DEF Strong, Sessions, SessionOK
  <1> QED
    BY <1>1, <1>2, <1>4, <1>5 DEF Strong, Sessions

LEMMA StrongEdit == ASSUME Strong, NEW r \in Requests, LoadEdit(r) PROVE Strong'
  <1>1. CASE Abandon(r)
    BY <1>1, StrongAbandon DEF LoadEdit
  <1>2. CASE ~Abandon(r)
    <2>1. PICK wanted \in SUBSET contacts, detail \in BOOLEAN, then \in BOOLEAN :
            /\ hangout.status = "draft"
            /\ job' = [job EXCEPT ![r] =
                      [Blank EXCEPT !.drop = {x.id : x \in {y \in rows : y.person \notin wanted}},
                                    !.todo = wanted \ Persons(rows),
                                    !.detail = detail, !.then = then, !.wanted = wanted]]
      BY <1>2 DEF LoadEdit
    <2> DEFINE drop == {x.id : x \in {y \in rows : y.person \notin wanted}}
               j    == [Blank EXCEPT !.drop = drop, !.todo = wanted \ Persons(rows),
                                     !.detail = detail, !.then = then, !.wanted = wanted]
    <2>2. /\ pc' = [pc EXCEPT ![r] = "save"]
          /\ UNCHANGED <<hangout, rows, contacts, tainted, nextId, held, stale>>
      BY <1>2 DEF LoadEdit, Goto
    <2>3. Inv'
      BY InvEdit DEF Strong
    <2>4. drop \subseteq 1..(nextId - 1)
      BY DEF Strong, Store, Ids
    <2>5. drop \subseteq Nat /\ wanted \subseteq People
      BY <2>4 DEF Strong, Store
    <2>6. j \in Session
      BY <2>5, BlankType DEF Session
    <2>7. j.was = {} /\ j.now = {} /\ j.sent = {} /\ j.drop = drop /\ j.todo = wanted \ Persons(rows)
      BY DEF Blank
    <2>8. job' = [job EXCEPT ![r] = j]
      BY <2>1
    <2> HIDE DEF j, drop
    <2>9. Books(j) /\ New(j) = {}
      BY <2>6, <2>7, NoBooks, NothingNew
    <2>10. Numbered(j, nextId') /\ AtPerson("save", j)
      BY <2>2, <2>4, <2>7 DEF Numbered, AtPerson, Ids
    <2>11. pc'[r] = "save" /\ job'[r] = j
      BY <2>2, <2>8 DEF Strong, Sessions, Inv, Shape
    <2>12. CurrentEdit(job[r])'
      BY <2>1, <2>2, <2>7, <2>11 DEF CurrentEdit
    <2>13. Resting(r)' /\ SeenActive(r)' /\ UpToDate(r)'
      BY <2>11, <2>12 DEF Resting, SeenActive, UpToDate, InPass
    <2>14. Locks' /\ nextId' \in Nat /\ nextId' >= nextId
      BY <2>2 DEF Strong, Locks, Store
    <2> QED
      BY <2>2, <2>3, <2>6, <2>8, <2>9, <2>10, <2>13, <2>14, SessionStep
  <1> QED
    BY <1>1, <1>2

\* A pass begins with the rows as they are: one for each person, and where no
\* person has two, all of them.
LEMMA StrongLoad ==
  ASSUME Strong, NEW r \in Requests, NEW ids \in SUBSET contacts, NEW chosen \in BOOLEAN,
         Load(r, ids, chosen), UNCHANGED nextId,
         hangout.status # "none", ~chosen => Persons(rows) \subseteq ids
  PROVE  Strong'
  <1>1. CASE Abandon(r)
    BY <1>1, StrongAbandon
  <1>2. CASE ~Abandon(r)
    <2>1. PICK last \in [Persons(rows) -> rows] :
            /\ \A p \in Persons(rows) : last[p].person = p
            /\ LET kept == Range(last)
                   gone == IF chosen THEN Left(kept, ids) ELSE {}
               IN job' = [job EXCEPT ![r] = [Blank EXCEPT !.seen = hangout.status, !.was = kept,
                                                          !.now = kept \ gone, !.drop = Ids(gone),
                                                          !.todo = ids]]
      BY <1>2 DEF Load
    <2> DEFINE kept == Range(last)
               gone == IF chosen THEN Left(kept, ids) ELSE {}
               j    == [Blank EXCEPT !.seen = hangout.status, !.was = kept,
                                     !.now = kept \ gone, !.drop = Ids(gone), !.todo = ids]
    <2>2. /\ pc' = [pc EXCEPT ![r] = "each"] /\ stale' = [stale EXCEPT ![r] = FALSE]
          /\ UNCHANGED <<hangout, rows, contacts, held, tainted, nextId>>
      BY <1>2 DEF Load, Goto
    <2>3. Inv'
      BY InvLoad DEF Strong
    <2>4. /\ kept \subseteq rows
          /\ \A p \in Persons(rows) : \E x \in kept : x.person = p
          /\ OnePerPerson(kept)
          /\ OnePerPerson(rows) => rows \subseteq kept
      <3>1. \A x \in kept : x \in rows /\ x = last[x.person]
        BY <2>1 DEF Range
      <3>2. \A x \in rows : x.person \in Persons(rows)
        BY DEF Persons
      <3>3. \A p \in Persons(rows) : last[p] \in kept
        BY DEF Range
      <3> HIDE DEF kept
      <3>4. OnePerPerson(kept)
        BY <3>1 DEF OnePerPerson
      <3>5. OnePerPerson(rows) => rows \subseteq kept
        BY <2>1, <3>2, <3>3 DEF OnePerPerson
      <3> QED
        BY <2>1, <3>1, <3>3, <3>4, <3>5
    <2> HIDE DEF kept
    <2>5. /\ gone \subseteq kept
          /\ \A x \in gone : x.person \notin ids /\ ~x.texted
          /\ \A x \in kept \ gone : x.person \in ids \/ x.texted
      <3>1. CASE chosen
        BY <3>1 DEF Left, Droppable
      <3>2. CASE ~chosen
        BY <3>2, <2>4 DEF Persons
      <3> QED
        BY <3>1, <3>2
    <2>6. Ids(gone) \subseteq Ids(kept) /\ Ids(kept) \subseteq 1..(nextId - 1) /\ kept \subseteq Row
      BY <2>4, <2>5 DEF Ids, Strong, Store
    <2>7. hangout.status \in HangoutStatus
      BY DEF Strong, Inv, Shape
    <2>8. job' = [job EXCEPT ![r] = j]
      BY <2>1 DEF kept
    <2> HIDE DEF gone
    <2>9. /\ j.seen = hangout.status /\ j.was = kept /\ j.now = kept \ gone
          /\ j.sent = {} /\ j.drop = Ids(gone) /\ j.todo = ids
      BY DEF Blank
    <2>10. j \in Session
      <3>1. Ids(gone) \subseteq Nat
        BY <2>6 DEF Strong, Store
      <3>2. ids \subseteq People
        BY DEF Strong, Store
      <3> QED
        BY <2>6, <2>7, <3>1, <3>2, BlankType DEF Session
    <2> HIDE DEF j
    <2>11. New(j) = {}
      BY <2>9 DEF New, Ids
    <2>12. Books(j)
      <3>1. UniqueIds(kept)
        BY <2>4 DEF Strong, Store, UniqueIds
      <3>2. \A z \in kept : z.id \in Ids(gone) => ~z.texted
        BY <2>5, <3>1 DEF UniqueIds, Ids, gone, Left, Droppable
      <3>3. j.seen = "draft" => \A z \in j.was : z.status \notin Answered
        BY <2>4, <2>9 DEF Strong, Ages
      <3> QED
        BY <2>9, <2>4, <2>5, <3>1, <3>2, <3>3 DEF Books, UniqueIds, OnePerPerson, Ids
    <2>13. Numbered(j, nextId') /\ AtPerson("each", j)
      BY <2>2, <2>6, <2>9 DEF Numbered, AtPerson, Ids
    <2>14. Current(j)
      <3>1. kept \subseteq rows /\ (~tainted => rows \subseteq kept)
        BY <2>4 DEF Strong, Ages
      <3>2. \A i \in Ids(gone) : \E z \in kept : z.id = i /\ ~z.texted
        BY <2>5 DEF Ids
      <3>3. ids \cap Persons(rows) \subseteq Persons(kept \ gone)
        BY <2>4, <2>5 DEF Persons
      <3>4. Persons(New(j)) = {}
        BY <2>11 DEF Persons
      <3>5. Persons(kept \ gone) \subseteq contacts
        BY <2>4 DEF Persons, Strong, Store
      <3>6. hangout.status = "draft" => \A y \in kept \ gone : y.person \in ids
        BY <2>4, <2>5 DEF Strong, Ages
      <3> QED
        BY <2>9, <3>1, <3>2, <3>3, <3>4, <3>5, <3>6 DEF Current
    <2>15. pc'[r] = "each" /\ job'[r] = j
      BY <2>2, <2>8 DEF Strong, Sessions, Inv, Shape
    <2>16. Current(job[r])'
      BY <2>2, <2>14, <2>15 DEF Current
    <2>17. Resting(r)' /\ SeenActive(r)' /\ UpToDate(r)'
      BY <2>2, <2>9, <2>15, <2>16 DEF Resting, SeenActive, UpToDate, InPass
    <2>18. Locks' /\ nextId' \in Nat /\ nextId' >= nextId
      BY <2>2 DEF Strong, Locks, Store
    <2>19. \A q \in Requests \ {r} : held'[q] = held[q] /\ stale'[q] = stale[q]
      BY <2>2 DEF Strong, Inv, Shape
    <2> QED
      BY <2>2, <2>3, <2>8, <2>10, <2>11, <2>12, <2>13, <2>17, <2>18, <2>19, SessionStep
  <1> QED
    BY <1>1, <1>2

\* The next person is passed over, or taken in hand.
LEMMA StrongEach == ASSUME Strong, NEW r \in Requests, Each(r) PROVE Strong'
  <1> DEFINE old == job[r]
  <1>1. PICK p \in old.todo :
          LET mine == {x \in old.now : x.person = p} IN
          \/ /\ p \notin contacts \/ \E x \in mine : Skipped(old.seen, x)
             /\ job' = [job EXCEPT ![r].todo = @ \ {p}]
             /\ UNCHANGED pc
          \/ /\ p \in contacts /\ \A x \in mine : ~Skipped(old.seen, x)
             /\ job' = [job EXCEPT ![r].cur = p]
             /\ Goto(r, IF mine = {} THEN "insert" ELSE "send")
    BY DEF Each
  <1>2. /\ pc[r] = "each"
        /\ UNCHANGED <<hangout, rows, nextId, contacts, held, stale, tainted>>
    BY DEF Each
  <1>3. Inv'
    BY InvEach DEF Strong
  <1>4. old \in Session /\ SessionOK(r) /\ pc \in [Requests -> Places]
    BY DEF Strong, Sessions, Inv, Shape
  <1>5. Locks' /\ nextId' \in Nat /\ nextId' >= nextId
    BY <1>2 DEF Strong, Locks, Store
  <1>6. ASSUME NEW y \in New(old) PROVE y.id \notin Ids(rows) /\ y.person \in contacts /\ y.id \in Ids(New(old))
    BY <1>4 DEF SessionOK, Unborn, Ids
  <1>7. CASE /\ p \notin contacts \/ \E x \in old.now : x.person = p /\ Skipped(old.seen, x)
             /\ job' = [job EXCEPT ![r].todo = @ \ {p}]
             /\ UNCHANGED pc
    <2> DEFINE j == [old EXCEPT !.todo = @ \ {p}]
    <2>1. j \in Session /\ job' = [job EXCEPT ![r] = j] /\ pc' = [pc EXCEPT ![r] = "each"]
      BY <1>2, <1>4, <1>7 DEF Session, Strong, Sessions
    <2>2. /\ j.was = old.was /\ j.now = old.now /\ j.sent = old.sent /\ j.drop = old.drop
          /\ j.seen = old.seen /\ j.todo = old.todo \ {p}
      BY <1>4 DEF Session
    <2> HIDE DEF j
    <2>3. New(j) = New(old)
      BY <2>2 DEF New
    <2>4. Books(j)
      <3>1. ASSUME NEW y \in old.now, y.id \notin old.sent, y.id \notin Ids(old.was)
            PROVE  y.person # p
        <4>1. y \in New(old) /\ ~Skipped(old.seen, y)
          BY <1>4, <3>1 DEF New, SessionOK, Books
        <4>2. \A x \in old.now : x.person = y.person => x = y
          BY <1>4 DEF SessionOK, Books, OnePerPerson
        <4> QED
          BY <1>6, <1>7, <4>1, <4>2
      <3>2. Books(old)
        BY <1>4 DEF SessionOK
      <3> QED
        BY <2>2, <3>1, <3>2 DEF Books
    <2>5. Numbered(j, nextId') /\ AtPerson("each", j)
      BY <1>2, <1>4, <2>2 DEF SessionOK, Numbered, AtPerson
    <2>6. pc'[r] = "each" /\ job'[r] = j
      BY <1>4, <2>1 DEF Strong, Sessions
    <2>7. ASSUME Current(old) PROVE Current(j)
      <3>1. ASSUME old.seen = "draft", NEW y \in old.now PROVE y.person # p
        BY <1>7, <2>7, <3>1 DEF Current, Persons, Skipped
      <3> QED
        BY <2>2, <2>3, <2>7, <3>1 DEF Current
    <2>8. ~stale'[r] => Current(job[r])'
      <3>1. ~stale[r] => Current(j)
        BY <1>2, <1>4, <2>7 DEF SessionOK, UpToDate, InPass
      <3> QED
        BY <1>2, <2>6, <3>1 DEF Current
    <2>9. Resting(r)' /\ SeenActive(r)' /\ UpToDate(r)'
      BY <1>2, <1>4, <2>2, <2>6, <2>8 DEF SessionOK, Resting, SeenActive, UpToDate, InPass
    <2> QED
      BY <1>2, <1>3, <1>5, <1>6, <2>1, <2>3, <2>4, <2>5, <2>9, SessionStep
  <1>8. ASSUME p \in contacts, \A x \in old.now : x.person = p => ~Skipped(old.seen, x),
               job' = [job EXCEPT ![r].cur = p],
               NEW place \in {"insert", "send"}, Goto(r, place),
               place = "insert" => \A x \in old.now : x.person # p
        PROVE  Strong'
    <2> DEFINE j == [old EXCEPT !.cur = p]
    <2>1. j \in Session /\ job' = [job EXCEPT ![r] = j] /\ pc' = [pc EXCEPT ![r] = place]
      <3>1. p \in People
        BY <1>8 DEF Strong, Store
      <3> QED
        BY <1>4, <1>8, <3>1 DEF Session, Strong, Sessions, Goto
    <2>2. /\ j.was = old.was /\ j.now = old.now /\ j.sent = old.sent /\ j.drop = old.drop
          /\ j.seen = old.seen /\ j.todo = old.todo /\ j.cur = p
      BY <1>4 DEF Session
    <2> HIDE DEF j
    <2>3. New(j) = New(old)
      BY <2>2 DEF New
    <2>4. Books(j)
      BY <1>4, <2>2 DEF SessionOK, Books
    <2>5. Numbered(j, nextId') /\ AtPerson(place, j)
      BY <1>2, <1>4, <1>8, <2>2 DEF SessionOK, Numbered, AtPerson, Persons
    <2>6. pc'[r] = place /\ job'[r] = j
      BY <1>4, <2>1 DEF Strong, Sessions
    <2>7. Current(old) => Current(j)
      BY <2>2, <2>3 DEF Current
    <2>8. ~stale'[r] => Current(job[r])'
      <3>1. ~stale[r] => Current(j)
        BY <1>2, <1>4, <2>7 DEF SessionOK, UpToDate, InPass
      <3> QED
        BY <1>2, <2>6, <3>1 DEF Current
    <2>9. Resting(r)' /\ SeenActive(r)' /\ UpToDate(r)'
      BY <1>2, <1>4, <2>2, <2>6, <2>8 DEF SessionOK, Resting, SeenActive, UpToDate, InPass
    <2> QED
      BY <1>2, <1>3, <1>5, <1>6, <2>1, <2>3, <2>4, <2>5, <2>9, SessionStep
  <1> DEFINE mine == {x \in old.now : x.person = p}
             next == IF mine = {} THEN "insert" ELSE "send"
  <1>9. CASE /\ p \in contacts /\ \A x \in mine : ~Skipped(old.seen, x)
             /\ job' = [job EXCEPT ![r].cur = p]
             /\ Goto(r, next)
    <2>1. \A x \in old.now : x.person = p => ~Skipped(old.seen, x)
      BY <1>9
    <2>2. next \in {"insert", "send"} /\ (next = "insert" => \A x \in old.now : x.person # p)
      OBVIOUS
    <2> HIDE DEF next
    <2> QED
      BY <1>8, <1>9, <2>1, <2>2
  <1> QED
    BY <1>1, <1>7, <1>9

LEMMA StrongInsert == ASSUME Strong, NEW r \in Requests, Insert(r) PROVE Strong'
  <1> DEFINE old == job[r]
             p   == old.cur
             new == Fresh(nextId, p)
             j   == [old EXCEPT !.now = @ \cup {new}]
  <1>1. CASE Abandon(r) /\ UNCHANGED nextId
    BY <1>1, StrongAbandon
  <1>2. CASE ~(Abandon(r) /\ UNCHANGED nextId)
    <2>1. /\ pc[r] = "insert" /\ p \in contacts /\ nextId' = nextId + 1
          /\ job' = [job EXCEPT ![r].now = @ \cup {new}]
          /\ pc' = [pc EXCEPT ![r] = "send"]
          /\ UNCHANGED <<hangout, rows, contacts, held, stale, tainted>>
      BY <1>2 DEF Insert, Goto
    <2>2. Inv'
      BY InvInsert DEF Strong
    <2>3. old \in Session /\ SessionOK(r) /\ pc \in [Requests -> Places]
      BY DEF Strong, Sessions, Inv, Shape
    <2>4. Locks' /\ nextId \in Nat /\ nextId' \in Nat /\ nextId' >= nextId
      BY <2>1 DEF Strong, Locks, Store
    <2>5. new \in Row /\ new.id = nextId /\ new.person = p /\ new.status = "pending" /\ ~new.texted
      BY <2>1, <2>4 DEF Fresh, Row, InviteStatus, Strong, Store
    <2> HIDE DEF new
    <2>6. j \in Session
      <3>1. old.now \cup {new} \in SUBSET Row
        BY <2>3, <2>5 DEF Session
      <3> QED
        BY <2>3, <3>1 DEF Session
    <2>7. /\ j.was = old.was /\ j.now = old.now \cup {new} /\ j.sent = old.sent /\ j.drop = old.drop
          /\ j.seen = old.seen /\ j.todo = old.todo /\ j.cur = p
      BY <2>3 DEF Session
    <2>8. job' = [job EXCEPT ![r] = j]
      BY <2>1 DEF Strong, Sessions
    <2> HIDE DEF j
    <2>9. /\ p \in old.todo /\ p \notin Persons(old.now)
          /\ nextId \notin Ids(old.now) /\ nextId \notin Ids(old.was)
      BY <2>1, <2>3, <2>4 DEF SessionOK, AtPerson, Numbered
    <2>10. New(j) = New(old) \cup {new}
      BY <2>5, <2>7, <2>9 DEF New
    <2>11. \A y \in New(j) : /\ y.id \notin Ids(rows) /\ y.person \in contacts
                             /\ y.id >= nextId \/ y.id \in Ids(New(old))
      <3>1. nextId \notin Ids(rows)
        BY <2>4 DEF Strong, Store
      <3>2. ASSUME NEW y \in New(old) PROVE y.id \notin Ids(rows) /\ y.person \in contacts /\ y.id \in Ids(New(old))
        BY <2>3 DEF SessionOK, Unborn, Ids
      <3> QED
        BY <2>1, <2>4, <2>5, <2>10, <3>1, <3>2
    <2>12. Books(j)
      <3>1. Books(old)
        BY <2>3 DEF SessionOK
      <3>2. UniqueIds(j.now)
        BY <2>5, <2>7, <2>9, <3>1 DEF Books, UniqueIds, Ids
      <3>3. OnePerPerson(j.now)
        BY <2>5, <2>7, <2>9, <3>1 DEF Books, OnePerPerson, Persons
      <3>4. Ids(old.now) \subseteq Ids(j.now)
        BY <2>7 DEF Ids
      <3>5. new.id \notin old.sent /\ new.id \notin Ids(old.was) /\ ~Skipped(old.seen, new)
        BY <2>5, <2>9, <3>1 DEF Books, Skipped, Answered
      <3> QED
        BY <2>5, <2>7, <2>9, <3>1, <3>2, <3>3, <3>4, <3>5 DEF Books
    <2>13. Numbered(j, nextId')
      <3>1. Ids(j.now) \subseteq Ids(old.now) \cup {nextId}
        BY <2>5, <2>7 DEF Ids
      <3>2. Ids(old.was) \cup Ids(old.now) \cup old.drop \subseteq 1..(nextId - 1)
        BY <2>3 DEF SessionOK, Numbered
      <3>3. nextId \in Nat \ {0} /\ nextId' = nextId + 1
        BY <2>1 DEF Strong, Store
      <3>4. 1..(nextId - 1) \cup {nextId} \subseteq 1..(nextId' - 1)
        BY <3>3
      <3> QED
        BY <2>7, <3>1, <3>2, <3>4 DEF Numbered
    <2>14. AtPerson("send", j)
      BY <2>5, <2>7, <2>9 DEF AtPerson, Persons, Skipped, Answered
    <2>15. pc'[r] = "send" /\ job'[r] = j
      BY <2>1, <2>3, <2>8 DEF Strong, Sessions
    <2>16. ASSUME Current(old) PROVE Current(j)
      <3>1. p \notin Persons(rows)
        BY <2>9, <2>16 DEF Current
      <3>2. Persons(New(j)) \cap Persons(rows) = {}
        BY <2>5, <2>10, <2>16, <3>1 DEF Current, Persons
      <3>3. Persons(old.now) \subseteq Persons(j.now) /\ Persons(j.now) \subseteq contacts
        BY <2>1, <2>5, <2>7, <2>16 DEF Current, Persons
      <3> QED
        BY <2>5, <2>7, <2>9, <2>16, <3>2, <3>3 DEF Current
    <2>17. ~stale'[r] => Current(job[r])'
      <3>1. ~stale[r] => Current(j)
        BY <2>1, <2>3, <2>16 DEF SessionOK, UpToDate, InPass
      <3> QED
        BY <2>1, <2>15, <3>1 DEF Current
    <2>18. Resting(r)' /\ SeenActive(r)' /\ UpToDate(r)'
      BY <2>1, <2>3, <2>7, <2>15, <2>17 DEF SessionOK, Resting, SeenActive, UpToDate, InPass
    <2> QED
      BY <2>1, <2>2, <2>4, <2>6, <2>8, <2>11, <2>12, <2>13, <2>14, <2>18, SessionStep
  <1> QED
    BY <1>1, <1>2

\* The row just texted stands in for the one it was.
LEMMA StrongSend == ASSUME Strong, NEW r \in Requests, Send(r) PROVE Strong'
  <1> DEFINE old == job[r]
             p   == old.cur
  <1>1. CASE Goto(r, "raised") /\ UNCHANGED job
    <2>1. /\ pc[r] = "send" /\ pc' = [pc EXCEPT ![r] = "raised"]
          /\ UNCHANGED <<hangout, rows, nextId, contacts, job, held, stale, tainted>>
      BY <1>1 DEF Send, Goto
    <2>2. old \in Session /\ SessionOK(r) /\ pc \in [Requests -> Places]
      BY DEF Strong, Sessions, Inv, Shape
    <2>3. Inv' /\ Locks' /\ nextId' \in Nat /\ nextId' >= nextId
      BY <2>1, InvSend DEF Strong, Locks, Store
    <2>4. job' = [job EXCEPT ![r] = old] /\ pc'[r] = "raised"
      BY <2>1, <2>2 DEF Strong, Sessions
    <2>5. Books(old) /\ Numbered(old, nextId') /\ AtPerson("raised", old)
      BY <2>1, <2>2 DEF SessionOK, AtPerson
    <2>6. Resting(r)' /\ SeenActive(r)' /\ UpToDate(r)'
      BY <2>1, <2>2, <2>4 DEF SessionOK, Resting, SeenActive, UpToDate, Current, InPass
    <2>7. \A y \in New(old) : y.id \notin Ids(rows) /\ y.person \in contacts /\ y.id \in Ids(New(old))
      BY <2>2 DEF SessionOK, Unborn, Ids
    <2> HIDE DEF old
    <2> QED
      BY <2>1, <2>2, <2>3, <2>4, <2>5, <2>6, <2>7, SessionStep DEF old
  <1>2. CASE ~(Goto(r, "raised") /\ UNCHANGED job)
    <2>1. PICK x \in old.now, outcome \in Outcomes(p) :
            /\ x.person = p
            /\ job' = [job EXCEPT ![r].now = (@ \ {x}) \cup {Sent(x, outcome)},
                                  ![r].sent = @ \cup {x.id}, ![r].todo = @ \ {p}, ![r].cur = None]
      BY <1>2 DEF Send
    <2>2. /\ pc[r] = "send" /\ pc' = [pc EXCEPT ![r] = "each"]
          /\ UNCHANGED <<hangout, rows, nextId, contacts, held, stale, tainted>>
      BY <1>2 DEF Send, Goto
    <2>3. Inv'
      BY InvSend DEF Strong
    <2>4. old \in Session /\ SessionOK(r) /\ pc \in [Requests -> Places]
      BY DEF Strong, Sessions, Inv, Shape
    <2>5. Locks' /\ nextId' \in Nat /\ nextId' >= nextId
      BY <2>2 DEF Strong, Locks, Store
    <2> DEFINE y == Sent(x, outcome)
               j == [old EXCEPT !.now = (@ \ {x}) \cup {y}, !.sent = @ \cup {x.id},
                                !.todo = @ \ {p}, !.cur = None]
    <2>6. x \in Row /\ outcome \in InviteStatus
      BY <2>4 DEF Session, Outcomes, InviteStatus
    <2>7. y \in Row /\ y.id = x.id /\ y.person = p /\ y.texted
      BY <2>1, <2>6 DEF Sent, Row
    <2> HIDE DEF y
    <2>8. j \in Session
      <3>1. (old.now \ {x}) \cup {y} \in SUBSET Row /\ old.sent \cup {x.id} \in SUBSET Nat
        BY <2>4, <2>6, <2>7 DEF Session, Row
      <3>2. old.todo \ {p} \in SUBSET People
        BY <2>4 DEF Session
      <3> QED
        BY <2>4, <3>1, <3>2 DEF Session
    <2>9. /\ j.was = old.was /\ j.now = (old.now \ {x}) \cup {y} /\ j.sent = old.sent \cup {x.id}
          /\ j.drop = old.drop /\ j.seen = old.seen /\ j.todo = old.todo \ {p}
      BY <2>4 DEF Session
    <2>10. job' = [job EXCEPT ![r] = j]
      BY <2>1 DEF Strong, Sessions, y
    <2> HIDE DEF j
    <2>11. Books(old) /\ ~Skipped(old.seen, x)
      BY <2>1, <2>2, <2>4 DEF SessionOK, AtPerson
    <2>12. \A z \in old.now \ {x} : z.id # x.id /\ z.person # p
      BY <2>1, <2>11 DEF Books, UniqueIds, OnePerPerson
    <2>13. Ids(j.now) = Ids(old.now) /\ Persons(j.now) = Persons(old.now)
      BY <2>1, <2>7, <2>9 DEF Ids, Persons
    <2>14. \A z \in New(j) : \E w \in New(old) : w.id = z.id /\ w.person = z.person
      <3> SUFFICES ASSUME NEW z \in New(j) PROVE \E w \in New(old) : w.id = z.id /\ w.person = z.person
        OBVIOUS
      <3>1. CASE z = y
        <4>1. x \in New(old)
          BY <2>7, <2>9, <3>1 DEF New
        <4> QED
          BY <2>1, <2>7, <3>1, <4>1
      <3>2. CASE z # y
        BY <2>9, <3>2 DEF New
      <3> QED
        BY <3>1, <3>2
    <2>15. \A z \in New(j) : z.id \notin Ids(rows) /\ z.person \in contacts /\ z.id \in Ids(New(old))
      BY <2>4, <2>14 DEF SessionOK, Unborn, Ids
    <2>16. Books(j)
      <3>1. UniqueIds(j.now) /\ OnePerPerson(j.now)
        BY <2>7, <2>9, <2>11, <2>12 DEF Books, UniqueIds, OnePerPerson
      <3>2. j.sent \subseteq Ids(j.now) /\ Ids(j.was) \subseteq Ids(j.now) \cup j.drop
        BY <2>9, <2>11, <2>13 DEF Books, Ids
      <3>3. ASSUME NEW z \in j.now, z.id \in j.sent PROVE z.texted /\ z.person \notin j.todo
        BY <2>7, <2>9, <2>11, <2>12, <3>3 DEF Books
      <3>4. ASSUME NEW z \in j.now, z.id \notin j.sent
            PROVE  IF z.id \in Ids(j.was) THEN z \in j.was ELSE z.person \in j.todo /\ ~Skipped(j.seen, z)
        BY <2>7, <2>9, <2>11, <2>12, <3>4 DEF Books
      <3>5. ASSUME NEW z \in j.was, z.id \in j.sent PROVE ~Skipped(j.seen, z)
        <4>1. CASE z.id \in old.sent
          BY <2>9, <2>11, <4>1 DEF Books
        <4>2. CASE z.id \notin old.sent
          <5>1. z.id = x.id /\ x.id \in Ids(old.was) /\ x.id \notin old.sent
            BY <2>9, <3>5, <4>2 DEF Ids
          <5>2. z = x
            BY <2>9, <2>11, <5>1 DEF Books, UniqueIds
          <5> QED
            BY <2>9, <2>11, <5>2
        <4> QED
          BY <4>1, <4>2
      <3> QED
        BY <2>9, <2>11, <3>1, <3>2, <3>3, <3>4, <3>5 DEF Books
    <2>17. Numbered(j, nextId') /\ AtPerson("each", j)
      BY <2>2, <2>4, <2>9, <2>13 DEF SessionOK, Numbered, AtPerson
    <2>18. pc'[r] = "each" /\ job'[r] = j
      BY <2>2, <2>4, <2>10 DEF Strong, Sessions
    <2>19. ASSUME Current(old) PROVE Current(j)
      <3>1. Persons(New(j)) \cap Persons(rows) = {}
        BY <2>14, <2>19 DEF Current, Persons
      <3>2. ASSUME j.seen = "draft", NEW z \in j.now PROVE z.id \in j.sent \/ z.person \in j.todo
        BY <2>7, <2>9, <2>12, <2>19, <3>2 DEF Current
      <3> QED
        BY <2>9, <2>13, <2>19, <3>1, <3>2 DEF Current
    <2>20. ~stale'[r] => Current(job[r])'
      <3>1. ~stale[r] => Current(j)
        BY <2>2, <2>4, <2>19 DEF SessionOK, UpToDate, InPass
      <3> QED
        BY <2>2, <2>18, <3>1 DEF Current
    <2>21. Resting(r)' /\ SeenActive(r)' /\ UpToDate(r)'
      BY <2>2, <2>4, <2>9, <2>18, <2>20 DEF SessionOK, Resting, SeenActive, UpToDate, InPass
    <2> QED
      BY <2>2, <2>3, <2>5, <2>8, <2>10, <2>15, <2>16, <2>17, <2>21, SessionStep
  <1> QED
    BY <1>1, <1>2

-----------------------------------------------------------------------------
(* Commits: they overtake every other request, and change the stored rows. *)

\* The sessions after a commit: those of mine end or go on without rows, the
\* others are stale and keep what they hold.
LEMMA Overtaken ==
  ASSUME Strong, Inv', NEW mine \in SUBSET Requests, Overtakes(mine),
         Store', Locks', Ages', NobodyForgotten', nextId' >= nextId,
         job' \in [Requests -> Session],
         \A q \in Requests \ mine : job'[q] = job[q] /\ pc'[q] = pc[q] /\ held'[q] = held[q],
         \A q \in mine : /\ job'[q].was = {} /\ job'[q].now = {} /\ job'[q].sent = {} /\ job'[q].drop = {}
                         /\ pc'[q] \in {"idle", "setup"} /\ Resting(q)',
         hangout.status \in {"active", "closed"} => hangout'.status \in {"active", "closed"},
         \A q \in Requests \ mine : \A y \in New(job[q]) : y.id \notin Ids(rows') /\ y.person \in contacts'
  PROVE  Strong'
  <1>1. \A q \in Requests : stale'[q] = (q \notin mine /\ pc[q] # "idle")
    BY DEF Overtakes
  <1>2. \A q \in mine : New(job'[q]) = {}
    BY DEF New
  <1>3. \A q \in Requests : SessionOK(q)
    BY DEF Strong, Sessions
  <1>4. ASSUME NEW q \in mine PROVE SessionOK(q)'
    <2>1. Books(job'[q]) /\ Numbered(job'[q], nextId') /\ AtPerson(pc'[q], job'[q])
      BY NoBooks DEF Numbered, AtPerson, Ids
    <2>2. Unborn(q)' /\ SeenActive(q)' /\ UpToDate(q)'
      BY <1>2 DEF Unborn, SeenActive, UpToDate, InPass
    <2> QED
      BY <2>1, <2>2 DEF SessionOK
  <1>5. ASSUME NEW q \in Requests \ mine PROVE SessionOK(q)'
    <2>1. Books(job'[q]) /\ AtPerson(pc'[q], job'[q])
      BY <1>3 DEF SessionOK
    <2>2. Numbered(job'[q], nextId')
      BY SMTT(60), <1>3 DEF SessionOK, Numbered, Strong, Store
    <2>3. Resting(q)' /\ UpToDate(q)'
      BY ZenonT(60), <1>1, <1>3 DEF SessionOK, Resting, UpToDate, InPass
    <2>4. SeenActive(q)'
      BY <1>3 DEF SessionOK, SeenActive
    <2>5. Unborn(q)'
      <3> SUFFICES ASSUME NEW y \in New(job[q]), NEW o \in Requests \ {q}
                   PROVE  y.id \notin Ids(New(job'[o]))
        BY DEF Unborn
      <3>1. CASE o \in mine
        BY <1>2, <3>1 DEF Ids
      <3>2. CASE o \notin mine
        BY <1>3, <3>2 DEF SessionOK, Unborn
      <3> QED
        BY <3>1, <3>2
    <2> QED
      BY <2>1, <2>2, <2>3, <2>4, <2>5 DEF SessionOK
  <1> QED
    BY <1>4, <1>5 DEF Strong, Sessions

\* Locks stay apart as they are released, and stay on rows that stay.
LEMMA LocksKept ==
  ASSUME Strong, held' \in [Requests -> SUBSET (Ids(rows) \cup {0})],
         \A q \in Requests : held'[q] \subseteq held[q],
         \A q \in Requests : \A i \in held'[q] : i \in Ids(rows) => i \in Ids(rows')
  PROVE  Locks'
  <1>1. held' \in [Requests -> SUBSET (Ids(rows') \cup {0})]
    OBVIOUS
  <1>2. \A r \in Requests : \A q \in Requests \ {r} : held'[q] \cap held'[r] = {}
    BY DEF Strong, Locks
  <1> QED
    BY <1>1, <1>2 DEF Locks

LEMMA StrongCreate == ASSUME Strong, Create PROVE Strong'
  <1>1. /\ hangout.status = "none" /\ hangout' = [status |-> "draft", deleted |-> FALSE]
        /\ UNCHANGED <<contacts, pc, job, held, stale>>
    BY DEF Create
  <1>0. PICK n \in 0..MaxListed : \E list \in [1..n -> People] :
          /\ rows' = {Fresh(k, list[k]) : k \in 1..n}
          /\ nextId' = n + 1
          /\ tainted' = ~IsInjective(list)
    BY DEF Create
  <1>2. PICK list \in [1..n -> People] :
          /\ rows' = {Fresh(k, list[k]) : k \in 1..n}
          /\ nextId' = n + 1
          /\ tainted' = ~IsInjective(list)
    BY <1>0
  <1>3. Inv'
    BY InvCreate DEF Strong
  <1>4. n \in Nat
    BY BoundsAssumption
  <1>5. \A x \in rows' : /\ x \in Row /\ x.id \in 1..n /\ x.person = list[x.id]
                         /\ x = Fresh(x.id, list[x.id]) /\ ~x.texted
    <2> SUFFICES ASSUME NEW k \in 1..n
                 PROVE  /\ Fresh(k, list[k]) \in Row /\ Fresh(k, list[k]).id = k
                        /\ Fresh(k, list[k]).person = list[k] /\ ~Fresh(k, list[k]).texted
      BY <1>2
    <2>1. k \in Nat /\ list[k] \in People
      BY <1>4
    <2> QED
      BY <2>1 DEF Fresh, Row, InviteStatus
  <1>6. contacts = People
    BY <1>1 DEF Strong, Ages
  <1>7. Store'
    <2>1. UniqueIds(rows')
      BY <1>5 DEF UniqueIds
    <2>2. Ids(rows') \subseteq 1..(nextId' - 1)
      BY <1>2, <1>4, <1>5 DEF Ids
    <2>3. Persons(rows') \subseteq People
      BY <1>5 DEF Persons
    <2>4. tainted' \in BOOLEAN
      BY <1>2
    <2> QED
      BY <1>1, <1>2, <1>4, <1>5, <1>6, <2>1, <2>2, <2>3, <2>4 DEF Store
  <1>8. \A q \in Requests : job[q] = Blank /\ pc[q] = "idle" /\ held[q] = {} /\ ~stale[q]
    BY <1>1 DEF Strong, Inv, IdleAtFirst, Sessions, SessionOK, Resting
  <1>9. Locks'
    BY <1>1, <1>8 DEF Strong, Locks
  <1>10. Ages' /\ NobodyForgotten'
    <2>1. ASSUME ~tainted' PROVE OnePerPerson(rows')
      <3>1. IsInjective(list)
        BY <1>2, <2>1
      <3>2. \A a, b \in 1..n : list[a] = list[b] => a = b
        BY <3>1 DEF IsInjective
      <3> QED
        BY <1>5, <3>2 DEF OnePerPerson
    <2>2. \A x \in rows' : ~x.texted /\ x.status \notin Answered
      BY <1>5 DEF Fresh, Answered
    <2> QED
      BY <1>1, <1>5, <2>1, <2>2 DEF Ages, NobodyForgotten
  <1>11. ASSUME NEW q \in Requests PROVE SessionOK(q)'
    <2>1. job'[q] = Blank /\ pc'[q] = "idle" /\ held'[q] = {} /\ ~stale'[q]
      BY <1>1, <1>8
    <2>2. AtPerson(pc'[q], job'[q]) /\ SeenActive(q)' /\ UpToDate(q)'
      BY <2>1 DEF AtPerson, SeenActive, UpToDate, InPass
    <2>3. Resting(q)' /\ Unborn(q)'
      BY <2>1, BlankBooks DEF Resting, Unborn
    <2> QED
      BY <2>1, <2>2, <2>3, BlankBooks DEF SessionOK
  <1> QED
    BY <1>1, <1>3, <1>7, <1>9, <1>10, <1>11 DEF Strong, Sessions

\* close, hide and restore leave the rows alone.
LEMMA StrongStatus == ASSUME Strong, Close \/ Hide \/ Unhide PROVE Strong'
  <1>1. Other /\ hangout.status # "none"
    BY DEF Close, Hide, Unhide, Event, Other
  <1>2. /\ UNCHANGED <<rows, contacts, nextId, pc, job, held, tainted>> /\ Overtakes({})
    BY DEF Close, Hide, Unhide, Event, Other
  <1>3. hangout'.status \in {hangout.status, "closed"}
    BY DEF Close, Hide, Unhide, Strong, Inv, Shape
  <1>4. Inv'
    BY InvEvents DEF Strong
  <1>5. Store' /\ Locks' /\ Ages' /\ NobodyForgotten'
    BY <1>1, <1>2, <1>3 DEF Strong, Store, Locks, Ages, NobodyForgotten
  <1>6. \A q \in Requests : \A y \in New(job[q]) : y.id \notin Ids(rows') /\ y.person \in contacts'
    BY <1>2 DEF Strong, Sessions, SessionOK, Unborn
  <1>7. nextId' >= nextId /\ job' \in [Requests -> Session]
    BY <1>2 DEF Strong, Store, Sessions
  <1> QED
    BY <1>2, <1>3, <1>4, <1>5, <1>6, <1>7, Overtaken

\* An answer, or giving up, changes the status of one row.
LEMMA StrongRestate ==
  ASSUME Strong, Inv', Other, hangout.status = "active", UNCHANGED <<hangout, contacts>>,
         NEW x \in rows, NEW status \in {"confirmed", "declined", "no_response"},
         rows' = (rows \ {x}) \cup {[x EXCEPT !.status = status]}
  PROVE  Strong'
  <1> DEFINE y == [x EXCEPT !.status = status]
  <1>1. UNCHANGED <<nextId, pc, job, held, tainted>> /\ Overtakes({})
    BY DEF Other
  <1>2. x \in Row
    BY DEF Strong, Store
  <1>3. /\ y \in Row /\ y.id = x.id /\ y.person = x.person /\ y.texted = x.texted
        /\ y.status = status
    BY <1>2 DEF Row, InviteStatus
  <1> HIDE DEF y
  <1>4. rows' = (rows \ {x}) \cup {y}
    BY DEF y
  <1>5. Ids(rows') = Ids(rows) /\ Persons(rows') = Persons(rows)
    BY <1>3, <1>4 DEF Ids, Persons
  <1>6. Store'
    <2>1. UniqueIds(rows')
      BY <1>3, <1>4 DEF Strong, Store, UniqueIds
    <2>2. rows' \subseteq Row
      BY <1>3, <1>4 DEF Strong, Store
    <2> QED
      BY <1>1, <1>5, <2>1, <2>2 DEF Strong, Store
  <1>7. Locks'
    BY <1>1, <1>5 DEF Strong, Locks
  <1>8. Ages' /\ NobodyForgotten'
    <2>1. ~tainted => OnePerPerson(rows')
      BY <1>3, <1>4 DEF Strong, Ages, OnePerPerson
    <2>2. ~tainted => \A z \in rows' : z.texted \/ z.status # "pending"
      BY <1>3, <1>4 DEF Strong, NobodyForgotten
    <2> QED
      BY <1>1, <2>1, <2>2 DEF Strong, Ages, NobodyForgotten
  <1>9. \A q \in Requests : \A z \in New(job[q]) : z.id \notin Ids(rows') /\ z.person \in contacts'
    BY <1>5 DEF Strong, Sessions, SessionOK, Unborn
  <1>10. nextId' >= nextId /\ job' \in [Requests -> Session]
    BY <1>1 DEF Strong, Store, Sessions
  <1> QED
    BY <1>1, <1>6, <1>7, <1>8, <1>9, <1>10, Overtaken

LEMMA StrongAnswer == ASSUME Strong, Reply \/ GiveUp PROVE Strong'
  <1>1. /\ Other /\ hangout.status = "active" /\ UNCHANGED <<hangout, contacts>>
    BY DEF Reply, GiveUp, Event
  <1>2. Inv'
    BY InvEvents DEF Strong
  <1>3. PICK x \in rows, status \in {"confirmed", "declined", "no_response"} :
          rows' = (rows \ {x}) \cup {[x EXCEPT !.status = status]}
    BY DEF Reply, GiveUp, Answered
  <1> QED
    BY <1>1, <1>2, <1>3, StrongRestate

\* A contact goes with the rows nobody has locked, unless a session has a new one.
LEMMA StrongDelete == ASSUME Strong, DeleteContact PROVE Strong'
  <1>1. /\ Other /\ hangout.status # "none" /\ UNCHANGED hangout /\ Overtakes({})
        /\ UNCHANGED <<nextId, pc, job, held, tainted>>
    BY DEF DeleteContact, Event, Other
  <1>2. Inv'
    BY InvEvents DEF Strong
  <1>3. PICK p \in contacts :
          /\ \A x \in rows : x.person = p => Writable(x)
          /\ \A r \in Requests : \A x \in job[r].now \ job[r].was :
               x.person = p => x.id \in Ids(job[r].was)
          /\ contacts' = contacts \ {p}
          /\ rows' = {x \in rows : x.person # p}
    BY DEF DeleteContact
  <1>4. Ids(rows') \subseteq Ids(rows) /\ Persons(rows') \subseteq Persons(rows) \ {p}
    BY <1>3 DEF Ids, Persons
  <1>5. Store'
    <2>1. UniqueIds(rows') /\ rows' \subseteq Row
      BY <1>3 DEF Strong, Store, UniqueIds
    <2> QED
      BY <1>1, <1>3, <1>4, <2>1 DEF Strong, Store
  <1>6. Locks'
    <2>1. \A q \in Requests : \A i \in held[q] : i \in Ids(rows) => i \in Ids(rows')
      BY <1>3 DEF Ids, Writable, Unlocked
    <2> QED
      BY <1>1, <2>1, LocksKept DEF Strong, Locks
  <1>7. Ages' /\ NobodyForgotten'
    BY <1>1, <1>3 DEF Strong, Ages, NobodyForgotten, OnePerPerson
  <1>8. \A q \in Requests : \A y \in New(job[q]) : y.id \notin Ids(rows') /\ y.person \in contacts'
    <2> SUFFICES ASSUME NEW q \in Requests, NEW y \in New(job[q]) PROVE y.id \notin Ids(rows') /\ y.person \in contacts'
      OBVIOUS
    <2>1. y.id \notin Ids(rows) /\ y.person \in contacts
      BY DEF Strong, Sessions, SessionOK, Unborn
    <2>2. y \in job[q].now \ job[q].was /\ y.id \notin Ids(job[q].was)
      BY DEF New, Ids
    <2> QED
      BY <1>3, <1>4, <2>1, <2>2
  <1>9. nextId' >= nextId /\ job' \in [Requests -> Session]
    BY <1>1 DEF Strong, Store, Sessions
  <1> QED
    BY <1>1, <1>2, <1>5, <1>6, <1>7, <1>8, <1>9, Overtaken

\* The draft form's commit: dropped rows were locked, and new ones have new numbers.
LEMMA StrongSave == ASSUME Strong, NEW r \in Requests, SaveEdit(r) PROVE Strong'
  <1> DEFINE people == job[r].todo
             drop   == job[r].drop
  <1>1. CASE Abandon(r) /\ UNCHANGED nextId
    BY <1>1, StrongAbandon
  <1>2. CASE ~(Abandon(r) /\ UNCHANGED nextId)
    <2> DEFINE size == Cardinality(people)
    <2>1. /\ pc[r] = "save" /\ Needed(r) \subseteq held[r] /\ people \subseteq contacts
          /\ nextId' = nextId + size
          /\ tainted' = (tainted \/ stale[r])
          /\ Overtakes({r})
          /\ held' = [held EXCEPT ![r] = {}]
          /\ pc' = [pc EXCEPT ![r] = IF job[r].then THEN "setup" ELSE "idle"]
          /\ job' = [job EXCEPT ![r] =
                       [Blank EXCEPT !.wanted = IF job[r].then THEN job[r].wanted ELSE {}]]
          /\ UNCHANGED <<hangout, contacts>>
      BY <1>2 DEF SaveEdit, Goto
    <2>2. PICK ids \in [people -> nextId..(nextId + size - 1)] :
            /\ IsInjective(ids)
            /\ rows' = {x \in rows : x.id \notin drop} \cup {Fresh(ids[p], p) : p \in people}
      BY <1>2 DEF SaveEdit
    <2>3. Inv'
      BY InvSave DEF Strong
    <2>4. job[r] \in Session /\ SessionOK(r) /\ pc \in [Requests -> Places]
      BY DEF Strong, Sessions, Inv, Shape
    <2>5. size \in Nat
      <3>1. people \subseteq People
        BY <2>4 DEF Session
      <3> QED
        BY <3>1, NamesAssumption, FS_Subset, FS_CardinalityType
    <2> HIDE DEF size
    <2>6. nextId \in Nat \ {0} /\ nextId' \in Nat \ {0} /\ nextId' >= nextId
      BY <2>1, <2>5 DEF Strong, Store
    <2>7. ASSUME NEW p \in people
          PROVE  /\ ids[p] \in nextId..(nextId' - 1) /\ Fresh(ids[p], p) \in Row
                 /\ Fresh(ids[p], p).id = ids[p] /\ Fresh(ids[p], p).person = p
                 /\ ~Fresh(ids[p], p).texted
      <3>1. ids[p] \in nextId..(nextId' - 1) /\ ids[p] \in Nat /\ p \in People
        BY <2>1, <2>4, <2>5, <2>6 DEF Session
      <3> QED
        BY <3>1 DEF Fresh, Row, InviteStatus
    <2>8. \A p, q \in people : ids[p] = ids[q] => p = q
      BY <2>2 DEF IsInjective
    <2> DEFINE fresh == {Fresh(ids[p], p) : p \in people}
    <2>9. \A x \in fresh : /\ x \in Row /\ x.id \in nextId..(nextId' - 1)
                           /\ x.person \in people /\ x.id = ids[x.person] /\ ~x.texted
                           /\ x = Fresh(ids[x.person], x.person)
      BY <2>7
    <2>10. \A x \in rows' : x \in fresh \/ (x \in rows /\ x.id \notin drop)
      BY <2>2
    <2> HIDE DEF fresh
    <2>11. \A x \in rows : x.id \in 1..(nextId - 1)
      BY DEF Strong, Store, Ids
    <2>12. Store'
      <3>1. rows' \subseteq Row
        BY <2>9, <2>10 DEF Strong, Store
      <3>2. UniqueIds(rows')
        <4> SUFFICES ASSUME NEW x \in rows', NEW y \in rows', x.id = y.id PROVE x = y
          BY DEF UniqueIds
        <4>1. CASE x \in fresh /\ y \in fresh
          BY <2>8, <2>9, <4>1
        <4>2. CASE x \in rows /\ y \in rows
          BY <4>2 DEF Strong, Store, UniqueIds
        <4> QED
          BY <2>6, <2>9, <2>10, <2>11, <4>1, <4>2
      <3>3. Ids(rows') \subseteq 1..(nextId' - 1)
        <4> SUFFICES ASSUME NEW x \in rows' PROVE x.id \in 1..(nextId' - 1)
          BY DEF Ids
        <4> QED
          BY <2>6, <2>9, <2>10, <2>11
      <3>4. Persons(rows') \subseteq contacts
        BY <2>1, <2>9, <2>10 DEF Strong, Store, Persons
      <3>5. tainted' \in BOOLEAN
        BY <2>1 DEF Strong, Store
      <3> QED
        BY <2>1, <2>6, <3>1, <3>2, <3>3, <3>4, <3>5 DEF Strong, Store
    <2>13. Locks'
      <3>1. \A q \in Requests : held'[q] \subseteq held[q]
        BY <2>1 DEF Strong, Locks
      <3>2. ASSUME NEW q \in Requests, NEW i \in held'[q], i \in Ids(rows) PROVE i \in Ids(rows')
        <4>1. q # r /\ i \in held[q]
          BY <2>1, <3>2 DEF Strong, Locks
        <4>2. i \notin held[r]
          BY <4>1 DEF Strong, Locks
        <4>3. i \notin drop
          BY <2>1, <3>2, <4>2 DEF Needed
        <4> QED
          BY <2>2, <3>2, <4>3 DEF Ids
      <3>3. held' \in [Requests -> SUBSET (Ids(rows) \cup {0})]
        BY <2>1 DEF Strong, Locks
      <3> QED
        BY <3>1, <3>2, <3>3, LocksKept
    <2>14. ~stale[r] => CurrentEdit(job[r])
      BY <2>1, <2>4 DEF SessionOK, UpToDate
    <2>15. hangout.status # "none"
      BY <2>1 DEF Strong, Inv, IdleAtFirst
    <2>16. Ages'
      <3>1. hangout.status = "draft" => \A x \in rows' : ~x.texted /\ x.status \notin Answered
        BY <2>9, <2>10 DEF Strong, Ages, Fresh, Answered
      <3>2. ASSUME ~tainted' PROVE OnePerPerson(rows')
        <4>1. OnePerPerson(rows) /\ people \cap Persons(rows) = {}
          BY <2>1, <2>14, <3>2 DEF CurrentEdit, Strong, Ages
        <4> SUFFICES ASSUME NEW x \in rows', NEW y \in rows', x.person = y.person PROVE x = y
          BY DEF OnePerPerson
        <4>2. CASE x \in fresh /\ y \in fresh
          BY <2>9, <4>2
        <4>3. CASE x \in rows /\ y \in rows
          BY <4>1, <4>3 DEF OnePerPerson
        <4> QED
          BY <2>9, <2>10, <4>1, <4>2, <4>3 DEF Persons
      <3> QED
        BY <2>1, <2>15, <3>1, <3>2 DEF Ages
    <2>17. NobodyForgotten'
      BY <2>1, <2>14 DEF CurrentEdit, NobodyForgotten
    <2>18. \A q \in Requests \ {r} : \A y \in New(job[q]) : y.id \notin Ids(rows') /\ y.person \in contacts'
      <3> SUFFICES ASSUME NEW q \in Requests \ {r}, NEW y \in New(job[q])
                   PROVE  y.id \notin Ids(rows') /\ y.person \in contacts
        BY <2>1
      <3>1. y.id \notin Ids(rows) /\ y.person \in contacts
        BY DEF Strong, Sessions, SessionOK, Unborn
      <3>2. y.id \in 1..(nextId - 1)
        BY DEF Strong, Sessions, SessionOK, Numbered, New, Ids
      <3> QED
        BY <2>6, <2>9, <2>10, <3>1, <3>2 DEF Ids
    <2>19. /\ job' \in [Requests -> Session]
           /\ job'[r].was = {} /\ job'[r].now = {} /\ job'[r].sent = {} /\ job'[r].drop = {}
           /\ ~job[r].then => job'[r] = Blank
      <3> DEFINE w == IF job[r].then THEN job[r].wanted ELSE {}
      <3>1. w \in SUBSET People /\ (~job[r].then => w = {})
        BY <2>4 DEF Session
      <3> HIDE DEF w
      <3>2. [Blank EXCEPT !.wanted = w] \in Session
        BY <3>1, BlankType DEF Session
      <3>3. job' = [job EXCEPT ![r] = [Blank EXCEPT !.wanted = w]]
        BY <2>1 DEF w
      <3>4. job'[r] = [Blank EXCEPT !.wanted = w]
        BY <3>3 DEF Strong, Sessions
      <3>5. w = {} => [Blank EXCEPT !.wanted = w] = Blank
        <4>1. Blank.wanted = {}
          BY DEF Blank
        <4>2. [Blank EXCEPT !.wanted = Blank.wanted] = Blank
          BY BlankType DEF Session
        <4> QED
          BY <4>1, <4>2
      <3>6. job' \in [Requests -> Session]
        BY <3>2, <3>3 DEF Strong, Sessions
      <3> QED
        BY <3>1, <3>4, <3>5, <3>6 DEF Blank
    <2>20. pc'[r] \in {"idle", "setup"} /\ Resting(r)'
      <3>1. pc'[r] = (IF job[r].then THEN "setup" ELSE "idle")
        BY <2>1, <2>4
      <3>2. held'[r] = {} /\ ~stale'[r]
        BY <2>1 DEF Overtakes, Strong, Locks
      <3> QED
        BY <2>19, <3>1, <3>2 DEF Resting
    <2>21. \A q \in Requests \ {r} : job'[q] = job[q] /\ pc'[q] = pc[q] /\ held'[q] = held[q]
      BY <2>1, <2>4 DEF Strong, Sessions, Locks
    <2> QED
      BY ZenonT(60), <2>1, <2>3, <2>6, <2>12, <2>13, <2>16, <2>17, <2>18, <2>19, <2>20, <2>21, Overtaken
  <1> QED
    BY <1>1, <1>2

\* A stored row as the setup's commit leaves it.
Kept(r, x) ==
  IF x.id \in Changed(r)
  THEN Updated(x, CHOOSE y \in job[r].was : y.id = x.id, CHOOSE y \in job[r].now : y.id = x.id)
  ELSE x

LEMMA CommitRows ==
  ASSUME NEW r \in Requests, Commit(r)
  PROVE  rows' = {Kept(r, x) : x \in {y \in rows : y.id \notin job[r].drop}} \cup New(job[r])
  BY DEF Commit, Kept, New

\* It keeps its number and its person; a row of the pass is texted now, and has
\* lost an answer only if the pass was to ask that person again.
LEMMA KeptRow ==
  ASSUME Strong, NEW r \in Requests, NEW x \in rows
  PROVE  LET z == Kept(r, x) IN
         /\ z \in Row /\ z.id = x.id /\ z.person = x.person
         /\ x.id \in Changed(r) => z.texted
         /\ x.id \notin Changed(r) => z = x
         /\ x \in job[r].was /\ x.id \in Changed(r) => ~Skipped(job[r].seen, x)
  <1> DEFINE j   == job[r]
             was == CHOOSE y \in j.was : y.id = x.id
             now == CHOOSE y \in j.now : y.id = x.id
  <1>1. x \in Row
    BY DEF Strong, Store
  <1>2. CASE x.id \notin Changed(r)
    BY <1>1, <1>2 DEF Kept
  <1>3. CASE x.id \in Changed(r)
    <2>1. Books(j) /\ j \in Session
      BY DEF Strong, Sessions, SessionOK
    <2>2. x.id \in j.sent /\ x.id \in Ids(j.was) /\ x.id \in Ids(j.now)
      BY <1>3, <2>1 DEF Changed, Books
    <2>3. now \in j.now /\ now.id = x.id
      BY <2>2 DEF Ids
    <2>4. was \in j.was
      BY <2>2 DEF Ids
    <2>5. now \in Row /\ was \in Row /\ now.texted
      BY <2>1, <2>2, <2>3, <2>4 DEF Session, Books
    <2> HIDE DEF was, now
    <2>6. Updated(x, was, now) \in Row
      BY <1>1, <2>5 DEF Row, Updated
    <2>7. /\ Updated(x, was, now).id = x.id /\ Updated(x, was, now).person = x.person
          /\ Updated(x, was, now).texted
      BY <1>1, <2>5 DEF Row, Updated
    <2>8. Kept(r, x) = Updated(x, was, now)
      BY <1>3 DEF Kept, was, now
    <2>9. x \in j.was => ~Skipped(j.seen, x)
      BY <2>1, <2>2 DEF Books
    <2> QED
      BY <1>3, <2>6, <2>7, <2>8, <2>9
  <1> QED
    BY <1>2, <1>3

\* The setup's commit.
LEMMA StrongCommit == ASSUME Strong, NEW r \in Requests, Commit(r) PROVE Strong'
  <1> DEFINE j == job[r]
  <1>1. /\ pc[r] = "each" /\ j.todo = {} /\ Needed(r) \subseteq held[r]
        /\ hangout' = IF j.seen = "active" THEN hangout ELSE [hangout EXCEPT !.status = "active"]
        /\ tainted' = (tainted \/ stale[r])
        /\ Overtakes({r})
        /\ pc' = [pc EXCEPT ![r] = "idle"]
        /\ job' = [job EXCEPT ![r] = Blank]
        /\ held' = [held EXCEPT ![r] = {}]
        /\ UNCHANGED <<nextId, contacts>>
    BY DEF Commit, Done, Goto
  <1>2. Inv'
    BY InvCommit DEF Strong
  <1>3. j \in Session /\ SessionOK(r) /\ pc \in [Requests -> Places] /\ Books(j)
    BY DEF Strong, Sessions, SessionOK, Inv, Shape
  <1>4. \A x \in rows : /\ Kept(r, x) \in Row /\ Kept(r, x).id = x.id /\ Kept(r, x).person = x.person
                        /\ x.id \in Changed(r) => Kept(r, x).texted
                        /\ x.id \notin Changed(r) => Kept(r, x) = x
    BY KeptRow
  <1>5. /\ \A z \in rows' : z \in New(j) \/ \E x \in rows : x.id \notin j.drop /\ z = Kept(r, x)
        /\ \A x \in rows : x.id \notin j.drop => Kept(r, x) \in rows'
        /\ New(j) \subseteq rows'
    BY CommitRows
  <1>6. \A y \in New(j) : /\ y \in Row /\ y \in j.now /\ y.id \notin Ids(rows) /\ y.person \in contacts
                          /\ y.id \in 1..(nextId - 1) /\ y.texted
    <2> SUFFICES ASSUME NEW y \in New(j)
                 PROVE  /\ y \in Row /\ y \in j.now /\ y.id \notin Ids(rows) /\ y.person \in contacts
                        /\ y.id \in 1..(nextId - 1) /\ y.texted
      OBVIOUS
    <2>1. y \in j.now /\ y.id \notin Ids(j.was)
      BY DEF New
    <2>2. y.id \in j.sent
      BY <1>1, <1>3, <2>1 DEF Books
    <2>3. y.id \in 1..(nextId - 1)
      BY <1>3, <2>1 DEF SessionOK, Numbered, Ids
    <2> QED
      BY <1>3, <2>1, <2>2, <2>3 DEF Session, Books, SessionOK, Unborn
  <1> HIDE DEF j
  <1>7. Store'
    <2>1. rows' \subseteq Row
      BY <1>4, <1>5, <1>6
    <2>2. UniqueIds(rows')
      <3> SUFFICES ASSUME NEW x \in rows', NEW y \in rows', x.id = y.id PROVE x = y
        BY DEF UniqueIds
      <3>1. CASE x \in New(j) /\ y \in New(j)
        BY <1>3, <1>6, <3>1 DEF Books, UniqueIds
      <3>2. CASE x \notin New(j) /\ y \notin New(j)
        BY <1>4, <1>5, <3>2 DEF Strong, Store, UniqueIds
      <3>3. CASE (x \in New(j) /\ y \notin New(j)) \/ (x \notin New(j) /\ y \in New(j))
        BY <1>4, <1>5, <1>6, <3>3 DEF Ids
      <3> QED
        BY <3>1, <3>2, <3>3
    <2>3. \A z \in rows' : z.id \in 1..(nextId - 1) /\ z.person \in contacts
      BY <1>4, <1>5, <1>6 DEF Strong, Store, Ids, Persons
    <2>4. Ids(rows') \subseteq 1..(nextId - 1) /\ Persons(rows') \subseteq contacts
      BY <2>3 DEF Ids, Persons
    <2>5. tainted' \in BOOLEAN
      BY <1>1 DEF Strong, Store
    <2> QED
      BY <1>1, <2>1, <2>2, <2>4, <2>5 DEF Strong, Store
  <1>8. Locks'
    <2>1. \A q \in Requests : held'[q] \subseteq held[q]
      BY <1>1 DEF Strong, Locks
    <2>2. ASSUME NEW q \in Requests, NEW i \in held'[q], i \in Ids(rows) PROVE i \in Ids(rows')
      <3>1. q # r /\ i \in held[q]
        BY <1>1, <2>2 DEF Strong, Locks
      <3>2. i \notin held[r]
        BY <3>1 DEF Strong, Locks
      <3>3. i \notin j.drop
        BY <1>1, <2>2, <3>2 DEF Needed, j
      <3>4. PICK x \in rows : x.id = i
        BY <2>2 DEF Ids
      <3>5. Kept(r, x) \in rows' /\ Kept(r, x).id = i
        BY <1>4, <1>5, <3>3, <3>4
      <3> QED
        BY <3>5 DEF Ids
    <2>3. held' \in [Requests -> SUBSET (Ids(rows) \cup {0})]
      BY <1>1 DEF Strong, Locks
    <2> QED
      BY <2>1, <2>2, <2>3, LocksKept
  <1>9. /\ hangout'.status \in {hangout.status, "active"}
        /\ j.seen # "active" => hangout'.status = "active"
        /\ j.seen = "active" => hangout' = hangout
    BY <1>1 DEF Strong, Inv, Shape
  <1>10. /\ hangout.status # "none"
         /\ j.seen = "active" => hangout.status \in {"active", "closed"}
    BY <1>1, <1>3 DEF Strong, Inv, IdleAtFirst, SessionOK, SeenActive, InPass, j
  <1>11. ~stale[r] => Current(j) /\ j.seen = hangout.status /\ hangout.status \notin {"none", "closed"}
    BY <1>1, <1>3 DEF SessionOK, UpToDate, InPass, Strong, Inv, TruePicture, j
  <1>12. Ages'
    <2>1. hangout'.status \notin {"none", "draft"}
      BY <1>9, <1>10
    <2>2. ASSUME ~tainted' PROVE OnePerPerson(rows')
      <3>1. OnePerPerson(rows) /\ Persons(New(j)) \cap Persons(rows) = {}
        BY <1>1, <1>11, <2>2 DEF Current, Strong, Ages
      <3> SUFFICES ASSUME NEW x \in rows', NEW y \in rows', x.person = y.person PROVE x = y
        BY DEF OnePerPerson
      <3>2. CASE x \in New(j) /\ y \in New(j)
        BY <1>3, <1>6, <3>2 DEF Books, OnePerPerson
      <3>3. CASE x \notin New(j) /\ y \notin New(j)
        BY <1>4, <1>5, <3>1, <3>3 DEF OnePerPerson
      <3>4. CASE (x \in New(j) /\ y \notin New(j)) \/ (x \notin New(j) /\ y \in New(j))
        BY <1>4, <1>5, <3>1, <3>4 DEF Persons
      <3> QED
        BY <3>2, <3>3, <3>4
    <2> QED
      BY <2>1, <2>2 DEF Ages
  <1>13. NobodyForgotten'
    <2> SUFFICES ASSUME hangout'.status = "active", ~tainted', NEW z \in rows'
                 PROVE  z.texted \/ z.status # "pending"
      BY DEF NobodyForgotten
    <2>1. ~tainted /\ Current(j) /\ j.seen = hangout.status /\ hangout.status \notin {"none", "closed"}
      BY <1>1, <1>11
    <2>2. CASE z \in New(j)
      BY <1>6, <2>2
    <2>3. CASE z \notin New(j)
      <3>1. PICK x \in rows : x.id \notin j.drop /\ z = Kept(r, x)
        BY <1>5, <2>3
      <3>2. CASE x.id \in Changed(r)
        BY <1>4, <3>1, <3>2
      <3>3. CASE x.id \notin Changed(r) /\ hangout.status = "active"
        BY <1>4, <2>1, <3>1, <3>3 DEF Strong, NobodyForgotten
      <3>4. CASE x.id \notin Changed(r) /\ hangout.status # "active"
        <4>1. j.seen = "draft"
          BY <2>1, <3>4 DEF Strong, Inv, Shape, HangoutStatus
        <4>2. x.id \in Ids(j.was)
          BY <2>1 DEF Current, Ids
        <4>3. PICK y \in j.now : y.id = x.id
          BY <1>3, <3>1, <4>2 DEF Books, Ids
        <4>4. y.id \in j.sent
          BY <1>1, <2>1, <4>1, <4>3 DEF Current, j
        <4> QED
          BY <3>4, <4>2, <4>3, <4>4 DEF Changed, j
      <3> QED
        BY <3>2, <3>3, <3>4
    <2> QED
      BY <2>2, <2>3
  <1>14. \A q \in Requests \ {r} : \A y \in New(job[q]) : y.id \notin Ids(rows') /\ y.person \in contacts'
    <2> SUFFICES ASSUME NEW q \in Requests \ {r}, NEW y \in New(job[q])
                 PROVE  y.id \notin Ids(rows') /\ y.person \in contacts
      BY <1>1
    <2>1. y.id \notin Ids(rows) /\ y.person \in contacts /\ y.id \notin Ids(New(j))
      BY DEF Strong, Sessions, SessionOK, Unborn, j
    <2>2. \A z \in rows' : z.id # y.id
      BY <1>4, <1>5, <2>1 DEF Ids
    <2> QED
      BY <2>1, <2>2 DEF Ids
  <1>15. /\ job' \in [Requests -> Session] /\ job'[r] = Blank
         /\ pc'[r] = "idle" /\ held'[r] = {} /\ ~stale'[r]
    BY <1>1, <1>3, BlankType DEF Strong, Sessions, Locks, Overtakes
  <1>16. Resting(r)'
    BY <1>15 DEF Resting
  <1>17. \A q \in Requests \ {r} : job'[q] = job[q] /\ pc'[q] = pc[q] /\ held'[q] = held[q]
    BY <1>1, <1>3 DEF Strong, Sessions, Locks
  <1>18. hangout.status \in {"active", "closed"} => hangout'.status \in {"active", "closed"}
    BY <1>9
  <1>19. nextId' >= nextId
    BY <1>1 DEF Strong, Store
  <1> QED
    BY <1>1, <1>2, <1>7, <1>8, <1>12, <1>13, <1>14, <1>15, <1>16, <1>17, <1>18, <1>19,
       BlankFields, Overtaken

LEMMA StrongRequest == ASSUME Strong, NEW r \in Requests, LoadEdit(r) \/ LoadSetup(r) \/ Step(r) PROVE Strong'
  <1>1. CASE LoadEdit(r)
    BY <1>1, StrongEdit
  <1>2. CASE LoadSetup(r)
    <2>1. hangout.status # "none" /\ UNCHANGED nextId
      BY <1>2 DEF LoadSetup, Ask
    <2>2. Persons(rows) \in SUBSET contacts
      BY DEF Strong, Store
    <2>3. CASE Load(r, Persons(rows), FALSE)
      BY <2>1, <2>2, <2>3, StrongLoad
    <2>4. CASE \E wanted \in SUBSET contacts : Load(r, wanted, TRUE)
      BY <2>1, <2>4, StrongLoad
    <2> QED
      BY <1>2, <2>3, <2>4 DEF LoadSetup
  <1>3. CASE ThenSetup(r)
    <2>1. hangout.status # "none" /\ UNCHANGED nextId
      BY <1>3 DEF ThenSetup, Strong, Inv, IdleAtFirst
    <2>2. job[r].wanted \cap contacts \in SUBSET contacts
      OBVIOUS
    <2> QED
      BY <1>3, <2>1, <2>2, StrongLoad DEF ThenSetup
  <1>4. CASE SaveEdit(r)
    BY <1>4, StrongSave
  <1>5. CASE Each(r)
    BY <1>5, StrongEach
  <1>6. CASE Insert(r)
    BY <1>6, StrongInsert
  <1>7. CASE Send(r)
    BY <1>7, StrongSend
  <1>8. CASE Commit(r)
    BY <1>8, StrongCommit
  <1>9. CASE LockRow(r)
    BY <1>9, StrongLockRow
  <1>10. CASE Aborts(r) \/ CloseSession(r)
    BY <1>10, StrongAbandon DEF Aborts, CloseSession
  <1> QED
    BY <1>1, <1>2, <1>3, <1>4, <1>5, <1>6, <1>7, <1>8, <1>9, <1>10 DEF Step

LEMMA StrongNext == ASSUME Strong, [Next]_vars PROVE Strong'
  <1>1. CASE Create
    BY <1>1, StrongCreate
  <1>2. CASE Close \/ Hide \/ Unhide
    BY <1>2, StrongStatus
  <1>3. CASE Reply \/ GiveUp
    BY <1>3, StrongAnswer
  <1>4. CASE DeleteContact
    BY <1>4, StrongDelete
  <1>5. CASE Crash
    BY <1>5, StrongCrash
  <1>6. CASE \E r \in Requests : LoadEdit(r) \/ LoadSetup(r) \/ Step(r)
    BY <1>6, StrongRequest
  <1>7. CASE UNCHANGED vars
    <2>1. Inv'
      BY <1>7, InvNext DEF Strong
    <2>2. Store' /\ Locks' /\ Ages' /\ NobodyForgotten'
      BY <1>7 DEF vars, Strong, Store, Locks, Ages, NobodyForgotten
    <2>3. ASSUME NEW r \in Requests PROVE SessionOK(r)'
      BY <1>7 DEF vars, Strong, Sessions, SessionOK, Resting, Unborn, SeenActive, UpToDate, Current, CurrentEdit
    <2> QED
      BY <1>7, <2>1, <2>2, <2>3 DEF vars, Strong, Sessions
  <1> QED
    BY <1>1, <1>2, <1>3, <1>4, <1>5, <1>6, <1>7 DEF Next

LEMMA AlwaysStrong == Spec => []Strong
  BY StrongInit, StrongNext, PTL DEF Spec

-----------------------------------------------------------------------------
(* What follows.                                                           *)

LEMMA StrongTypes == Strong => TypeOK
  <1> SUFFICES ASSUME Strong PROVE TypeOK
    OBVIOUS
  <1>1. ASSUME NEW r \in Requests
        PROVE  job[r].was \cup job[r].now \subseteq Row /\ job[r].drop \cup job[r].sent \subseteq 1..(nextId - 1)
    <2>1. job[r] \in Session /\ Books(job[r]) /\ Numbered(job[r], nextId)
      BY DEF Strong, Sessions, SessionOK
    <2>2. job[r].sent \subseteq 1..(nextId - 1) /\ job[r].drop \subseteq 1..(nextId - 1)
      BY <2>1 DEF Books, Numbered
    <2> QED
      BY <2>1, <2>2 DEF Session
  <1>2. \A r \in Requests : /\ held[r] \subseteq Ids(rows) \cup {0}
                            /\ \A q \in Requests \ {r} : held[q] \cap held[r] = {}
    BY DEF Strong, Locks
  <1>3. /\ rows \subseteq Row /\ \A x, y \in rows : x.id = y.id => x = y
        /\ contacts \subseteq People /\ Persons(rows) \subseteq contacts /\ tainted \in BOOLEAN
    BY DEF Strong, Store, UniqueIds
  <1>4. /\ hangout \in [status : HangoutStatus, deleted : BOOLEAN]
        /\ pc \in [Requests -> Places] /\ stale \in [Requests -> BOOLEAN]
    BY DEF Strong, Inv, Shape
  <1> QED
    BY <1>1, <1>2, <1>3, <1>4 DEF TypeOK

\* Types and locks: no two sessions hold one row, no row that somebody holds
\* disappears (a flush locks what it deletes, and a contact goes only with rows
\* nobody holds), and row ids stay unique over every commit (services.py:473-592).
THEOREM TypesAndLocks == Spec => []TypeOK
  BY AlwaysStrong, StrongTypes, PTL

\* On an active hangout nobody is left untexted in pending: what a setup that
\* nothing overtook commits covers every row (services.py:516-558).
THEOREM NobodyIsForgotten == Spec => []NobodyForgotten
  <1>1. Strong => NobodyForgotten
    BY DEF Strong
  <1> QED
    BY <1>1, AlwaysStrong, PTL

\* A setup's commit keeps the texted rows it saw and the answers in them.
LEMMA CommitSurvives ==
  ASSUME Strong, NEW r \in Requests, Commit(r), ~stale[r], NEW x \in rows, x.texted
  PROVE  \E y \in rows' : /\ y.id = x.id /\ y.texted
                          /\ x.status \in Answered => y.status \in Answered
  <1> DEFINE j == job[r]
  <1>1. pc[r] = "each"
    BY DEF Commit, Done
  <1>2. Current(j) /\ j.seen = hangout.status /\ hangout.status \notin {"none", "closed"}
    BY <1>1 DEF Strong, Sessions, SessionOK, UpToDate, InPass, Inv, TruePicture
  <1>3. j.seen = "active"
    BY <1>2 DEF Strong, Ages, Inv, Shape, HangoutStatus
  <1>4. x.id \notin j.drop
    BY <1>2 DEF Current, Strong, Store, UniqueIds
  <1>5. Kept(r, x) \in rows'
    BY <1>4, CommitRows
  <1>6. CASE x.id \notin Changed(r)
    BY <1>5, <1>6, KeptRow
  <1>7. CASE x.id \in Changed(r)
    <2>1. x \in j.was
      <3>1. PICK z \in j.was : z.id = x.id
        BY <1>7 DEF Changed, Ids
      <3> QED
        BY <1>2, <3>1 DEF Current, Strong, Store, UniqueIds
    <2>2. /\ Kept(r, x).id = x.id /\ Kept(r, x).texted
          /\ ~Skipped(j.seen, x)
      BY <1>7, <2>1, KeptRow
    <2>3. x.status \notin Answered
      BY <1>3, <2>2 DEF Skipped
    <2> QED
      BY <1>5, <2>2, <2>3
  <1> QED
    BY <1>6, <1>7

LEMMA EditIsOfADraft ==
  ASSUME Strong, NEW r \in Requests, SaveEdit(r), ~stale[r]
  PROVE  \A x \in rows : ~x.texted
  BY DEF SaveEdit, Strong, Sessions, SessionOK, UpToDate, CurrentEdit, Ages

\* What a late setup's commit loses: a row it read as untexted and drops, or an
\* answer to a text it sent to somebody it read without one.
LEMMA StaleCommitLoses ==
  ASSUME Strong, NEW r \in Requests, Commit(r), NEW x \in rows, x.texted
  PROVE  \/ \E y \in rows' : /\ y.id = x.id /\ y.texted
                             /\ x.status \in Answered => y.status \in Answered
         \/ Drops(r, x.id) \/ Overwrites(r, x.id)
  <1> DEFINE j   == job[r]
             was == CHOOSE y \in j.was : y.id = x.id
             now == CHOOSE y \in j.now : y.id = x.id
  <1>1. pc[r] \in InPass /\ Books(j) /\ j \in Session
    BY DEF Commit, Done, InPass, Strong, Sessions, SessionOK
  <1>2. CASE x.id \in j.drop
    BY <1>1, <1>2 DEF Books, Drops
  <1>3. CASE x.id \notin j.drop
    <2>1. Kept(r, x) \in rows'
      BY <1>3, CommitRows
    <2>2. CASE x.id \notin Changed(r)
      BY <2>1, <2>2, KeptRow
    <2>3. CASE x.id \in Changed(r)
      <3>1. x.id \in j.sent /\ x.id \in Ids(j.was) /\ x.id \in Ids(j.now)
        BY <1>1, <2>3 DEF Changed, Books
      <3>2. was \in j.was /\ was.id = x.id /\ now \in j.now /\ now.id = x.id
        BY <3>1 DEF Ids
      <3>3. Kept(r, x) = Updated(x, was, now)
        BY <2>3 DEF Kept
      <3> HIDE DEF was, now
      <3>4. x \in Row
        BY DEF Strong, Store
      <3>5. Kept(r, x).status = IF now.status # was.status THEN now.status ELSE x.status
        BY <3>3, <3>4 DEF Row, Updated
      <3>6. was.status \notin Answered
        <4>1. ~Skipped(j.seen, was)
          BY <1>1, <3>1, <3>2 DEF Books
        <4>2. j.seen \in {"draft", "active"}
          BY <1>1 DEF Strong, Inv, SeenOpen
        <4> QED
          BY <1>1, <3>2, <4>1, <4>2 DEF Books, Skipped
      <3>7. CASE now.status # was.status
        BY <3>2, <3>6, <3>7 DEF Overwrites
      <3>8. CASE now.status = was.status
        BY <2>1, <2>3, <3>5, <3>8, KeptRow
      <3> QED
        BY <3>7, <3>8
    <2> QED
      BY <2>2, <2>3
  <1> QED
    BY <1>2, <1>3

\* A text that was sent stays on record with its answer through every setup and
\* every selection (services.py:515-558, web.py:683-700).  Besides the contact's
\* deletion, only a request that was overtaken loses either: by dropping a row that
\* it read as never texted, or by writing another status than it read over an
\* answer it had not seen, to a person it texted.  Rows it does not text it leaves
\* alone, however late it commits.
THEOREM InvitationsKept == Spec => InvitationsSurvive
  <1> DEFINE Survives(x) ==
               \/ x.person \notin contacts'
               \/ \E y \in rows' : /\ y.id = x.id /\ y.texted
                                   /\ x.status \in Answered => y.status \in Answered
               \/ \E r \in Requests : Ends(r) /\ stale[r] /\ (Drops(r, x.id) \/ Overwrites(r, x.id))
  <1>1. ASSUME Strong, Next, NEW x \in rows, x.texted PROVE Survives(x)
    <2>1. CASE UNCHANGED rows
      BY <1>1, <2>1
    <2>2. CASE Create
      BY <1>1, <2>2 DEF Create, Strong, Ages
    <2>3. CASE Reply \/ GiveUp
      <3>1. PICK z \in rows, status \in InviteStatus :
              /\ z.status = "pending" \/ status \in Answered
              /\ rows' = (rows \ {z}) \cup {[z EXCEPT !.status = status]}
        BY <2>3 DEF Reply, GiveUp, Answered, InviteStatus
      <3>2. z \in Row
        BY <1>1 DEF Strong, Store
      <3> DEFINE y == [z EXCEPT !.status = status]
      <3>3. y.id = z.id /\ y.texted = z.texted /\ y.status = status
        BY <3>2 DEF Row
      <3>4. y \in rows'
        BY <3>1
      <3> HIDE DEF y
      <3>5. CASE z = x
        BY <1>1, <3>1, <3>3, <3>4, <3>5 DEF Answered
      <3>6. CASE z # x
        BY <1>1, <3>1, <3>6
      <3> QED
        BY <3>5, <3>6
    <2>4. CASE DeleteContact
      BY <1>1, <2>4 DEF DeleteContact
    <2>5. ASSUME NEW r \in Requests, SaveEdit(r) PROVE Survives(x)
      <3>1. CASE Abandon(r) /\ UNCHANGED nextId
        BY <1>1, <3>1 DEF Abandon
      <3>2. CASE ~(Abandon(r) /\ UNCHANGED nextId)
        <4>1. stale[r]
          BY <1>1, <2>5, EditIsOfADraft
        <4>2. /\ pc[r] = "save" /\ pc' = [pc EXCEPT ![r] = IF job[r].then THEN "setup" ELSE "idle"]
              /\ \E new : rows' = {y \in rows : y.id \notin job[r].drop} \cup new
          BY <2>5, <3>2 DEF SaveEdit, Goto
        <4>3. Ends(r)
          BY <1>1, <4>2 DEF Ends, Strong, Inv, Shape
        <4>4. CASE x.id \in job[r].drop
          <5>1. job[r].was = {}
            BY <1>1, <4>2 DEF Strong, Sessions, SessionOK, AtPerson
          <5> QED
            BY <4>1, <4>3, <4>4, <5>1 DEF Drops
        <4>5. CASE x.id \notin job[r].drop
          BY <1>1, <4>2, <4>5
        <4> QED
          BY <4>4, <4>5
      <3> QED
        BY <3>1, <3>2
    <2>6. ASSUME NEW r \in Requests, Commit(r) PROVE Survives(x)
      <3>1. Ends(r)
        BY <1>1, <2>6 DEF Commit, Goto, Ends, Done, Strong, Inv, Shape
      <3>2. CASE stale[r]
        BY <1>1, <2>6, <3>1, <3>2, StaleCommitLoses
      <3>3. CASE ~stale[r]
        BY <1>1, <2>6, <3>3, CommitSurvives
      <3> QED
        BY <3>2, <3>3
    <2>7. CASE Close \/ Hide \/ Unhide \/ Crash
      BY <2>1, <2>7 DEF Close, Hide, Unhide, Crash
    <2>8. ASSUME NEW r \in Requests, LoadEdit(r) \/ LoadSetup(r) \/ Step(r) PROVE Survives(x)
      BY <2>1, <2>5, <2>6, <2>8 DEF LoadEdit, LoadSetup, Load, Step, ThenSetup, Each, Insert, Send,
                                    LockRow, Aborts, CloseSession, Abandon
    <2> QED
      BY <1>1, <2>2, <2>3, <2>4, <2>7, <2>8 DEF Next
  <1>2. Strong /\ [Next]_vars => [\A x \in rows : x.texted => Survives(x)]_vars
    BY <1>1
  <1> QED
    BY <1>2, AlwaysStrong, PTL DEF Spec, InvitationsSurvive

\* A setup that nothing overtook texts nobody whose row says they were asked and
\* may still answer, or have answered (services.py:545-558).
THEOREM NobodyAskedTwice == Spec => NotAskedTwice
  <1> DEFINE Asked(r) == pc[r] = "send" /\ pc'[r] = "each"
             Fair(r)  == \/ stale[r] \/ tainted
                         \/ \A x \in rows : x.person = job[r].cur =>
                              ~x.texted \/ x.status \in {"no_response", "failed_send"}
  <1>1. ASSUME Strong, NEW r \in Requests, Asked(r), ~stale[r], ~tainted, NEW x \in rows, x.person = job[r].cur
        PROVE  ~x.texted \/ x.status \in {"no_response", "failed_send"}
    <2> DEFINE j == job[r]
    <2>1. Current(j) /\ j.seen = hangout.status /\ hangout.status \notin {"none", "closed"}
      BY <1>1 DEF Strong, Sessions, SessionOK, UpToDate, InPass, Inv, TruePicture
    <2>2. Books(j) /\ AtPerson("send", j) /\ j \in Session
      BY <1>1 DEF Strong, Sessions, SessionOK
    <2>3. PICK y \in j.now : y.person = x.person
      BY <1>1, <2>1, <2>2 DEF Current, AtPerson, Persons
    <2>4. y.id \notin j.sent
      BY <1>1, <2>2, <2>3 DEF Books, AtPerson
    <2>5. y \in j.was
      BY <2>1, <2>2, <2>3, <2>4 DEF Current, Books, New, Persons
    <2>6. y = x
      BY <1>1, <2>1, <2>3, <2>5 DEF Current, Strong, Ages, OnePerPerson
    <2>7. ~Skipped(j.seen, x)
      BY <1>1, <2>2, <2>3, <2>6 DEF AtPerson
    <2>8. x \in Row /\ (hangout.status = "active" \/ hangout.status = "draft")
      BY <1>1, <2>1 DEF Strong, Store, Inv, Shape, HangoutStatus
    <2>9. CASE hangout.status = "draft"
      BY <1>1, <2>9 DEF Strong, Ages
    <2>10. CASE hangout.status = "active"
      BY <2>1, <2>7, <2>8, <2>10 DEF Skipped, Answered, Row, InviteStatus
    <2> QED
      BY <2>8, <2>9, <2>10
  <1>2. Strong => [\A r \in Requests : Asked(r) => Fair(r)]_vars
    BY <1>1
  <1> QED
    BY <1>2, AlwaysStrong, PTL DEF Spec, NotAskedTwice

-----------------------------------------------------------------------------
(* Requests that wait, and how they end.                                   *)

\* What a request has still to do at most: people to look at, each with a row to
\* insert and a text, then rows to lock, then the commit; a draft form's setup
\* has everybody before it, and a pass that raised has only its session to close.
Whole == 5 * Cardinality(People) + 6
Still == [each |-> 4, insert |-> 3, send |-> 2]
ToLock(j, h) == Cardinality(({0} \cup j.sent \cup j.drop) \ h)

Work(place, j, h) ==
  CASE place = "idle"  -> 0
    [] place = "setup" -> Whole
    [] place = "raised" -> 1
    [] place = "save"  -> ToLock(j, h) + 1 + (IF j.then THEN Whole ELSE 0)
    [] OTHER -> 4 * Cardinality(j.todo) + ToLock(j, h) + Still[place]

Effort(r) == Work(pc[r], job[r], held[r])

LEMMA FinitePeople ==
  /\ Cardinality(People) \in Nat /\ Whole \in Nat
  /\ \A S \in SUBSET People : IsFiniteSet(S) /\ Cardinality(S) \in Nat
                              /\ Cardinality(S) <= Cardinality(People)
  <1>1. \A S \in SUBSET People : IsFiniteSet(S) /\ Cardinality(S) <= Cardinality(People)
    BY NamesAssumption, FS_Subset
  <1>2. \A S \in SUBSET People : Cardinality(S) \in Nat
    BY <1>1, FS_CardinalityType
  <1>3. Cardinality(People) \in Nat
    BY <1>2
  <1> QED
    BY <1>1, <1>2, <1>3 DEF Whole

\* The rows that a session may have to lock are finitely many.
LEMMA FiniteLocks ==
  ASSUME Strong, NEW r \in Requests, NEW h
  PROVE  /\ IsFiniteSet(({0} \cup job[r].sent \cup job[r].drop) \ h)
         /\ ToLock(job[r], h) \in Nat
  <1> DEFINE j == job[r]
             all == {0} \cup j.sent \cup j.drop
  <1>1. Books(j) /\ Numbered(j, nextId) /\ nextId \in Nat
    BY DEF Strong, Sessions, SessionOK, Store
  <1>2. all \subseteq 0..(nextId - 1) \cup {0}
    BY <1>1 DEF Books, Numbered
  <1>3. IsFiniteSet(0..(nextId - 1) \cup {0})
    <2>1. 0 \in Int /\ nextId - 1 \in Int
      BY <1>1
    <2>2. IsFiniteSet(0..(nextId - 1))
      BY <2>1, FS_Interval
    <2> QED
      BY <2>2, FS_AddElement
  <1>4. all \ h \subseteq 0..(nextId - 1) \cup {0}
    BY <1>2
  <1> HIDE DEF all
  <1>5. IsFiniteSet(all \ h)
    BY <1>3, <1>4, FS_Subset
  <1>6. Cardinality(all \ h) \in Nat
    BY <1>5, FS_CardinalityType
  <1> QED
    BY <1>5, <1>6 DEF ToLock, all

\* The work of a place, as numbers.
LEMMA WorkAt ==
  ASSUME NEW j, NEW h, ToLock(j, h) \in Nat, Cardinality(j.todo) \in Nat, j.then \in BOOLEAN
  PROVE  /\ Work("idle", j, h) = 0
         /\ Work("setup", j, h) = Whole
         /\ Work("raised", j, h) = 1
         /\ Work("save", j, h) = ToLock(j, h) + 1 + (IF j.then THEN Whole ELSE 0)
         /\ Work("each", j, h) = 4 * Cardinality(j.todo) + ToLock(j, h) + 4
         /\ Work("insert", j, h) = 4 * Cardinality(j.todo) + ToLock(j, h) + 3
         /\ Work("send", j, h) = 4 * Cardinality(j.todo) + ToLock(j, h) + 2
         /\ \A place \in Places : Work(place, j, h) \in Nat /\ (place # "idle" => Work(place, j, h) > 0)
  <1>1. /\ Work("idle", j, h) = 0
        /\ Work("setup", j, h) = Whole
        /\ Work("raised", j, h) = 1
        /\ Work("save", j, h) = ToLock(j, h) + 1 + (IF j.then THEN Whole ELSE 0)
    BY DEF Work
  <1>2. /\ Work("each", j, h) = 4 * Cardinality(j.todo) + ToLock(j, h) + 4
        /\ Work("insert", j, h) = 4 * Cardinality(j.todo) + ToLock(j, h) + 3
        /\ Work("send", j, h) = 4 * Cardinality(j.todo) + ToLock(j, h) + 2
    BY DEF Work, Still
  <1>3. Whole \in Nat /\ Whole > 0
    BY FinitePeople DEF Whole
  <1> QED
    BY <1>1, <1>2, <1>3 DEF Places

LEMMA EffortIsNat ==
  ASSUME Strong, NEW r \in Requests
  PROVE  /\ Effort(r) \in Nat /\ (pc[r] # "idle" => Effort(r) > 0)
         /\ job[r] \in Session /\ Cardinality(job[r].todo) \in Nat /\ IsFiniteSet(job[r].todo)
         /\ ToLock(job[r], held[r]) \in Nat
  <1>1. job[r] \in Session /\ pc[r] \in Places
    BY DEF Strong, Sessions, Inv, Shape
  <1>2. IsFiniteSet(job[r].todo) /\ Cardinality(job[r].todo) \in Nat /\ job[r].then \in BOOLEAN
    BY <1>1, FinitePeople DEF Session
  <1>3. ToLock(job[r], held[r]) \in Nat
    BY FiniteLocks
  <1> QED
    BY <1>1, <1>2, <1>3, WorkAt DEF Effort

LEMMA EffortAbandon ==
  ASSUME Strong, NEW r \in Requests, pc[r] # "idle", pc'[r] = "idle"
  PROVE  Effort(r)' < Effort(r)
  <1>1. Effort(r)' = 0
    BY DEF Effort, Work
  <1> QED
    BY <1>1, EffortIsNat

\* A load leaves at most the whole pass to do.
LEMMA EffortLoad ==
  ASSUME Strong, Strong', NEW r \in Requests, NEW ids \in SUBSET contacts, NEW chosen \in BOOLEAN,
         Load(r, ids, chosen), ~Abandon(r)
  PROVE  Effort(r)' < Whole
  <1>1. PICK last \in [Persons(rows) -> rows] :
          /\ \A p \in Persons(rows) : last[p].person = p
          /\ LET kept == Range(last)
                 gone == IF chosen THEN Left(kept, ids) ELSE {}
             IN job' = [job EXCEPT ![r] = [Blank EXCEPT !.seen = hangout.status, !.was = kept,
                                                        !.now = kept \ gone, !.drop = Ids(gone),
                                                        !.todo = ids]]
    BY DEF Load
  <1>2. pc' = [pc EXCEPT ![r] = "each"]
    BY DEF Load, Goto
  <1> DEFINE gone == IF chosen THEN Left(Range(last), ids) ELSE {}
  <1>3. /\ pc'[r] = "each" /\ job'[r].todo = ids /\ job'[r].sent = {} /\ job'[r].drop = Ids(gone)
    BY <1>1, <1>2 DEF Strong, Sessions, Inv, Shape, Blank
  <1>4. IsFiniteSet(Ids(gone)) /\ Cardinality(Ids(gone)) <= Cardinality(People)
    <2> DEFINE owners == {p \in Persons(rows) : last[p] \in gone}
               f == [p \in owners |-> last[p].id]
    <2>1. owners \subseteq People
      BY DEF Strong, Store
    <2>2. f \in [owners -> Ids(gone)]
      BY DEF Ids
    <2>3. \A i \in Ids(gone) : \E p \in owners : f[p] = i
      <3> SUFFICES ASSUME NEW x \in gone PROVE \E p \in owners : f[p] = x.id
        BY DEF Ids
      <3>1. PICK p \in Persons(rows) : last[p] = x
        BY <1>1 DEF Left, Range
      <3> QED
        BY <3>1
    <2>4. f \in Surjection(owners, Ids(gone))
      BY <2>2, <2>3 DEF Surjection
    <2>5. IsFiniteSet(owners) /\ Cardinality(owners) <= Cardinality(People)
      BY <2>1, FinitePeople
    <2> HIDE DEF owners, f, gone
    <2>6. IsFiniteSet(Ids(gone)) /\ Cardinality(Ids(gone)) <= Cardinality(owners)
      BY <2>4, <2>5, FS_Surjection
    <2>7. Cardinality(Ids(gone)) \in Nat /\ Cardinality(owners) \in Nat /\ Cardinality(People) \in Nat
      BY <2>1, <2>6, FS_CardinalityType, FinitePeople
    <2> QED
      BY <2>5, <2>6, <2>7
  <1> HIDE DEF gone
  <1>5. ToLock(job'[r], held'[r]) <= Cardinality(People) + 1
    <2> DEFINE all == Ids(gone) \cup {0}
               some == ({0} \cup job'[r].sent \cup job'[r].drop) \ held'[r]
    <2>1. IsFiniteSet(all) /\ Cardinality(all) <= Cardinality(Ids(gone)) + 1
      <3>1. Cardinality(Ids(gone)) \in Nat
        BY <1>4, FS_CardinalityType
      <3>2. /\ IsFiniteSet(all)
            /\ Cardinality(all) = IF 0 \in Ids(gone) THEN Cardinality(Ids(gone))
                                 ELSE Cardinality(Ids(gone)) + 1
        BY <1>4, FS_AddElement
      <3> QED
        BY <3>1, <3>2
    <2>2. some \subseteq all
      BY <1>3
    <2> HIDE DEF all, some
    <2>3. Cardinality(some) <= Cardinality(all) /\ IsFiniteSet(some)
      BY <2>1, <2>2, FS_Subset
    <2>4. Cardinality(some) \in Nat /\ Cardinality(all) \in Nat /\ Cardinality(Ids(gone)) \in Nat
      BY <1>4, <2>1, <2>3, FS_CardinalityType
    <2>5. ToLock(job'[r], held'[r]) = Cardinality(some)
      BY DEF ToLock, some
    <2> QED
      BY <1>4, <2>1, <2>3, <2>4, <2>5, FinitePeople
  <1>6. Cardinality(ids) \in Nat /\ Cardinality(ids) <= Cardinality(People)
    BY FinitePeople DEF Strong, Store
  <1>7. ToLock(job'[r], held'[r]) \in Nat
    <2>1. /\ job'[r] \in Session /\ Numbered(job'[r], nextId') /\ Books(job'[r]) /\ nextId' \in Nat
      BY DEF Strong, Sessions, SessionOK, Store
    <2> DEFINE some == ({0} \cup job'[r].sent \cup job'[r].drop) \ held'[r]
               all == Ids(gone) \cup {0}
    <2>2. some \subseteq all
      BY <1>3
    <2>3. IsFiniteSet(all)
      BY <1>4, FS_AddElement
    <2> HIDE DEF all, some
    <2>4. IsFiniteSet(some)
      BY <2>2, <2>3, FS_Subset
    <2>5. Cardinality(some) \in Nat
      BY <2>4, FS_CardinalityType
    <2> QED
      BY <2>5 DEF ToLock, some
  <1>8. job'[r].then \in BOOLEAN
    BY DEF Strong, Sessions, Session
  <1>9. Effort(r)' = 4 * Cardinality(ids) + ToLock(job'[r], held'[r]) + 4
    BY <1>3, <1>6, <1>7, <1>8, WorkAt DEF Effort
  <1> QED
    BY <1>5, <1>6, <1>7, <1>9, FinitePeople DEF Whole

\* A lock that is taken is one lock less to take.
LEMMA EffortLock == ASSUME Strong, NEW r \in Requests, LockRow(r) PROVE Effort(r)' < Effort(r)
  <1> DEFINE j == job[r]
             all == {0} \cup j.sent \cup j.drop
             n == NextLock(r)
  <1>1. pc' = pc /\ job' = job /\ held'[r] = held[r] \cup {n}
    BY DEF LockRow, Strong, Locks
  <1>2. n \in all \ held[r]
    BY NextIsNeeded DEF LockRow, Needed, Changed, Hangouts
  <1>3. IsFiniteSet(all \ held[r]) /\ ToLock(j, held[r]) \in Nat /\ ToLock(j, held'[r]) \in Nat
    BY FiniteLocks
  <1>4. ToLock(j, held'[r]) = ToLock(j, held[r]) - 1
    <2>1. all \ held'[r] = (all \ held[r]) \ {n}
      BY <1>1
    <2>2. ToLock(j, held'[r]) = Cardinality(all \ held'[r]) /\ ToLock(j, held[r]) = Cardinality(all \ held[r])
      BY DEF ToLock
    <2> HIDE DEF all
    <2> QED
      BY <1>2, <1>3, <2>1, <2>2, FS_RemoveElement
  <1>5. pc[r] \in {"save", "each", "insert"}
    BY DEF LockRow, Locking, Flushing, Done
  <1>6. Cardinality(j.todo) \in Nat /\ j.then \in BOOLEAN
    BY EffortIsNat DEF Session
  <1> HIDE DEF j, n
  <1>7. Effort(r) = Work(pc[r], j, held[r]) /\ Effort(r)' = Work(pc[r], j, held'[r])
    BY <1>1 DEF Effort, j
  <1> QED
    BY <1>3, <1>4, <1>5, <1>6, <1>7, WorkAt, FinitePeople

\* Inside the loop of a pass.
LEMMA EffortEach == ASSUME Strong, NEW r \in Requests, Each(r) PROVE Effort(r)' < Effort(r)
  <1> DEFINE j == job[r]
  <1>1. pc[r] = "each" /\ UNCHANGED held
    BY DEF Each
  <1>2. IsFiniteSet(j.todo) /\ Cardinality(j.todo) \in Nat /\ ToLock(j, held[r]) \in Nat /\ j.then \in BOOLEAN
    BY EffortIsNat DEF Session
  <1>3. j \in Session /\ DOMAIN job = Requests /\ pc \in [Requests -> Places]
    BY EffortIsNat DEF Strong, Sessions, Inv, Shape
  <1>4. CASE UNCHANGED pc
    <2>1. PICK p \in j.todo : job' = [job EXCEPT ![r].todo = @ \ {p}]
      <3>1. pc[r] \notin {"insert", "send"}
        BY <1>1
      <3>2. \A place \in {"insert", "send"} : ~Goto(r, place)
        BY <1>3, <1>4, <3>1 DEF Goto
      <3> QED
        BY <3>2 DEF Each
    <2>2. /\ job'[r].todo = j.todo \ {p} /\ job'[r].sent = j.sent /\ job'[r].drop = j.drop
          /\ job'[r].then = j.then
      BY <1>3, <2>1 DEF Session
    <2>3. Cardinality(job'[r].todo) = Cardinality(j.todo) - 1
      BY <1>2, <2>1, <2>2, FS_RemoveElement
    <2>4. ToLock(job'[r], held'[r]) = ToLock(j, held[r])
      BY <1>1, <2>2 DEF ToLock
    <2>5. Cardinality(job'[r].todo) \in Nat
      <3>1. j.todo # {}
        BY <2>1
      <3> QED
        BY <1>2, <2>3, <3>1, FS_EmptySet
    <2>6. Effort(r)' = Work("each", job'[r], held'[r]) /\ Effort(r) = Work("each", j, held[r])
      BY <1>1, <1>4 DEF Effort
    <2> HIDE DEF j
    <2>7. Work("each", j, held[r]) = 4 * Cardinality(j.todo) + ToLock(j, held[r]) + 4
      BY <1>2, WorkAt
    <2>8. Work("each", job'[r], held'[r]) = 4 * Cardinality(job'[r].todo) + ToLock(j, held[r]) + 4
      <3>1. ToLock(job'[r], held'[r]) \in Nat /\ job'[r].then \in BOOLEAN
        BY <1>2, <2>2, <2>4
      <3> QED
        BY <2>4, <2>5, <3>1, WorkAt
    <2> QED
      BY <1>2, <2>3, <2>6, <2>7, <2>8
  <1>5. CASE ~UNCHANGED pc
    <2>1. PICK p \in j.todo, place \in {"insert", "send"} :
            job' = [job EXCEPT ![r].cur = p] /\ pc' = [pc EXCEPT ![r] = place]
      <3>1. PICK p \in j.todo :
              /\ job' = [job EXCEPT ![r].cur = p]
              /\ Goto(r, IF {x \in job[r].now : x.person = p} = {} THEN "insert" ELSE "send")
        BY <1>5 DEF Each
      <3> QED
        BY <3>1 DEF Goto
    <2>2. /\ job'[r].todo = j.todo /\ job'[r].sent = j.sent /\ job'[r].drop = j.drop
          /\ job'[r].then = j.then /\ pc'[r] = place
      BY <1>3, <2>1 DEF Session
    <2>3. ToLock(job'[r], held'[r]) = ToLock(j, held[r])
      BY <1>1, <2>2 DEF ToLock
    <2>4. Effort(r)' = Work(place, job'[r], held'[r]) /\ Effort(r) = Work("each", j, held[r])
      BY <1>1, <2>2 DEF Effort
    <2> HIDE DEF j
    <2>5. Work("each", j, held[r]) = 4 * Cardinality(j.todo) + ToLock(j, held[r]) + 4
      BY <1>2, WorkAt
    <2>6. /\ Cardinality(job'[r].todo) = Cardinality(j.todo) /\ Cardinality(job'[r].todo) \in Nat
          /\ ToLock(job'[r], held'[r]) \in Nat /\ job'[r].then \in BOOLEAN
      BY <1>2, <2>2, <2>3
    <2>7. /\ Work("insert", job'[r], held'[r]) = 4 * Cardinality(j.todo) + ToLock(j, held[r]) + 3
          /\ Work("send", job'[r], held'[r]) = 4 * Cardinality(j.todo) + ToLock(j, held[r]) + 2
      BY <2>3, <2>6, WorkAt
    <2> QED
      BY <1>2, <2>4, <2>5, <2>7
  <1> QED
    BY <1>4, <1>5

LEMMA EffortInsert == ASSUME Strong, NEW r \in Requests, Insert(r) PROVE Effort(r)' < Effort(r)
  <1> DEFINE j == job[r]
  <1>1. pc[r] = "insert" /\ pc \in [Requests -> Places] /\ DOMAIN job = Requests /\ j \in Session
    BY EffortIsNat DEF Insert, Strong, Sessions, Inv, Shape
  <1>2. CASE Abandon(r)
    <2>1. pc'[r] = "idle"
      BY <1>1, <1>2 DEF Abandon, Goto
    <2> QED
      BY <1>1, <2>1, EffortAbandon
  <1>3. CASE ~Abandon(r)
    <2>1. /\ job' = [job EXCEPT ![r].now = @ \cup {Fresh(nextId, job[r].cur)}]
          /\ pc' = [pc EXCEPT ![r] = "send"] /\ UNCHANGED held
      BY <1>3 DEF Insert, Goto
    <2>2. /\ job'[r].todo = j.todo /\ job'[r].sent = j.sent /\ job'[r].drop = j.drop
          /\ job'[r].then = j.then /\ pc'[r] = "send"
      BY <1>1, <2>1 DEF Session
    <2>3. ToLock(job'[r], held'[r]) = ToLock(j, held[r])
      BY <2>1, <2>2 DEF ToLock
    <2>4. Cardinality(j.todo) \in Nat /\ ToLock(j, held[r]) \in Nat /\ j.then \in BOOLEAN
      BY EffortIsNat DEF Session
    <2> QED
      BY <1>1, <2>2, <2>3, <2>4, WorkAt DEF Effort
  <1> QED
    BY <1>2, <1>3

LEMMA EffortSend == ASSUME Strong, NEW r \in Requests, Send(r) PROVE Effort(r)' < Effort(r)
  <1> DEFINE j == job[r]
  <1>1. pc[r] = "send" /\ pc \in [Requests -> Places] /\ DOMAIN job = Requests /\ j \in Session
    BY EffortIsNat DEF Send, Strong, Sessions, Inv, Shape
  <1>2. CASE Goto(r, "raised")
    <2>1. pc'[r] = "raised"
      BY <1>1, <1>2 DEF Goto
    <2>2. Effort(r)' = 1
      BY <2>1 DEF Effort, Work
    <2>3. /\ ToLock(j, held[r]) \in Nat /\ Cardinality(j.todo) \in Nat /\ j.then \in BOOLEAN
      BY EffortIsNat DEF Session
    <2>4. Effort(r) = 4 * Cardinality(j.todo) + ToLock(j, held[r]) + 2
      BY <1>1, <2>3, WorkAt DEF Effort
    <2> HIDE DEF j
    <2> QED
      BY <2>2, <2>3, <2>4
  <1>3. CASE ~Goto(r, "raised")
    <2>1. PICK x \in j.now, outcome \in Outcomes(j.cur) :
            /\ job' = [job EXCEPT ![r].now = (@ \ {x}) \cup {Sent(x, outcome)},
                                  ![r].sent = @ \cup {x.id}, ![r].todo = @ \ {j.cur}, ![r].cur = None]
            /\ pc' = [pc EXCEPT ![r] = "each"] /\ UNCHANGED held
      BY <1>3 DEF Send, Goto
    <2>2. /\ job'[r].todo = j.todo \ {j.cur} /\ job'[r].sent = j.sent \cup {x.id}
          /\ job'[r].drop = j.drop /\ job'[r].then = j.then /\ pc'[r] = "each"
      BY <1>1, <2>1 DEF Session
    <2>3. /\ IsFiniteSet(j.todo) /\ Cardinality(j.todo) \in Nat /\ ToLock(j, held[r]) \in Nat
          /\ j.then \in BOOLEAN
      BY EffortIsNat DEF Session
    <2>4. Cardinality(job'[r].todo) = Cardinality(j.todo) - 1 /\ Cardinality(job'[r].todo) \in Nat
      <3>1. j.cur \in j.todo
        BY <1>1 DEF Strong, Sessions, SessionOK, AtPerson
      <3>2. Cardinality(j.todo \ {j.cur}) = Cardinality(j.todo) - 1 /\ IsFiniteSet(j.todo \ {j.cur})
        BY <2>3, <3>1, FS_RemoveElement
      <3> QED
        BY <2>2, <3>2, FS_CardinalityType
    <2>5. ToLock(job'[r], held'[r]) \in Nat /\ ToLock(job'[r], held'[r]) <= ToLock(j, held[r]) + 1
      <3> DEFINE old == ({0} \cup j.sent \cup j.drop) \ held[r]
                 new == ({0} \cup job'[r].sent \cup job'[r].drop) \ held'[r]
      <3>1. IsFiniteSet(old)
        BY FiniteLocks
      <3>2. new \subseteq old \cup {x.id}
        BY <2>1, <2>2
      <3>3. ToLock(j, held[r]) = Cardinality(old) /\ ToLock(job'[r], held'[r]) = Cardinality(new)
        BY DEF ToLock
      <3> HIDE DEF old, new
      <3>4. /\ IsFiniteSet(old \cup {x.id})
            /\ Cardinality(old \cup {x.id}) = IF x.id \in old THEN Cardinality(old) ELSE Cardinality(old) + 1
        BY <3>1, FS_AddElement
      <3>5. IsFiniteSet(new) /\ Cardinality(new) <= Cardinality(old \cup {x.id})
        BY <3>2, <3>4, FS_Subset
      <3>6. Cardinality(new) \in Nat /\ Cardinality(old) \in Nat
        BY <3>1, <3>5, FS_CardinalityType
      <3> QED
        BY <3>3, <3>4, <3>5, <3>6
    <2>6. Effort(r) = 4 * Cardinality(j.todo) + ToLock(j, held[r]) + 2
      BY <1>1, <2>3, WorkAt DEF Effort
    <2>7. Effort(r)' = 4 * Cardinality(job'[r].todo) + ToLock(job'[r], held'[r]) + 4
      <3>1. Effort(r)' = Work("each", job'[r], held'[r])
        BY <2>2 DEF Effort
      <3>2. job'[r].then \in BOOLEAN
        BY <2>2, <2>3
      <3> QED
        BY <2>4, <2>5, <3>1, <3>2, WorkAt
    <2> HIDE DEF j
    <2> QED
      BY <2>3, <2>4, <2>5, <2>6, <2>7
  <1> QED
    BY <1>2, <1>3

LEMMA EffortSave == ASSUME Strong, NEW r \in Requests, SaveEdit(r) PROVE Effort(r)' < Effort(r)
  <1>1. pc[r] = "save" /\ pc \in [Requests -> Places]
    BY DEF SaveEdit, Strong, Inv, Shape
  <1>2. CASE pc'[r] = "idle"
    BY <1>1, <1>2, EffortAbandon
  <1>3. CASE pc'[r] # "idle"
    <2>1. pc'[r] = "setup" /\ job[r].then
      BY <1>1, <1>3 DEF SaveEdit, Abandon, Goto
    <2>2. Effort(r)' = Whole
      BY <2>1 DEF Effort, Work
    <2>3. /\ ToLock(job[r], held[r]) \in Nat /\ Cardinality(job[r].todo) \in Nat
          /\ job[r].then \in BOOLEAN
      BY EffortIsNat DEF Session
    <2>4. Effort(r) = ToLock(job[r], held[r]) + 1 + Whole
      BY <1>1, <2>1, <2>3, WorkAt DEF Effort
    <2> QED
      BY <2>2, <2>3, <2>4, FinitePeople
  <1> QED
    BY <1>2, <1>3

LEMMA EffortThen == ASSUME Strong, Strong', NEW r \in Requests, ThenSetup(r) PROVE Effort(r)' < Effort(r)
  <1> DEFINE ids == job[r].wanted \cap contacts
  <1>1. pc[r] = "setup" /\ pc \in [Requests -> Places] /\ Load(r, ids, TRUE)
    BY DEF ThenSetup, Strong, Inv, Shape
  <1>2. CASE Abandon(r)
    <2>1. pc'[r] = "idle"
      BY <1>1, <1>2 DEF Abandon, Goto
    <2> QED
      BY <1>1, <2>1, EffortAbandon
  <1>3. CASE ~Abandon(r)
    <2>1. Effort(r) = Whole
      BY <1>1 DEF Effort, Work
    <2>2. ids \in SUBSET contacts
      OBVIOUS
    <2> HIDE DEF ids
    <2> QED
      BY <1>1, <1>3, <2>1, <2>2, EffortLoad
  <1> QED
    BY <1>2, <1>3

\* Every step that a request takes leaves it less to do.
LEMMA EffortStep == ASSUME Strong, Strong', NEW r \in Requests, Step(r) PROVE Effort(r)' < Effort(r)
  <1>1. pc \in [Requests -> Places]
    BY DEF Strong, Inv, Shape
  <1>2. CASE Commit(r) \/ Aborts(r) \/ CloseSession(r)
    <2>1. pc'[r] = "idle"
      BY <1>1, <1>2 DEF Commit, Aborts, CloseSession, Abandon, Goto
    <2>2. pc[r] # "idle"
      <3>1. CASE Commit(r)
        BY <3>1 DEF Commit, Done
      <3>2. CASE Aborts(r)
        <4>1. Locking(r) \/ Flushing(r)
          BY <3>2 DEF Aborts, Deadlocked
        <4> QED
          BY <4>1 DEF Locking, Flushing, Done
      <3>3. CASE CloseSession(r)
        BY <3>3 DEF CloseSession
      <3> QED
        BY <1>2, <3>1, <3>2, <3>3
    <2> QED
      BY <2>1, <2>2, EffortAbandon
  <1>3. CASE SaveEdit(r)
    BY <1>3, EffortSave
  <1>4. CASE ThenSetup(r)
    BY <1>4, EffortThen
  <1>5. CASE Each(r) \/ Insert(r) \/ Send(r) \/ LockRow(r)
    BY <1>5, EffortEach, EffortInsert, EffortSend, EffortLock
  <1> QED
    BY <1>2, <1>3, <1>4, <1>5 DEF Step

EffortNat == \A r \in Requests : Effort(r) \in Nat

LEMMA EffortsAreNat == Strong => EffortNat
  BY EffortIsNat DEF EffortNat

LEMMA EffortsAreNatNext == Strong' => EffortNat'
  BY EffortsAreNat, PTL

\* What one request does is its own business, commits apart.
LEMMA OneRequestMoves ==
  ASSUME Strong, NEW q \in Requests, LoadEdit(q) \/ LoadSetup(q) \/ Step(q),
         NEW r \in Requests \ {q}
  PROVE  job'[r] = job[r] /\ pc'[r] = pc[r] /\ held'[r] = held[r]
  <1>1. DOMAIN job = Requests /\ DOMAIN pc = Requests /\ DOMAIN held = Requests
    BY DEF Strong, Inv, Shape, Locks
  <1>2. ASSUME Abandon(q) PROVE job'[r] = job[r] /\ pc'[r] = pc[r] /\ held'[r] = held[r]
    BY <1>1, <1>2 DEF Abandon, Goto
  <1>3. ASSUME NEW ids, NEW chosen, Load(q, ids, chosen)
        PROVE  job'[r] = job[r] /\ pc'[r] = pc[r] /\ held'[r] = held[r]
    BY <1>1, <1>2, <1>3 DEF Load, Goto
  <1>4. CASE LoadEdit(q) \/ SaveEdit(q)
    BY <1>1, <1>2, <1>4 DEF LoadEdit, SaveEdit, Goto
  <1>5. CASE LoadSetup(q) \/ ThenSetup(q)
    BY <1>3, <1>5 DEF LoadSetup, ThenSetup
  <1>6. CASE Each(q)
    BY <1>1, <1>6 DEF Each, Goto
  <1>7. CASE Insert(q) \/ Send(q)
    BY <1>1, <1>2, <1>7 DEF Insert, Send, Goto
  <1>8. CASE Commit(q) \/ LockRow(q) \/ Aborts(q) \/ CloseSession(q)
    BY <1>1, <1>2, <1>8 DEF Commit, LockRow, Aborts, CloseSession, Goto
  <1> QED
    BY <1>4, <1>5, <1>6, <1>7, <1>8 DEF Step

\* No step gives a request more to do but the one that starts it.
LEMMA EffortOfOthers ==
  ASSUME Strong, Strong', [Next]_vars, NEW r \in Requests, pc[r] # "idle"
  PROVE  Effort(r)' <= Effort(r)
  <1>0. Effort(r) \in Nat /\ Effort(r)' \in Nat
    BY EffortsAreNat, EffortsAreNatNext DEF EffortNat
  <1>1. ASSUME job'[r] = job[r], pc'[r] = pc[r], held'[r] = held[r] PROVE Effort(r)' <= Effort(r)
    BY <1>0, <1>1 DEF Effort
  <1>2. CASE UNCHANGED <<pc, job, held>>
    BY <1>1, <1>2
  <1>3. CASE Crash
    <2>1. pc'[r] = "idle"
      BY <1>3 DEF Crash
    <2> QED
      BY <1>0, <2>1, EffortAbandon
  <1>4. ASSUME NEW q \in Requests, LoadEdit(q) \/ LoadSetup(q) \/ Step(q) PROVE Effort(r)' <= Effort(r)
    <2>1. CASE q = r
      <3>1. Step(r)
        BY <1>4, <2>1 DEF LoadEdit, LoadSetup, Ask
      <3>2. Effort(r)' < Effort(r)
        BY <3>1, EffortStep
      <3> QED
        BY <1>0, <3>2
    <2>2. CASE q # r
      <3>1. job'[r] = job[r] /\ pc'[r] = pc[r] /\ held'[r] = held[r]
        BY <1>4, <2>2, OneRequestMoves
      <3> QED
        BY <1>1, <3>1
    <2> QED
      BY <2>1, <2>2
  <1> QED
    BY <1>2, <1>3, <1>4 DEF Next, vars, Create, Close, Hide, Unhide, Reply, GiveUp, DeleteContact, Event, Other

\* Every setup and every draft form ends (services.py:515-589): what is left of it
\* is a natural number that each step of its own makes smaller and no step of
\* anything else makes larger.
THEOREM RequestsEnd ==
  Spec => /\ [](\A r \in Requests : Effort(r) \in Nat /\ (pc[r] # "idle" => Effort(r) > 0))
          /\ [][\A r \in Requests : /\ Step(r) => Effort(r)' < Effort(r)
                                    /\ pc[r] # "idle" => Effort(r)' <= Effort(r)]_vars
  <1> DEFINE Counted == \A r \in Requests : Effort(r) \in Nat /\ (pc[r] # "idle" => Effort(r) > 0)
             Falls   == \A r \in Requests : /\ Step(r) => Effort(r)' < Effort(r)
                                            /\ pc[r] # "idle" => Effort(r)' <= Effort(r)
  <1>1. Strong => Counted
    BY EffortIsNat
  <1>2. Strong /\ Strong' /\ [Next]_vars => [Falls]_vars
    BY EffortStep, EffortOfOthers
  <1> QED
    BY <1>1, <1>2, AlwaysStrong, PTL DEF Spec

\* A request that is under way and does not wait for another's row.
Ready(r) ==
  /\ pc[r] # "idle"
  /\ Flushing(r) => RowGone(r) \/ Needed(r) \subseteq held[r] \/ Free(NextLock(r), r)

\* The guards of Step, with what their quantifiers need; the database may also
\* abort a request that waits.
Guarded(r) ==
  LET people == job[r].todo IN
  \/ /\ pc[r] = "save" /\ Needed(r) \subseteq held[r]
     /\ nextId + Cardinality(people) - 1 <= MaxRows
     /\ \E ids \in [people -> nextId..(nextId + Cardinality(people) - 1)] : IsInjective(ids)
  \/ pc[r] = "setup" /\ \E last \in [Persons(rows) -> rows] : \A p \in Persons(rows) : last[p].person = p
  \/ pc[r] = "each" /\ people # {}
  \/ pc[r] = "insert" /\ ~RowGone(r) /\ Needed(r) \subseteq held[r] /\ nextId <= MaxRows
  \/ pc[r] = "send" /\ \E x \in job[r].now, outcome \in Outcomes(job[r].cur) : x.person = job[r].cur
  \/ Done(r) /\ ~RowGone(r) /\ Needed(r) \subseteq held[r]
  \/ Locking(r) /\ Free(NextLock(r), r)
  \/ Flushing(r) /\ RowGone(r)
  \/ pc[r] = "raised"

\* The instance has row ids left for all that a request may insert.
Room == nextId + Cardinality(People) <= MaxRows + 1

\* Whoever is about to be texted has a row.
InHand == \A r \in Requests : pc[r] = "send" => job[r].cur \in Persons(job[r].now)

LEMMA InHandStep ==
  ASSUME Strong, InHand, NEW r \in Requests, Step(r), pc'[r] = "send"
  PROVE  job'[r].cur \in Persons(job'[r].now)
  <1>1. job[r] \in Session /\ pc \in [Requests -> Places] /\ DOMAIN job = Requests
    BY DEF Strong, Sessions, Inv, Shape
  <1>2. CASE Each(r)
    <2>1. PICK p \in job[r].todo : \/ UNCHANGED pc
                                   \/ /\ job' = [job EXCEPT ![r].cur = p]
                                      /\ Goto(r, IF {x \in job[r].now : x.person = p} = {} THEN "insert" ELSE "send")
      BY <1>2 DEF Each
    <2>2. job' = [job EXCEPT ![r].cur = p] /\ {x \in job[r].now : x.person = p} # {}
      BY <1>1, <1>2, <2>1 DEF Each, Goto
    <2>3. job'[r].cur = p /\ job'[r].now = job[r].now
      BY <1>1, <2>2 DEF Session
    <2> QED
      BY <2>2, <2>3 DEF Persons
  <1>3. CASE Insert(r)
    <2>1. job' = [job EXCEPT ![r].now = @ \cup {Fresh(nextId, job[r].cur)}]
      BY <1>1, <1>3 DEF Insert, Abandon, Goto
    <2>2. job'[r].cur = job[r].cur /\ Fresh(nextId, job[r].cur) \in job'[r].now
      BY <1>1, <2>1 DEF Session
    <2> QED
      BY <2>2 DEF Persons, Fresh
  <1>4. CASE LockRow(r)
    BY <1>4 DEF LockRow, Locking, Flushing, Done
  <1>5. CASE SaveEdit(r) \/ ThenSetup(r) \/ Send(r) \/ Commit(r) \/ Aborts(r) \/ CloseSession(r)
    BY <1>1, <1>5 DEF SaveEdit, ThenSetup, Load, Send, Commit, Aborts, CloseSession, Abandon, Goto
  <1> QED
    BY <1>2, <1>3, <1>4, <1>5 DEF Step

LEMMA InHandNext == ASSUME Strong, InHand, [Next]_vars PROVE InHand'
  <1>1. CASE UNCHANGED <<pc, job>>
    BY <1>1 DEF InHand
  <1>2. CASE Crash
    BY <1>2 DEF Crash, InHand
  <1>3. ASSUME NEW q \in Requests, LoadEdit(q) \/ LoadSetup(q) \/ Step(q) PROVE InHand'
    <2>1. ASSUME NEW r \in Requests \ {q} PROVE job'[r] = job[r] /\ pc'[r] = pc[r]
      BY <1>3, OneRequestMoves
    <2>2. ASSUME pc'[q] = "send" PROVE job'[q].cur \in Persons(job'[q].now)
      <3>1. pc \in [Requests -> Places]
        BY DEF Strong, Inv, Shape
      <3>2. CASE Step(q)
        BY <2>2, <3>2, InHandStep
      <3>3. CASE LoadEdit(q) \/ LoadSetup(q)
        BY <2>2, <3>1, <3>3 DEF LoadEdit, LoadSetup, Load, Abandon, Goto
      <3> QED
        BY <1>3, <3>2, <3>3
    <2> QED
      BY <2>1, <2>2 DEF InHand
  <1> QED
    BY <1>1, <1>2, <1>3 DEF Next, vars, Create, Close, Hide, Unhide, Reply, GiveUp, DeleteContact, Event, Other

\* Ids for new rows can be given out in any order.
LEMMA IdsForAll ==
  ASSUME NEW S \in SUBSET People, NEW n \in Nat
  PROVE  \E ids \in [S -> n..(n + Cardinality(S) - 1)] : IsInjective(ids)
  <1> DEFINE c == Cardinality(S)
  <1>1. c \in Nat /\ ExistsBijection(1..c, S)
    <2>1. IsFiniteSet(S)
      BY FinitePeople
    <2> QED
      BY <2>1, FS_CardinalityType
  <1>2. PICK g : g \in Bijection(S, 1..c)
    BY <1>1, Fun_ExistsBijSymmetric DEF ExistsBijection
  <1>3. g \in [S -> 1..c] /\ \A p, q \in S : g[p] = g[q] => p = q
    BY <1>2 DEF Bijection, Injection, IsInjective
  <1> HIDE DEF c
  <1> DEFINE ids == [p \in S |-> g[p] + n - 1]
  <1>4. ids \in [S -> n..(n + c - 1)]
    BY <1>1, <1>3
  <1>5. \A p, q \in S : ids[p] = ids[q] => p = q
    <2> SUFFICES ASSUME NEW p \in S, NEW q \in S, ids[p] = ids[q] PROVE p = q
      OBVIOUS
    <2>1. g[p] \in Int /\ g[q] \in Int /\ g[p] + n - 1 = g[q] + n - 1
      BY <1>1, <1>3
    <2>2. g[p] = g[q]
      BY <2>1
    <2> QED
      BY <1>3, <2>2
  <1>6. IsInjective(ids)
    BY <1>5 DEF IsInjective
  <1> QED
    BY <1>4, <1>6 DEF c

\* A request that Ready lets go on finds the guard of a step, and everything that
\* guard chooses, in front of it: nothing but a row another request has locked
\* ever keeps a setup or a draft form waiting (services.py:476-589).
THEOREM OnlyLocksWait == Spec => [](Room => \A r \in Requests : Ready(r) => Guarded(r))
  <1>1. ASSUME Strong, InHand, Room, NEW r \in Requests, Ready(r) PROVE Guarded(r)
    <2> DEFINE j == job[r]
    <2>1. j \in Session /\ nextId \in Nat \ {0} /\ AtPerson(pc[r], j)
      BY <1>1 DEF Strong, Sessions, SessionOK, Store
    <2>2. /\ j.todo \subseteq People /\ Cardinality(j.todo) \in Nat
          /\ Cardinality(j.todo) <= Cardinality(People) /\ Cardinality(People) \in Nat
      BY <2>1, FinitePeople DEF Session
    <2>3. pc[r] \in Places \ {"idle"}
      BY <1>1 DEF Ready, Strong, Inv, Shape
    <2>4. MaxRows \in Nat
      BY BoundsAssumption
    <2>5. CASE Flushing(r) /\ RowGone(r)
      BY <2>5 DEF Guarded
    <2>6. CASE Flushing(r) /\ ~RowGone(r) /\ ~(Needed(r) \subseteq held[r]) /\ Free(NextLock(r), r)
      BY <2>6 DEF Guarded, Locking
    <2>7. CASE Flushing(r) /\ ~RowGone(r) /\ Needed(r) \subseteq held[r]
      <3>1. CASE pc[r] = "save"
        <4>1. nextId + Cardinality(j.todo) - 1 <= MaxRows
          BY <1>1, <2>1, <2>2, <2>4 DEF Room
        <4>2. \E ids \in [j.todo -> nextId..(nextId + Cardinality(j.todo) - 1)] : IsInjective(ids)
          BY <2>1, <2>2, IdsForAll
        <4> QED
          BY <2>7, <3>1, <4>1, <4>2 DEF Guarded
      <3>2. CASE pc[r] = "insert"
        <4>1. Cardinality(People) # 0
          <5>1. j.cur \in People
            BY <2>1, <2>2, <3>2 DEF AtPerson
          <5>2. IsFiniteSet(People)
            BY NamesAssumption
          <5> QED
            BY <5>1, <5>2, FS_EmptySet
        <4>2. nextId <= MaxRows
          BY <1>1, <2>1, <2>2, <2>4, <4>1 DEF Room
        <4> QED
          BY <2>7, <3>2, <4>2 DEF Guarded
      <3>3. CASE Done(r)
        BY <2>7, <3>3 DEF Guarded
      <3> QED
        BY <2>7, <3>1, <3>2, <3>3 DEF Flushing
    <2>8. CASE ~Flushing(r)
      <3>1. CASE pc[r] = "setup"
        <4> DEFINE last == [p \in Persons(rows) |-> CHOOSE x \in rows : x.person = p]
        <4>1. ASSUME NEW p \in Persons(rows) PROVE last[p] \in rows /\ last[p].person = p
          <5>1. \E x \in rows : x.person = p
            BY DEF Persons
          <5> QED
            BY <5>1
        <4>2. last \in [Persons(rows) -> rows] /\ \A p \in Persons(rows) : last[p].person = p
          BY <4>1
        <4> QED
          BY <3>1, <4>2 DEF Guarded
      <3>2. CASE pc[r] = "each"
        BY <2>8, <3>2 DEF Guarded, Flushing, Done
      <3>3. CASE pc[r] = "send"
        <4>1. PICK x \in j.now : x.person = j.cur
          BY <1>1, <3>3 DEF InHand, Persons
        <4>2. Outcomes(j.cur) # {}
          BY DEF Outcomes
        <4> QED
          BY <3>3, <4>1, <4>2 DEF Guarded
      <3>4. CASE pc[r] = "raised"
        BY <3>4 DEF Guarded
      <3> QED
        BY <2>3, <2>8, <3>1, <3>2, <3>3, <3>4 DEF Places, Flushing
    <2> QED
      BY <1>1, <2>5, <2>6, <2>7, <2>8 DEF Ready
  <1>2. Strong /\ InHand => (Room => \A r \in Requests : Ready(r) => Guarded(r))
    BY <1>1
  <1>3. Init => InHand
    BY DEF Init, InHand
  <1>4. Strong /\ InHand /\ [Next]_vars => InHand'
    BY InHandNext
  <1> QED
    BY <1>2, <1>3, <1>4, AlwaysStrong, PTL DEF Spec

=============================================================================
