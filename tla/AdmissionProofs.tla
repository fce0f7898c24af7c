--------------------------- MODULE AdmissionProofs ---------------------------
(***************************************************************************)
(* Proofs about Admission, for every set of users, addresses and request   *)
(* slots, every bootstrap list, lifetime of the cache and bound.           *)
(***************************************************************************)
EXTENDS Admission, FiniteSetTheorems, TLAPS

Addresses == Emails \cup {None}

AllOps == [kind : {"page"}] \cup [kind : {"put"}, email : Emails, role : Roles]
          \cup [kind : {"drop"}, id : Nat]

Request == [user : Users \cup {None}, op : AllOps, t0 : Nat, email : Addresses, row : Row]

-----------------------------------------------------------------------------
(* The shape of the state.                                                 *)

GrantsShape == grants \subseteq Row /\ nextId \in Nat

IdentityShape ==
  /\ clock \in Nat
  /\ clerk \in [Users -> Addresses]
  /\ ceased \in [Users -> [Emails -> Int]]
  /\ cache \in [Users -> [until : Nat, email : Addresses]]

RequestShape ==
  /\ pc \in [Requests -> Places]
  /\ req \in [Requests -> Request]
  /\ \A r \in Requests : pc[r] # "idle" => req[r].user \in Users

Shape == GrantsShape /\ IdentityShape /\ RequestShape

LEMMA NoRowType == NoRow \in Row
  BY DEF NoRow, Row, Roles

LEMMA BlankType == Blank \in Request
  BY NoRowType DEF Blank, Request, AllOps, Addresses

\* A query returns a row of the table or nothing.
LEMMA QueryType ==
  ASSUME GrantsShape
  PROVE  /\ \A e : Grant(e) \in Row
         /\ \A i : RowOf(i) \in Row
  BY NoRowType DEF GrantsShape, Grant, RowOf

LEMMA ShapeInit == Init => Shape
  <1> SUFFICES ASSUME Init PROVE Shape
    OBVIOUS
  <1>1. GrantsShape
    BY DEF Init, GrantsShape
  <1>2. IdentityShape
    BY LimitsAssumption DEF Init, IdentityShape, Addresses, Empty
  <1>3. RequestShape
    BY BlankType DEF Init, RequestShape, Places
  <1> QED
    BY <1>1, <1>2, <1>3 DEF Shape

\* Every address that is bootstrapped is an address.
LEMMA StartShape ==
  ASSUME Shape, Start PROVE Shape'
  <1>1. \A i \in Missing : nextId + i - 1 \in Nat /\ Bootstrap[i] \in Emails
    BY AddressesAssumption DEF Missing, Shape, GrantsShape
  <1>2. \A g \in grants : [g EXCEPT !.role = IF g.email \in Range(Bootstrap) THEN "admin" ELSE @] \in Row
    BY DEF Shape, GrantsShape, Row, Roles
  <1>3. GrantsShape'
    <2>1. Len(Bootstrap) \in Nat
      BY AddressesAssumption
    <2>2. nextId' \in Nat
      BY <2>1 DEF Start, Shape, GrantsShape
    <2>3. \A i \in Missing : [id |-> nextId + i - 1, email |-> Bootstrap[i], role |-> "admin"] \in Row
      BY <1>1 DEF Row, Roles
    <2>4. grants' \subseteq Row
      BY <1>2, <2>3 DEF Start, Shape, GrantsShape
    <2> QED
      BY <2>2, <2>4 DEF GrantsShape
  <1>4. IdentityShape' /\ RequestShape'
    BY DEF Start, Shape, IdentityShape, RequestShape
  <1> QED
    BY <1>3, <1>4 DEF Shape

\* A request that is answered, or fails, keeps the shape of the others.
LEMMA AnswerShape ==
  ASSUME RequestShape, NEW r \in Requests, Answer(r) PROVE RequestShape'
  BY BlankType DEF RequestShape, Answer, Goto, Places

LEMMA FailShape ==
  ASSUME RequestShape, NEW r \in Requests, Fail(r), pc[r] # "idle" PROVE RequestShape'
  BY DEF RequestShape, Fail, Goto, Places

LEMMA GotoShape ==
  ASSUME RequestShape, NEW r \in Requests, NEW p \in Places, Goto(r, p), pc[r] # "idle", req' = req
  PROVE  RequestShape'
  BY DEF RequestShape, Goto

LEMMA EditedShape ==
  ASSUME RequestShape, NEW r \in Requests, Edited(r) PROVE RequestShape'
  BY BlankType DEF RequestShape, Edited, Goto, Places

LEMMA WriteShape ==
  ASSUME Shape, NEW r \in Requests, WriteGrant(r) PROVE Shape'
  <1> DEFINE op  == req[r].op
             row == RowOf(req[r].row.id)
  <1>1. pc[r] = "write" /\ UNCHANGED <<clock, clerk, ceased, cache>>
    BY DEF WriteGrant, Rest
  <1>2. op \in AllOps /\ row \in Row
    BY QueryType DEF Shape, RequestShape, Request
  <1>3. IdentityShape'
    BY <1>1 DEF Shape, IdentityShape
  <1>4. CASE op.kind = "put" /\ req[r].row # NoRow /\ row # NoRow
             /\ grants' = (grants \ {row}) \cup {[row EXCEPT !.role = op.role]}
             /\ Edited(r) /\ UNCHANGED nextId
    <2>1. op.role \in Roles
      BY <1>2, <1>4 DEF AllOps
    <2>2. [row EXCEPT !.role = op.role] \in Row
      BY <1>2, <2>1 DEF Row
    <2> QED
      BY <1>3, <1>4, <2>2, EditedShape DEF Shape, GrantsShape
  <1>5. CASE op.kind = "put" /\ req[r].row = NoRow /\ Grant(op.email) = NoRow
             /\ grants' = grants \cup {[id |-> nextId, email |-> op.email, role |-> op.role]}
             /\ nextId' = nextId + 1
             /\ Edited(r)
    <2>1. op.role \in Roles /\ op.email \in Emails
      BY <1>2, <1>5 DEF AllOps
    <2>2. [id |-> nextId, email |-> op.email, role |-> op.role] \in Row
      BY <2>1 DEF Row, Shape, GrantsShape
    <2> QED
      BY <1>3, <1>5, <2>2, EditedShape DEF Shape, GrantsShape
  <1>6. CASE Fail(r) /\ UNCHANGED <<grants, nextId>>
    BY <1>1, <1>3, <1>6, FailShape DEF Shape, GrantsShape
  <1>7. CASE grants' = grants \ {row} /\ Edited(r) /\ UNCHANGED nextId
    BY <1>3, <1>7, EditedShape DEF Shape, GrantsShape
  <1> QED
    BY <1>4, <1>5, <1>6, <1>7 DEF WriteGrant

\* Every other step of a request leaves the access list alone.
LEMMA HandleShape ==
  ASSUME Shape, NEW r \in Requests, Handle(r) PROVE Shape'
  <1>1. CASE Arrive(r)
    <2> PICK u \in Users, op \in Ops :
          /\ req' = [req EXCEPT ![r] = [user |-> u, op |-> op, t0 |-> clock, row |-> NoRow,
                                        email |-> IF Cached(u) THEN cache[u].email ELSE None]]
          /\ Goto(r, IF Cached(u) THEN "role" ELSE "fetch")
      BY <1>1 DEF Arrive
    <2>1. op \in AllOps
      BY DEF Ops, AllOps, Shape, GrantsShape
    <2>2. cache[u].email \in Addresses /\ None \in Addresses /\ clock \in Nat
      BY DEF Shape, IdentityShape, Addresses
    <2>3. [user |-> u, op |-> op, t0 |-> clock, row |-> NoRow,
           email |-> IF Cached(u) THEN cache[u].email ELSE None] \in Request
      BY <2>1, <2>2, NoRowType DEF Request
    <2>4. RequestShape'
      BY <2>3 DEF Shape, RequestShape, Goto, Places
    <2> QED
      BY <1>1, <2>4 DEF Arrive, Shape, GrantsShape, IdentityShape
  <1>2. CASE Fetch(r)
    <2>1. req[r].user \in Users /\ clerk[req[r].user] \in Addresses
      BY <1>2 DEF Fetch, Shape, RequestShape, IdentityShape
    <2>2. [req[r] EXCEPT !.email = clerk[req[r].user]] \in Request
      BY <2>1 DEF Shape, RequestShape, Request
    <2>3. \A q \in Requests : req'[q].user = req[q].user
      BY <1>2 DEF Fetch, Shape, RequestShape, Request
    <2>4. RequestShape'
      BY <1>2, <2>2, <2>3 DEF Fetch, Shape, RequestShape, Goto, Places
    <2> QED
      BY <1>2, <2>4 DEF Fetch, Rest, Shape, GrantsShape, IdentityShape
  <1>3. CASE FetchFails(r)
    BY <1>3, AnswerShape DEF FetchFails, Rest, Shape, GrantsShape, IdentityShape
  <1>4. CASE Store(r)
    <2>1. Lifetime(r) \in Nat /\ req[r].email \in Addresses
      BY LimitsAssumption DEF Lifetime, Shape, RequestShape, Request
    <2>2. cache' \in [Users -> [until : Nat, email : Addresses]]
      BY <1>4, <2>1 DEF Store, Shape, IdentityShape
    <2>3. RequestShape'
      BY <1>4, AnswerShape, GotoShape DEF Store, Shape, Places
    <2> QED
      BY <1>4, <2>2, <2>3 DEF Store, Rest, Shape, GrantsShape, IdentityShape
  <1>5. CASE Role(r)
    <2>1. RequestShape'
      BY <1>5, AnswerShape, GotoShape DEF Role, Shape, Places
    <2> QED
      BY <1>5, <2>1 DEF Role, Rest, Shape, GrantsShape, IdentityShape
  <1>6. CASE ReadGrant(r)
    <2>1. CASE Answer(r)
      BY <1>6, <2>1, AnswerShape DEF ReadGrant, Rest, Shape, GrantsShape, IdentityShape
    <2>2. CASE ~Answer(r)
      <3> PICK g \in Row : /\ req' = [req EXCEPT ![r].row = g]
                           /\ Goto(r, IF g.role = "admin" THEN "guard" ELSE "write")
        BY <1>6, <2>2, QueryType DEF ReadGrant, Shape
      <3>1. [req[r] EXCEPT !.row = g] \in Request
        BY DEF Shape, RequestShape, Request
      <3>2. \A q \in Requests : req'[q].user = req[q].user
        BY DEF Shape, RequestShape, Request
      <3>3. RequestShape'
        BY <1>6, <3>1, <3>2 DEF ReadGrant, Shape, RequestShape, Goto, Places
      <3> QED
        BY <1>6, <3>3 DEF ReadGrant, Rest, Shape, GrantsShape, IdentityShape
    <2> QED
      BY <2>1, <2>2
  <1>7. CASE Guard(r)
    <2>1. RequestShape'
      BY <1>7, AnswerShape, GotoShape DEF Guard, Shape, Places
    <2> QED
      BY <1>7, <2>1 DEF Guard, Rest, Shape, GrantsShape, IdentityShape
  <1>8. CASE WriteGrant(r)
    BY <1>8, WriteShape
  <1>9. CASE Member(r)
    <2>1. RequestShape'
      BY <1>9, AnswerShape, GotoShape DEF Member, Shape, Places
    <2> QED
      BY <1>9, <2>1 DEF Member, Rest, Shape, GrantsShape, IdentityShape
  <1>10. CASE Insert(r)
    <2>1. RequestShape'
      BY <1>10, GotoShape DEF Insert, Shape, Places
    <2> QED
      BY <1>10, <2>1 DEF Insert, Rest, Shape, GrantsShape, IdentityShape
  <1>11. CASE InsertFails(r)
    <2>1. RequestShape'
      BY <1>11, FailShape DEF InsertFails, Shape
    <2> QED
      BY <1>11, <2>1 DEF InsertFails, Rest, Shape, GrantsShape, IdentityShape
  <1>12. CASE Provision(r)
    BY <1>12, AnswerShape DEF Provision, Rest, Shape, GrantsShape, IdentityShape
  <1>13. CASE Reply500(r)
    BY <1>13, AnswerShape DEF Reply500, Rest, Shape, GrantsShape, IdentityShape
  <1> QED
    BY <1>1, <1>2, <1>3, <1>4, <1>5, <1>6, <1>7, <1>8, <1>9, <1>10, <1>11, <1>12, <1>13 DEF Handle

LEMMA ShapeStep == Shape /\ [Next]_vars => Shape'
  <1> SUFFICES ASSUME Shape, [Next]_vars PROVE Shape'
    OBVIOUS
  <1>1. CASE Start
    BY <1>1, StartShape
  <1>2. CASE Stop
    <2>1. RequestShape'
      BY <1>2, BlankType DEF Stop, RequestShape, Places
    <2>2. IdentityShape'
      BY <1>2 DEF Stop, Shape, IdentityShape, Empty, Addresses
    <2> QED
      BY <1>2, <2>1, <2>2 DEF Stop, Shape, GrantsShape
  <1>3. CASE Tick
    BY <1>3 DEF Tick, Shape, GrantsShape, IdentityShape, RequestShape
  <1>4. ASSUME NEW u \in Users, ChangeEmail(u) PROVE Shape'
    <2>1. clerk' \in [Users -> Addresses]
      BY <1>4 DEF ChangeEmail, Shape, IdentityShape, Addresses
    <2>2. ceased' \in [Users -> [Emails -> Int]]
      BY <1>4 DEF ChangeEmail, Shape, IdentityShape, Addresses
    <2> QED
      BY <1>4, <2>1, <2>2 DEF ChangeEmail, Shape, GrantsShape, IdentityShape, RequestShape
  <1>5. ASSUME NEW r \in Requests, Handle(r) PROVE Shape'
    BY <1>5, HandleShape
  <1>6. CASE UNCHANGED vars
    BY <1>6 DEF vars, Shape, GrantsShape, IdentityShape, RequestShape
  <1> QED
    BY <1>1, <1>2, <1>3, <1>4, <1>5, <1>6 DEF Next

-----------------------------------------------------------------------------
(* FreshIdentity.  What Clerk said at time t is the address of the user still, *)
(* or ceased to be at t or later; an entry of the cache, an answer on its way  *)
(* and a request past the lookup each carry such a time.                       *)

Known(u, e, t) == e = clerk[u] \/ ceased[u][e] >= t

CacheInv ==
  \A u \in Users :
    IF cache[u].email = None THEN cache[u].until = 0
    ELSE cache[u].until - TTL <= clock /\ Known(u, cache[u].email, cache[u].until - TTL)

LookupInv ==
  \A r \in Requests :
    /\ req[r].t0 <= clock
    /\ pc[r] = "fetched" /\ req[r].email # None => Known(req[r].user, req[r].email, req[r].t0)

Past == Places \ {"idle", "fetch", "fetched"}

ActsInv ==
  \A r \in Requests :
    pc[r] \in Past => req[r].email \in Emails /\ Known(req[r].user, req[r].email, req[r].t0 - TTL + 1)

IdentityInv == CacheInv /\ LookupInv /\ ActsInv

LEMMA IdentityInit == Init => IdentityInv
  BY LimitsAssumption
  DEF Init, IdentityInv, CacheInv, LookupInv, ActsInv, Known, Past, Places, Empty, Blank

LEMMA IdentityImplies == Shape /\ IdentityInv => FreshIdentity
  <1> SUFFICES ASSUME Shape, IdentityInv, NEW r \in Requests, pc[r] \in Past
               PROVE  \/ req[r].email = clerk[req[r].user]
                      \/ ceased[req[r].user][req[r].email] > req[r].t0 - TTL
    BY DEF FreshIdentity, Past
  <1>1. req[r].user \in Users /\ req[r].t0 \in Nat
    BY DEF Shape, RequestShape, Request, Past
  <1>2. req[r].email \in Emails /\ Known(req[r].user, req[r].email, req[r].t0 - TTL + 1)
    BY DEF IdentityInv, ActsInv
  <1>3. ceased[req[r].user][req[r].email] \in Int
    BY <1>1, <1>2 DEF Shape, IdentityShape
  <1> QED
    BY <1>1, <1>2, <1>3, LimitsAssumption DEF Known

\* A step that stays past the lookup, under the same user, address and time.
Onward(r) ==
  /\ UNCHANGED <<clock, clerk, ceased, cache>>
  /\ pc[r] \in Past
  /\ \E p \in Past : pc' = [pc EXCEPT ![r] = p]
  /\ \A q \in Requests :
       req'[q].user = req[q].user /\ req'[q].email = req[q].email /\ req'[q].t0 = req[q].t0

\* A step that ends the request.
Ending(r) ==
  /\ UNCHANGED <<clock, clerk, ceased, cache>>
  /\ pc' = [pc EXCEPT ![r] = "idle"]
  /\ req' = [req EXCEPT ![r] = Blank]

LEMMA OnwardKeeps ==
  ASSUME Shape, IdentityInv, NEW r \in Requests, Onward(r) PROVE IdentityInv'
  <1>1. CacheInv'
    BY DEF Onward, IdentityInv, CacheInv, Known
  <1>2. LookupInv'
    BY DEF Onward, IdentityInv, LookupInv, Known, Shape, RequestShape, Past
  <1>3. ActsInv'
    BY DEF Onward, IdentityInv, ActsInv, Known, Shape, RequestShape, Past
  <1> QED
    BY <1>1, <1>2, <1>3 DEF IdentityInv

LEMMA EndingKeeps ==
  ASSUME Shape, IdentityInv, NEW r \in Requests, Ending(r) PROVE IdentityInv'
  <1>1. CacheInv'
    BY DEF Ending, IdentityInv, CacheInv, Known
  <1>2. LookupInv'
    BY DEF Ending, IdentityInv, LookupInv, Known, Shape, RequestShape, IdentityShape, Blank
  <1>3. ActsInv'
    BY DEF Ending, IdentityInv, ActsInv, Known, Shape, RequestShape, Past
  <1> QED
    BY <1>1, <1>2, <1>3 DEF IdentityInv

\* Every step of a request but the lookup goes onward or ends it.
LEMMA OnwardOrEnding ==
  ASSUME Shape, NEW r \in Requests, Handle(r), ~Arrive(r), ~Fetch(r), ~Store(r)
  PROVE  Onward(r) \/ Ending(r)
  <1>1. CASE FetchFails(r) \/ Reply500(r) \/ Provision(r)
    BY <1>1 DEF FetchFails, Reply500, Provision, Answer, Goto, Ending, Rest
  <1>2. CASE Role(r)
    BY <1>2 DEF Role, Answer, Goto, Ending, Onward, Rest, Past, Places
  <1>3. CASE ReadGrant(r)
    <2>1. CASE Answer(r)
      BY <1>3, <2>1 DEF ReadGrant, Answer, Goto, Ending, Rest
    <2>2. CASE ~Answer(r)
      <3> PICK g : /\ req' = [req EXCEPT ![r].row = g]
                   /\ Goto(r, IF g.role = "admin" THEN "guard" ELSE "write")
        BY <1>3, <2>2 DEF ReadGrant
      <3>1. \A q \in Requests : /\ req'[q].user = req[q].user
                                /\ req'[q].email = req[q].email
                                /\ req'[q].t0 = req[q].t0
        BY DEF Shape, RequestShape, Request
      <3> QED
        BY <1>3, <3>1 DEF ReadGrant, Rest, Onward, Goto, Past, Places
    <2> QED
      BY <2>1, <2>2
  <1>4. CASE Guard(r)
    BY <1>4 DEF Guard, Answer, Goto, Ending, Onward, Rest, Past, Places
  <1>5. CASE WriteGrant(r)
    <2>1. Edited(r) \/ Fail(r)
      BY <1>5 DEF WriteGrant
    <2> QED
      BY <1>5, <2>1 DEF WriteGrant, Edited, Fail, Goto, Ending, Onward, Rest, Past, Places
  <1>6. CASE Member(r)
    BY <1>6 DEF Member, Answer, Goto, Ending, Onward, Rest, Past, Places
  <1>7. CASE Insert(r)
    BY <1>7 DEF Insert, Goto, Onward, Rest, Past, Places
  <1>8. CASE InsertFails(r)
    BY <1>8 DEF InsertFails, Fail, Goto, Onward, Rest, Past, Places
  <1> QED
    BY <1>1, <1>2, <1>3, <1>4, <1>5, <1>6, <1>7, <1>8 DEF Handle

\* A live cache entry is younger than TTL.
LEMMA ArriveIdentity ==
  ASSUME Shape, IdentityInv, NEW r \in Requests, Arrive(r) PROVE IdentityInv'
  <1> PICK u \in Users, op \in Ops :
        /\ req' = [req EXCEPT ![r] = [user |-> u, op |-> op, t0 |-> clock, row |-> NoRow,
                                      email |-> IF Cached(u) THEN cache[u].email ELSE None]]
        /\ Goto(r, IF Cached(u) THEN "role" ELSE "fetch")
    BY DEF Arrive
  <1>1. UNCHANGED <<clock, clerk, ceased, cache>> /\ clock \in Nat
    BY DEF Arrive, Shape, IdentityShape
  <1>2. CacheInv'
    BY <1>1 DEF IdentityInv, CacheInv, Known
  <1>3. LookupInv'
    BY <1>1 DEF IdentityInv, LookupInv, Known, Goto, Shape, RequestShape
  <1>4. ASSUME Cached(u)
        PROVE  cache[u].email \in Emails /\ Known(u, cache[u].email, clock - TTL + 1)
    <2>1. cache[u].until \in Int /\ cache[u].email \in Addresses
      BY DEF Shape, IdentityShape
    <2>2. cache[u].email # None
      BY <1>1, <1>4, <2>1 DEF Cached, IdentityInv, CacheInv
    <2>3. Known(u, cache[u].email, cache[u].until - TTL)
      BY <2>2 DEF IdentityInv, CacheInv
    <2>4. cache[u].email \in Emails /\ ceased[u][cache[u].email] \in Int
      BY <2>1, <2>2 DEF Addresses, Shape, IdentityShape
    <2> QED
      BY <1>1, <1>4, <2>1, <2>3, <2>4, LimitsAssumption DEF Known, Cached
  <1>5. ActsInv'
    BY <1>1, <1>4 DEF IdentityInv, ActsInv, Known, Goto, Shape, RequestShape, Past
  <1> QED
    BY <1>2, <1>3, <1>5 DEF IdentityInv

\* Clerk's answer is the address of the user at that time, after the arrival.
LEMMA FetchIdentity ==
  ASSUME Shape, IdentityInv, NEW r \in Requests, Fetch(r) PROVE IdentityInv'
  <1>1. UNCHANGED <<clock, clerk, ceased, cache>>
    BY DEF Fetch, Rest
  <1>2. /\ req'[r].user = req[r].user /\ req'[r].t0 = req[r].t0
        /\ req'[r].email = clerk[req[r].user]
        /\ \A q \in Requests \ {r} : req'[q] = req[q]
    BY DEF Fetch, Shape, RequestShape, Request
  <1>3. CacheInv'
    BY <1>1 DEF IdentityInv, CacheInv, Known
  <1>4. LookupInv'
    BY <1>1, <1>2 DEF Fetch, Goto, IdentityInv, LookupInv, Known, Shape, RequestShape
  <1>5. ActsInv'
    BY <1>1, <1>2 DEF Fetch, Goto, IdentityInv, ActsInv, Known, Shape, RequestShape, Past
  <1> QED
    BY <1>3, <1>4, <1>5 DEF IdentityInv

\* The entry's lifetime counts from the arrival: its answer is younger.
LEMMA StoreIdentity ==
  ASSUME Shape, IdentityInv, NEW r \in Requests, Store(r) PROVE IdentityInv'
  <1>1. CASE Answer(r) /\ UNCHANGED cache
    BY <1>1, EndingKeeps DEF Store, Rest, Answer, Goto, Ending
  <1>2. CASE /\ req[r].email # None
             /\ cache' = [cache EXCEPT ![req[r].user] = [until |-> Lifetime(r), email |-> req[r].email]]
             /\ Goto(r, "role") /\ UNCHANGED req
    <2>1. UNCHANGED <<clock, clerk, ceased>> /\ pc[r] = "fetched" /\ clock \in Nat
      BY DEF Store, Rest, Shape, IdentityShape
    <2>2. /\ req[r].user \in Users /\ req[r].t0 \in Nat /\ req[r].t0 <= clock
          /\ req[r].email \in Emails /\ Known(req[r].user, req[r].email, req[r].t0)
          /\ ceased[req[r].user][req[r].email] \in Int
      BY <1>2, <2>1 DEF Shape, RequestShape, IdentityShape, Request, Addresses, IdentityInv, LookupInv
    <2>3. Lifetime(r) - TTL = req[r].t0
      BY <2>2, LimitsAssumption DEF Lifetime
    <2>4. CacheInv'
      BY <1>2, <2>1, <2>2, <2>3, AddressesAssumption DEF IdentityInv, CacheInv, Known, Shape, IdentityShape
    <2>5. LookupInv'
      BY <1>2, <2>1 DEF Goto, IdentityInv, LookupInv, Known, Shape, RequestShape
    <2>6. Known(req[r].user, req[r].email, req[r].t0 - TTL + 1)
      BY <2>2, LimitsAssumption DEF Known
    <2>7. ActsInv'
      BY <1>2, <2>1, <2>2, <2>6 DEF Goto, IdentityInv, ActsInv, Known, Shape, RequestShape, Past
    <2> QED
      BY <2>4, <2>5, <2>7 DEF IdentityInv
  <1> QED
    BY <1>1, <1>2 DEF Store

\* An address that ceases now ceases no earlier than any time on record.
LEMMA ChangeIdentity ==
  ASSUME Shape, IdentityInv, NEW u \in Users, ChangeEmail(u) PROVE IdentityInv'
  <1>1. UNCHANGED <<clock, cache, pc, req>> /\ clock \in Nat
    BY DEF ChangeEmail, Shape, IdentityShape
  <1>2. ASSUME NEW v \in Users, NEW e \in Emails, NEW t \in Int, t <= clock, Known(v, e, t)
        PROVE  Known(v, e, t)'
    <2>1. CASE v = u /\ e = clerk[u]
      <3>1. ceased'[v][e] = clock
        BY <2>1, AddressesAssumption DEF ChangeEmail, Shape, IdentityShape
      <3> QED
        BY <1>1, <1>2, <3>1 DEF Known
    <2>2. CASE ~(v = u /\ e = clerk[u])
      <3>1. ceased'[v][e] = ceased[v][e]
        BY <2>2 DEF ChangeEmail, Shape, IdentityShape, Addresses
      <3>2. v # u => clerk'[v] = clerk[v]
        BY DEF ChangeEmail, Shape, IdentityShape
      <3> QED
        BY <1>2, <2>2, <3>1, <3>2 DEF Known
    <2> QED
      BY <2>1, <2>2
  <1>3. CacheInv'
    <2> SUFFICES ASSUME NEW v \in Users, cache[v].email # None
                 PROVE  cache[v].until - TTL <= clock /\ Known(v, cache[v].email, cache[v].until - TTL)'
      BY <1>1 DEF IdentityInv, CacheInv, Known
    <2>1. cache[v].until - TTL \in Int /\ cache[v].email \in Emails
      BY LimitsAssumption DEF Shape, IdentityShape, Addresses
    <2>2. cache[v].until - TTL <= clock /\ Known(v, cache[v].email, cache[v].until - TTL)
      BY DEF IdentityInv, CacheInv
    <2>3. \A e \in Emails, t \in Int : t <= clock /\ Known(v, e, t) => Known(v, e, t)'
      BY <1>2
    <2> QED
      BY <1>1, <2>1, <2>2, <2>3 DEF Known
  <1>4. LookupInv'
    <2> SUFFICES ASSUME NEW r \in Requests, pc[r] = "fetched", req[r].email # None
                 PROVE  Known(req[r].user, req[r].email, req[r].t0)'
      BY <1>1 DEF IdentityInv, LookupInv, Known
    <2>1. req[r].user \in Users /\ req[r].email \in Emails /\ req[r].t0 \in Int /\ req[r].t0 <= clock
      BY DEF Shape, RequestShape, Request, Addresses, IdentityInv, LookupInv
    <2>2. Known(req[r].user, req[r].email, req[r].t0)
      BY DEF IdentityInv, LookupInv
    <2> QED
      BY <1>1, <1>2, <2>1, <2>2 DEF Known
  <1>5. ActsInv'
    <2> SUFFICES ASSUME NEW r \in Requests, pc[r] \in Past
                 PROVE  req[r].email \in Emails /\ Known(req[r].user, req[r].email, req[r].t0 - TTL + 1)'
      BY <1>1 DEF ActsInv, Known
    <2>1. req[r].user \in Users /\ req[r].t0 \in Nat /\ req[r].t0 <= clock
      BY DEF Shape, RequestShape, Request, IdentityInv, LookupInv, Past
    <2>2. req[r].t0 - TTL + 1 \in Int /\ req[r].t0 - TTL + 1 <= clock
      BY <1>1, <2>1, LimitsAssumption
    <2>3. req[r].email \in Emails /\ Known(req[r].user, req[r].email, req[r].t0 - TTL + 1)
      BY DEF IdentityInv, ActsInv
    <2>4. \A e \in Emails, t \in Int :
            t <= clock /\ Known(req[r].user, e, t) => Known(req[r].user, e, t)'
      BY <1>1, <1>2, <2>1 DEF Known
    <2> QED
      BY <1>1, <2>2, <2>3, <2>4 DEF Known
  <1> QED
    BY <1>3, <1>4, <1>5 DEF IdentityInv

LEMMA IdentityStep == Shape /\ IdentityInv /\ [Next]_vars => IdentityInv'
  <1> SUFFICES ASSUME Shape, IdentityInv, [Next]_vars PROVE IdentityInv'
    OBVIOUS
  <1>1. CASE Start
    BY <1>1 DEF Start, IdentityInv, CacheInv, LookupInv, ActsInv, Known
  <1>2. CASE Stop
    BY <1>2 DEF Stop, Shape, IdentityShape, IdentityInv, CacheInv, LookupInv, ActsInv, Known,
                Past, Empty, Blank
  <1>3. CASE Tick
    <2>1. clock \in Nat /\ clock' = clock + 1 /\ UNCHANGED <<clerk, ceased, cache, pc, req>>
      BY <1>3 DEF Tick, Shape, IdentityShape
    <2>2. \A u \in Users : cache[u].until - TTL \in Int
      BY LimitsAssumption DEF Shape, IdentityShape
    <2>3. \A r \in Requests : req[r].t0 \in Nat
      BY DEF Shape, RequestShape, Request
    <2> QED
      BY <2>1, <2>2, <2>3 DEF IdentityInv, CacheInv, LookupInv, ActsInv, Known
  <1>4. ASSUME NEW u \in Users, ChangeEmail(u) PROVE IdentityInv'
    BY <1>4, ChangeIdentity
  <1>5. ASSUME NEW r \in Requests, Handle(r) PROVE IdentityInv'
    BY <1>5, ArriveIdentity, FetchIdentity, StoreIdentity, OnwardOrEnding, OnwardKeeps, EndingKeeps
  <1>6. CASE UNCHANGED vars
    BY <1>6 DEF vars, IdentityInv, CacheInv, LookupInv, ActsInv, Known
  <1> QED
    BY <1>1, <1>2, <1>3, <1>4, <1>5, <1>6 DEF Next

\* The address a request acts under is less than TTL old, whatever the order in
\* which lookups are answered and stored (access.py:133-150).
THEOREM IdentityIsFresh == Spec => []FreshIdentity
  <1>1. Init => Shape /\ IdentityInv
    BY ShapeInit, IdentityInit
  <1>2. Shape /\ IdentityInv /\ [Next]_vars => (Shape /\ IdentityInv)'
    BY ShapeStep, IdentityStep
  <1>3. Shape /\ IdentityInv => FreshIdentity
    BY IdentityImplies
  <1> QED
    BY <1>1, <1>2, <1>3, PTL DEF Spec

-----------------------------------------------------------------------------
(* OneWorkspace.  A slug is its owner's; an uncommitted slug is held by one    *)
(* request and belongs to no committed workspace.                              *)

PendingInv ==
  /\ flushed \in [Requests -> Users \cup {None}]
  /\ \A r \in Requests :
       flushed[r] = IF pc[r] = "commit" THEN req[r].user ELSE None
  /\ \A q, r \in Requests : flushed[q] = flushed[r] /\ flushed[r] # None => q = r
  /\ \A ws \in workspaces :
       /\ ws.slug = ws.owner /\ ws.owner \in Users
       /\ \A r \in Requests : flushed[r] # ws.slug

WorkspaceInv == PendingInv /\ OneWorkspace

\* Every step but the flush and the commit keeps the workspaces; the requests
\* that hold a slug keep it, or let go of it on their way out.
Aside(r) ==
  /\ UNCHANGED workspaces
  /\ pc[r] # "commit" /\ \E p \in Places \ {"commit"} : pc' = [pc EXCEPT ![r] = p]
  /\ flushed' = flushed \/ flushed' = Ended(r)
  /\ \A q \in Requests \ {r} : req'[q] = req[q]

LEMMA AsideKeeps ==
  ASSUME Shape, WorkspaceInv, NEW r \in Requests, Aside(r) PROVE WorkspaceInv'
  <1>1. flushed[r] = None
    BY DEF Aside, WorkspaceInv, PendingInv
  <1>2. flushed' = flushed
    BY <1>1 DEF Aside, Ended, WorkspaceInv, PendingInv
  <1>3. \A q \in Requests : (pc'[q] = "commit") = (pc[q] = "commit")
    BY DEF Aside, Shape, RequestShape
  <1> QED
    BY <1>1, <1>2, <1>3 DEF Aside, WorkspaceInv, PendingInv, OneWorkspace

LEMMA MostAside ==
  ASSUME Shape, NEW r \in Requests, Handle(r), ~Insert(r), ~Provision(r) PROVE Aside(r)
  <1>1. CASE Arrive(r)
    <2> PICK u \in Users, op \in Ops :
          /\ req' = [req EXCEPT ![r] = [user |-> u, op |-> op, t0 |-> clock, row |-> NoRow,
                                        email |-> IF Cached(u) THEN cache[u].email ELSE None]]
          /\ Goto(r, IF Cached(u) THEN "role" ELSE "fetch")
      BY <1>1 DEF Arrive
    <2> QED
      BY <1>1 DEF Arrive, Aside, Goto, Places, Shape, RequestShape
  <1>2. CASE Fetch(r)
    BY <1>2 DEF Fetch, Goto, Aside, Places, Shape, RequestShape
  <1>3. CASE FetchFails(r) \/ Reply500(r)
    BY <1>3 DEF FetchFails, Reply500, Answer, Goto, Aside, Places, Shape, RequestShape
  <1>4. CASE Store(r)
    BY <1>4 DEF Store, Answer, Goto, Aside, Places, Shape, RequestShape
  <1>5. CASE Role(r)
    BY <1>5 DEF Role, Answer, Goto, Aside, Places, Shape, RequestShape
  <1>6. CASE ReadGrant(r)
    <2>1. CASE Answer(r)
      BY <1>6, <2>1 DEF ReadGrant, Answer, Goto, Aside, Places, Shape, RequestShape
    <2>2. CASE ~Answer(r)
      <3> PICK g : /\ req' = [req EXCEPT ![r].row = g]
                   /\ Goto(r, IF g.role = "admin" THEN "guard" ELSE "write")
                   /\ UNCHANGED flushed
        BY <1>6, <2>2 DEF ReadGrant
      <3> QED
        BY <1>6 DEF ReadGrant, Goto, Aside, Places, Shape, RequestShape
    <2> QED
      BY <2>1, <2>2
  <1>7. CASE Guard(r)
    BY <1>7 DEF Guard, Answer, Goto, Aside, Places, Shape, RequestShape
  <1>8. CASE WriteGrant(r)
    <2>1. Edited(r) \/ Fail(r)
      BY <1>8 DEF WriteGrant
    <2> QED
      BY <1>8, <2>1 DEF WriteGrant, Edited, Fail, Goto, Aside, Places, Shape, RequestShape
  <1>9. CASE Member(r)
    BY <1>9 DEF Member, Answer, Goto, Aside, Places, Shape, RequestShape
  <1>10. CASE InsertFails(r)
    BY <1>10 DEF InsertFails, Fail, Goto, Aside, Places, Shape, RequestShape
  <1> QED
    BY <1>1, <1>2, <1>3, <1>4, <1>5, <1>6, <1>7, <1>8, <1>9, <1>10 DEF Handle

\* The unique slug admits one uncommitted row, and none beside a committed one.
LEMMA InsertKeeps ==
  ASSUME Shape, WorkspaceInv, NEW r \in Requests, Insert(r) PROVE WorkspaceInv'
  <1> DEFINE u == req[r].user
  <1>1. /\ u \in Users /\ u # None /\ pc[r] = "insert"
        /\ flushed' = [flushed EXCEPT ![r] = u] /\ pc' = [pc EXCEPT ![r] = "commit"]
        /\ UNCHANGED <<workspaces, req>>
    BY AddressesAssumption DEF Insert, Goto, Shape, RequestShape
  <1>2. \A q \in Requests : flushed[q] # u
    BY DEF Insert, SlugPending, Range, WorkspaceInv, PendingInv
  <1>3. \A ws \in workspaces : ws.slug # u
    BY DEF Insert, SlugTaken
  <1>4. PendingInv'
    BY <1>1, <1>2, <1>3 DEF WorkspaceInv, PendingInv, Shape, RequestShape
  <1> QED
    BY <1>1, <1>4 DEF WorkspaceInv, OneWorkspace

LEMMA ProvisionKeeps ==
  ASSUME Shape, WorkspaceInv, NEW r \in Requests, Provision(r) PROVE WorkspaceInv'
  <1> DEFINE ws == [id |-> Cardinality(workspaces) + 1, slug |-> flushed[r], owner |-> req[r].user]
  <1>1. /\ flushed[r] = req[r].user /\ req[r].user \in Users /\ req[r].user # None
        /\ pc[r] = "commit"
        /\ pc' = [pc EXCEPT ![r] = "idle"] /\ flushed' = [flushed EXCEPT ![r] = None]
        /\ req' = [req EXCEPT ![r] = Blank]
        /\ workspaces' = workspaces \cup {ws}
    BY AddressesAssumption
    DEF Provision, Answer, Goto, Ended, WorkspaceInv, PendingInv, Shape, RequestShape
  <1>2. ws.slug = req[r].user /\ ws.owner = req[r].user
    BY <1>1
  <1>3. \A w \in workspaces : w.slug = w.owner /\ w.slug # ws.slug
    BY <1>1, <1>2 DEF WorkspaceInv, PendingInv
  <1>4. OneWorkspace'
    BY <1>1, <1>2, <1>3 DEF WorkspaceInv, OneWorkspace
  <1>5. \A q \in Requests \ {r} : flushed[q] # ws.slug
    BY <1>1, <1>2 DEF WorkspaceInv, PendingInv
  <1>6. \A w \in workspaces' :
          /\ w.slug = w.owner /\ w.owner \in Users
          /\ \A q \in Requests : flushed'[q] # w.slug
    BY <1>1, <1>2, <1>3, <1>5, AddressesAssumption DEF WorkspaceInv, PendingInv
  <1>7. PendingInv'
    BY <1>1, <1>6 DEF WorkspaceInv, PendingInv, Shape, RequestShape
  <1> QED
    BY <1>4, <1>7 DEF WorkspaceInv

LEMMA WorkspaceStep == Shape /\ WorkspaceInv /\ [Next]_vars => WorkspaceInv'
  <1> SUFFICES ASSUME Shape, WorkspaceInv, [Next]_vars PROVE WorkspaceInv'
    OBVIOUS
  <1>1. CASE Start \/ Tick \/ UNCHANGED vars \/ \E u \in Users : ChangeEmail(u)
    <2>1. UNCHANGED <<workspaces, flushed, pc, req>>
      BY <1>1 DEF Start, Tick, ChangeEmail, vars
    <2> QED
      BY <2>1 DEF WorkspaceInv, PendingInv, OneWorkspace
  <1>2. CASE Stop
    BY <1>2, AddressesAssumption DEF Stop, WorkspaceInv, PendingInv, OneWorkspace
  <1>3. ASSUME NEW r \in Requests, Handle(r) PROVE WorkspaceInv'
    BY <1>3, MostAside, AsideKeeps, InsertKeeps, ProvisionKeeps
  <1> QED
    BY <1>1, <1>2, <1>3 DEF Next

\* However many first requests of a user run at once, and whenever the process
\* is restarted, the user owns one workspace and no slug is shared
\* (tenancy.py:63-92).
THEOREM OneEach == Spec => []OneWorkspace
  <1>1. Init => Shape /\ WorkspaceInv
    BY ShapeInit DEF Init, WorkspaceInv, PendingInv, OneWorkspace
  <1>2. Shape /\ WorkspaceInv /\ [Next]_vars => (Shape /\ WorkspaceInv)'
    BY ShapeStep, WorkspaceStep
  <1>3. WorkspaceInv => OneWorkspace
    BY DEF WorkspaceInv
  <1> QED
    BY <1>1, <1>2, <1>3, PTL DEF Spec

-----------------------------------------------------------------------------
(* TypeOK and LastAdminGuarded.  Ids and addresses are unique; and a form that *)
(* nothing has overtaken since its guard still finds the table as it was: the  *)
(* row of an admin is not the only one, a member's is as read.                 *)

Table ==
  /\ nextId \in Nat \ {0}
  /\ \A g \in grants : g.id \in 1..(nextId - 1) /\ g.email # None
  /\ \A g, h \in grants : (g.id = h.id \/ g.email = h.email) => g = h

Counters == {edits, changes} \subseteq Nat /\ up \in BOOLEAN /\ overtaken \in [Requests -> BOOLEAN]

IdleWhenDown == ~up => \A r \in Requests : pc[r] = "idle"

GuardedWrite(r) ==
  pc[r] = "write" /\ ~overtaken[r] =>
    IF req[r].row.role = "admin" THEN ~LastAdmin
    ELSE req[r].row = NoRow \/ req[r].row \in grants

Forms ==
  /\ \A r \in Requests : pc[r] = "guard" => req[r].row.role = "admin"
  /\ \A r \in Requests : GuardedWrite(r)

AccessInv == Table /\ Counters /\ IdleWhenDown /\ Forms

LEMMA AccessInit == Init => AccessInv
  <1> SUFFICES ASSUME Init PROVE AccessInv
    OBVIOUS
  <1>1. up \in BOOLEAN
    BY DEF Init
  <1>2. Counters
    BY <1>1 DEF Init, Counters
  <1> QED
    BY <1>2 DEF Init, AccessInv, Table, IdleWhenDown, Forms, GuardedWrite

LEMMA NoRowStored == ASSUME Table PROVE NoRow \notin grants
  BY DEF Table, NoRow

\* A query finds the row there is.
LEMMA GrantFinds ==
  ASSUME Table, NEW e \in Emails
  PROVE  IF Grant(e) = NoRow THEN \A g \in grants : g.email # e
         ELSE Grant(e) \in grants /\ Grant(e).email = e
  BY NoRowStored DEF Grant

LEMMA RowOfFinds ==
  ASSUME Table, NEW i
  PROVE  /\ RowOf(i) = NoRow \/ (RowOf(i) \in grants /\ RowOf(i).id = i)
         /\ \A g \in grants : g.id = i => RowOf(i) = g
  BY NoRowStored DEF RowOf, Table

\* One admin of several is not the last.
LEMMA NotTheLast == ASSUME ~LastAdmin, NEW g PROVE Admins \ {g} # {}
  <1> SUFFICES ASSUME Admins \subseteq {g} PROVE FALSE
    OBVIOUS
  <1>1. Admins = {} \/ Admins = {g}
    OBVIOUS
  <1>2. Cardinality({}) = 0 /\ Cardinality({g}) = 1
    BY FS_EmptySet, FS_Singleton
  <1> HIDE DEF Admins
  <1> QED
    BY <1>1, <1>2 DEF LastAdmin

\* The bootstrap adds rows for the addresses that have none.
LEMMA AccessStart == ASSUME Shape, AccessInv, Start PROVE AccessInv'
  <1> DEFINE raised(g) == [g EXCEPT !.role = IF g.email \in Range(Bootstrap) THEN "admin" ELSE @]
             added(i)  == [id |-> nextId + i - 1, email |-> Bootstrap[i], role |-> "admin"]
  <1>1. Len(Bootstrap) \in Nat /\ nextId \in Nat \ {0} /\ nextId' = nextId + Len(Bootstrap)
    BY AddressesAssumption DEF Start, AccessInv, Table
  <1>2. \A g \in grants : /\ raised(g).id = g.id /\ raised(g).email = g.email
                          /\ g.id \in 1..(nextId - 1) /\ g.email # None
    BY DEF Shape, GrantsShape, Row, AccessInv, Table
  <1>3. \A i \in Missing : /\ i \in 1..Len(Bootstrap) /\ Bootstrap[i] \in Emails /\ Bootstrap[i] # None
                           /\ \A g \in grants : g.email # Bootstrap[i]
    <2> SUFFICES ASSUME NEW i \in Missing
                 PROVE  /\ i \in 1..Len(Bootstrap) /\ Bootstrap[i] \in Emails /\ Bootstrap[i] # None
                        /\ \A g \in grants : g.email # Bootstrap[i]
      OBVIOUS
    <2>1. i \in 1..Len(Bootstrap) /\ Bootstrap[i] \in Emails
      BY AddressesAssumption DEF Missing
    <2> QED
      BY <2>1, GrantFinds, AddressesAssumption DEF Missing, AccessInv
  <1>4. \A i \in Missing : added(i).id = nextId + i - 1 /\ added(i).email = Bootstrap[i]
    OBVIOUS
  <1>5. Table'
    <2>1. CASE Doubled
      BY <1>1, <1>2, <2>1 DEF Start, AccessInv, Table
    <2>2. CASE ~Doubled
      <3>1. grants' = {raised(g) : g \in grants} \cup {added(i) : i \in Missing}
        BY <2>2 DEF Start
      <3>2. \A i, j \in Missing : Bootstrap[i] = Bootstrap[j] => i = j
        BY <2>2 DEF Doubled
      <3> HIDE DEF raised, added
      <3>3. ASSUME NEW g \in grants' PROVE g.id \in 1..(nextId' - 1) /\ g.email # None
        BY <1>1, <1>2, <1>3, <1>4, <3>1
      <3>4. ASSUME NEW g \in grants', NEW h \in grants', g.id = h.id \/ g.email = h.email PROVE g = h
        <4>1. CASE \E x \in grants, y \in grants : g = raised(x) /\ h = raised(y)
          BY <1>2, <3>4, <4>1 DEF AccessInv, Table
        <4>2. CASE \E i \in Missing, k \in Missing : g = added(i) /\ h = added(k)
          <5> PICK i \in Missing, k \in Missing : g = added(i) /\ h = added(k)
            BY <4>2
          <5>1. i \in Nat /\ k \in Nat
            BY <1>1, <1>3
          <5> QED
            BY <1>1, <1>4, <3>2, <3>4, <5>1
        <4>3. ASSUME NEW x \in grants, NEW i \in Missing PROVE raised(x).id # added(i).id /\ raised(x).email # added(i).email
          BY <1>1, <1>2, <1>3, <1>4
        <4> QED
          BY <3>1, <3>4, <4>1, <4>2, <4>3
      <3> QED
        BY <1>1, <3>3, <3>4 DEF Table
    <2> QED
      BY <2>1, <2>2
  <1>6. Counters' /\ IdleWhenDown' /\ \A r \in Requests : pc'[r] = "idle"
    BY DEF Start, AccessInv, Counters, IdleWhenDown
  <1> QED
    BY <1>5, <1>6 DEF AccessInv, Forms, GuardedWrite

\* A step that leaves the table, and the other requests, alone.
Beside(r) ==
  /\ UNCHANGED <<grants, nextId, up, changes>> /\ edits' \in Nat
  /\ pc[r] # "idle" \/ up
  /\ \A q \in Requests \ {r} : pc'[q] = pc[q] /\ req'[q] = req[q] /\ overtaken'[q] = overtaken[q]
  /\ overtaken' \in [Requests -> BOOLEAN]

LEMMA BesideKeeps ==
  ASSUME AccessInv, NEW r \in Requests, Beside(r),
         pc'[r] = "guard" => req'[r].row.role = "admin", GuardedWrite(r)'
  PROVE  AccessInv'
  <1>1. Table' /\ Counters' /\ IdleWhenDown'
    BY DEF AccessInv, Beside, Table, Counters, IdleWhenDown
  <1>2. Forms'
    BY DEF AccessInv, Beside, Forms, GuardedWrite, LastAdmin, Admins
  <1> QED
    BY <1>1, <1>2 DEF AccessInv

\* A step that takes the request anywhere but to a form's guard or write.
LEMMA ElsewhereKeeps ==
  ASSUME AccessInv, NEW r \in Requests, Beside(r), pc'[r] \notin {"guard", "write"}
  PROVE  AccessInv'
  BY BesideKeeps DEF GuardedWrite

LEMMA AccessElsewhere ==
  ASSUME Shape, AccessInv, NEW r \in Requests, Handle(r),
         ~ReadGrant(r), ~Guard(r), ~WriteGrant(r)
  PROVE  Beside(r) /\ pc'[r] \notin {"guard", "write"}
  <1> USE DEF Beside, Goto
  <1>0. edits \in Nat /\ overtaken \in [Requests -> BOOLEAN] /\ pc \in [Requests -> Places]
        /\ req \in [Requests -> Request]
    BY DEF AccessInv, Counters, Shape, RequestShape
  <1>1. CASE Arrive(r)
    <2>1. PICK u \in Users, op \in Ops :
            /\ edits' = IF op.kind = "page" THEN edits ELSE edits + 1
            /\ req' = [req EXCEPT ![r] = [user |-> u, op |-> op, t0 |-> clock, row |-> NoRow,
                                          email |-> IF Cached(u) THEN cache[u].email ELSE None]]
            /\ Goto(r, IF Cached(u) THEN "role" ELSE "fetch")
      BY <1>1 DEF Arrive
    <2>2. edits' \in Nat
      BY <1>0, <2>1
    <2> QED
      BY <1>0, <1>1, <2>1, <2>2 DEF Arrive
  <1>2. CASE Fetch(r)
    BY <1>0, <1>2 DEF Fetch, Rest
  <1>3. CASE FetchFails(r) \/ Reply500(r)
    BY <1>0, <1>3 DEF FetchFails, Reply500, Answer, Rest
  <1>4. CASE Store(r)
    BY <1>0, <1>4 DEF Store, Answer, Rest
  <1>5. CASE Role(r)
    BY <1>0, <1>5 DEF Role, Answer, Rest
  <1>6. CASE Member(r)
    BY <1>0, <1>6 DEF Member, Answer, Rest
  <1>7. CASE Insert(r)
    BY <1>0, <1>7 DEF Insert, Rest
  <1>8. CASE InsertFails(r)
    BY <1>0, <1>8 DEF InsertFails, Fail, Rest
  <1>9. CASE Provision(r)
    BY <1>0, <1>9 DEF Provision, Answer, Rest
  <1> QED
    BY <1>1, <1>2, <1>3, <1>4, <1>5, <1>6, <1>7, <1>8, <1>9 DEF Handle

\* The row is read: an admin's has to pass the guard, a member's is there.
LEMMA AccessRead == ASSUME Shape, AccessInv, NEW r \in Requests, ReadGrant(r) PROVE AccessInv'
  <1> DEFINE op == req[r].op
             g  == IF op.kind = "put" THEN Grant(op.email) ELSE RowOf(op.id)
  <1>0. edits \in Nat /\ overtaken \in [Requests -> BOOLEAN] /\ pc \in [Requests -> Places]
        /\ req \in [Requests -> Request] /\ pc[r] = "read"
        /\ UNCHANGED <<up, edits, changes, grants, nextId>>
    BY DEF AccessInv, Counters, Shape, RequestShape, ReadGrant, Rest
  <1>1. CASE Answer(r)
    <2>1. Beside(r) /\ pc'[r] = "idle"
      BY <1>0, <1>1 DEF Answer, Beside, Goto
    <2> QED
      BY <2>1, ElsewhereKeeps
  <1>2. CASE ~Answer(r)
    <2>1. /\ req' = [req EXCEPT ![r].row = g]
          /\ pc' = [pc EXCEPT ![r] = IF g.role = "admin" THEN "guard" ELSE "write"]
          /\ overtaken' = [overtaken EXCEPT ![r] = FALSE]
      BY <1>2 DEF ReadGrant, Goto
    <2>2. g = NoRow \/ g \in grants
      <3>1. CASE op.kind = "put"
        <4>1. op.email \in Emails
          BY <1>0, <3>1 DEF Request, AllOps
        <4> QED
          BY <3>1, <4>1, GrantFinds DEF AccessInv
      <3>2. CASE op.kind # "put"
        BY <3>2, RowOfFinds DEF AccessInv
      <3> QED
        BY <3>1, <3>2
    <2> HIDE DEF g
    <2>3. req'[r].row = g /\ pc'[r] = (IF g.role = "admin" THEN "guard" ELSE "write")
      BY <1>0, <2>1 DEF Request
    <2>4. Beside(r)
      BY <1>0, <2>1 DEF Beside
    <2>5. GuardedWrite(r)'
      BY <1>0, <2>2, <2>3 DEF GuardedWrite
    <2> QED
      BY <2>3, <2>4, <2>5, BesideKeeps
  <1> QED
    BY <1>1, <1>2

\* The guard counts more than one admin, and lets the write go on.
LEMMA AccessGuard == ASSUME Shape, AccessInv, NEW r \in Requests, Guard(r) PROVE AccessInv'
  <1>0. edits \in Nat /\ overtaken \in [Requests -> BOOLEAN] /\ pc \in [Requests -> Places]
        /\ pc[r] = "guard" /\ UNCHANGED <<up, edits, changes, grants, nextId>>
    BY DEF AccessInv, Counters, Shape, RequestShape, Guard, Rest
  <1>1. CASE LastAdmin /\ Answer(r)
    <2>1. Beside(r) /\ pc'[r] = "idle"
      BY <1>0, <1>1 DEF Answer, Beside, Goto
    <2> QED
      BY <2>1, ElsewhereKeeps
  <1>2. CASE ~LastAdmin /\ Goto(r, "write") /\ overtaken' = [overtaken EXCEPT ![r] = FALSE] /\ UNCHANGED req
    <2>1. Beside(r) /\ pc'[r] = "write"
      BY <1>0, <1>2 DEF Beside, Goto
    <2>2. req'[r].row.role = "admin"
      BY <1>0, <1>2 DEF AccessInv, Forms
    <2>3. ~LastAdmin'
      BY <1>0, <1>2 DEF LastAdmin, Admins
    <2>4. GuardedWrite(r)'
      BY <2>2, <2>3 DEF GuardedWrite
    <2> QED
      BY <2>1, <2>4, BesideKeeps
  <1> QED
    BY <1>1, <1>2 DEF Guard

\* After a commit the other forms in flight are overtaken.
LEMMA EditedKeeps ==
  ASSUME Shape, AccessInv, NEW r \in Requests, pc[r] = "write", Edited(r), Table',
         UNCHANGED <<up, edits, changes>>
  PROVE  AccessInv'
  <1>0. /\ overtaken' = [q \in Requests |-> q # r /\ pc[q] \in {"guard", "write"}]
        /\ pc' = [pc EXCEPT ![r] = "idle"] /\ req' = [req EXCEPT ![r] = Blank]
        /\ pc \in [Requests -> Places] /\ req \in [Requests -> Request]
    BY DEF Edited, Goto, Shape, RequestShape
  <1>1. Counters'
    BY <1>0 DEF AccessInv, Counters
  <1>2. IdleWhenDown'
    BY <1>0 DEF AccessInv, IdleWhenDown
  <1>3. ASSUME NEW q \in Requests
        PROVE  (pc'[q] = "guard" => req'[q].row.role = "admin") /\ ~(pc'[q] = "write" /\ ~overtaken'[q])
    <2>1. CASE q = r
      BY <1>0, <2>1
    <2>2. CASE q # r
      BY <1>0, <2>2 DEF AccessInv, Forms
    <2> QED
      BY <2>1, <2>2
  <1>4. Forms'
    BY <1>3 DEF Forms, GuardedWrite
  <1> QED
    BY <1>1, <1>2, <1>4 DEF AccessInv

\* A row is updated, added or deleted: ids and addresses stay unique.
LEMMA AccessWrite == ASSUME Shape, AccessInv, NEW r \in Requests, WriteGrant(r) PROVE AccessInv'
  <1> DEFINE op  == req[r].op
             row == RowOf(req[r].row.id)
  <1>0. /\ pc[r] = "write" /\ UNCHANGED <<up, edits, changes>>
        /\ nextId \in Nat \ {0} /\ grants \subseteq Row /\ op \in AllOps
        /\ edits \in Nat /\ overtaken \in [Requests -> BOOLEAN] /\ pc \in [Requests -> Places]
    BY DEF AccessInv, Table, Counters, Shape, RequestShape, GrantsShape, Request, WriteGrant, Rest
  <1>1. CASE op.kind = "put" /\ req[r].row # NoRow /\ row # NoRow
             /\ grants' = (grants \ {row}) \cup {[row EXCEPT !.role = op.role]}
             /\ Edited(r) /\ UNCHANGED nextId
    <2>1. row \in grants
      BY <1>1, RowOfFinds DEF AccessInv
    <2>2. [row EXCEPT !.role = op.role].id = row.id /\ [row EXCEPT !.role = op.role].email = row.email
      BY <1>0, <2>1 DEF Row
    <2> DEFINE new == [row EXCEPT !.role = op.role]
    <2> HIDE DEF row, new
    <2>3. grants' = (grants \ {row}) \cup {new} /\ new.id = row.id /\ new.email = row.email
      BY <1>1, <2>2 DEF new
    <2>4. \A g, h \in grants' : (g.id = h.id \/ g.email = h.email) => g = h
      BY <2>1, <2>3 DEF AccessInv, Table
    <2>5. \A g \in grants' : g.id \in 1..(nextId - 1) /\ g.email # None
      BY <2>1, <2>3 DEF AccessInv, Table
    <2>6. Table'
      BY <1>0, <1>1, <2>4, <2>5 DEF Table
    <2> QED
      BY <1>0, <1>1, <2>6, EditedKeeps
  <1>2. CASE op.kind = "put" /\ req[r].row = NoRow /\ Grant(op.email) = NoRow
             /\ grants' = grants \cup {[id |-> nextId, email |-> op.email, role |-> op.role]}
             /\ nextId' = nextId + 1
             /\ Edited(r)
    <2>1. op.email \in Emails /\ op.email # None
      BY <1>0, <1>2, AddressesAssumption DEF AllOps
    <2>2. \A g \in grants : g.email # op.email /\ g.id \in 1..(nextId - 1) /\ g.id # nextId
      BY <1>0, <1>2, <2>1, GrantFinds DEF AccessInv, Table
    <2>3. Table'
      BY <1>0, <1>2, <2>1, <2>2 DEF AccessInv, Table
    <2> QED
      BY <1>0, <1>2, <2>3, EditedKeeps
  <1>3. CASE Fail(r) /\ UNCHANGED <<grants, nextId>>
    <2>1. Beside(r) /\ pc'[r] = "error"
      BY <1>0, <1>3 DEF Fail, Goto, Beside
    <2> QED
      BY <2>1, ElsewhereKeeps
  <1>4. CASE grants' = grants \ {row} /\ Edited(r) /\ UNCHANGED nextId
    <2>1. Table'
      BY <1>4 DEF AccessInv, Table
    <2> QED
      BY <1>0, <1>4, <2>1, EditedKeeps
  <1> QED
    BY <1>1, <1>2, <1>3, <1>4 DEF WriteGrant

LEMMA AccessStep == Shape /\ AccessInv /\ [Next]_vars => AccessInv'
  <1> SUFFICES ASSUME Shape, AccessInv, [Next]_vars PROVE AccessInv'
    OBVIOUS
  <1>1. CASE Start
    BY <1>1, AccessStart
  <1>2. CASE Stop
    <2>1. up' \in BOOLEAN
      BY <1>2 DEF Stop
    <2>2. Counters'
      BY <1>2, <2>1 DEF Stop, AccessInv, Counters
    <2> QED
      BY <1>2, <2>2 DEF Stop, AccessInv, Table, IdleWhenDown, Forms, GuardedWrite
  <1>3. CASE Tick \/ UNCHANGED vars
    <2>1. UNCHANGED <<up, grants, nextId, pc, req, edits, changes, overtaken>>
      BY <1>3 DEF Tick, vars
    <2> QED
      BY <2>1 DEF AccessInv, Table, Counters, IdleWhenDown, Forms, GuardedWrite, LastAdmin, Admins
  <1>4. ASSUME NEW u \in Users, ChangeEmail(u) PROVE AccessInv'
    <2>1. changes' \in Nat /\ UNCHANGED <<up, grants, nextId, pc, req, edits, overtaken>>
      BY <1>4 DEF ChangeEmail, AccessInv, Counters
    <2> QED
      BY <2>1 DEF AccessInv, Table, Counters, IdleWhenDown, Forms, GuardedWrite, LastAdmin, Admins
  <1>5. ASSUME NEW r \in Requests, Handle(r) PROVE AccessInv'
    BY <1>5, AccessRead, AccessGuard, AccessWrite, AccessElsewhere, ElsewhereKeeps
  <1> QED
    BY <1>1, <1>2, <1>3, <1>4, <1>5 DEF Next

\* Whatever the requests, the bootstrap and Clerk do: grant ids and addresses
\* stay unique, and a slug is pending exactly between flush and commit
\* (access.py:165-209, web.py:1091-1145, tenancy.py:63-92).
THEOREM TypesAndTables == Spec => []TypeOK
  <1>1. Init => Shape /\ WorkspaceInv /\ AccessInv
    BY ShapeInit, AccessInit DEF Init, WorkspaceInv, PendingInv, OneWorkspace
  <1>2. Shape /\ WorkspaceInv /\ AccessInv /\ [Next]_vars => (Shape /\ WorkspaceInv /\ AccessInv)'
    BY ShapeStep, WorkspaceStep, AccessStep
  <1>3. Shape /\ WorkspaceInv /\ AccessInv => TypeOK
    <2> SUFFICES ASSUME Shape, WorkspaceInv, AccessInv PROVE TypeOK
      OBVIOUS
    <2>1. ASSUME NEW r \in Requests
          PROVE  /\ pc[r] \in Places
                 /\ req[r].email \in Emails \cup {None} /\ req[r].row \in Row /\ req[r].t0 \in Nat
                 /\ flushed[r] = IF pc[r] = "commit" THEN req[r].user ELSE None
                 /\ overtaken[r] \in BOOLEAN
      BY DEF Shape, RequestShape, Request, Addresses, WorkspaceInv, PendingInv, AccessInv, Counters
    <2> QED
      BY <2>1 DEF TypeOK, Shape, GrantsShape, IdentityShape, Addresses, AccessInv, Table, Counters
  <1> QED
    BY <1>1, <1>2, <1>3, PTL DEF Spec

\* A write that nothing has overtaken leaves an admin.
LEMMA WriteLeavesAnAdmin ==
  ASSUME Shape, AccessInv, NEW r \in Requests, WriteGrant(r), ~overtaken[r], Admins # {}
  PROVE  Admins' # {}
  <1> DEFINE row == RowOf(req[r].row.id)
  <1>0. pc[r] = "write" /\ GuardedWrite(r) /\ Table
    BY DEF WriteGrant, AccessInv, Forms
  <1>1. grants \ {row} \subseteq grants'
    BY DEF WriteGrant
  <1>2. Admins \ {row} # {}
    <2>1. CASE req[r].row.role = "admin"
      BY <1>0, <2>1, NotTheLast DEF GuardedWrite
    <2>2. CASE req[r].row = NoRow
      <3>1. \A g \in grants : g.id # 0
        BY <1>0 DEF Table
      <3>2. row \notin grants
        BY <1>0, <2>2, <3>1, NoRowStored, RowOfFinds DEF NoRow
      <3> QED
        BY <3>2 DEF Admins
    <2>3. CASE req[r].row.role # "admin" /\ req[r].row \in grants
      <3>1. row = req[r].row
        BY <1>0, <2>3, RowOfFinds
      <3> QED
        BY <2>3, <3>1 DEF Admins
    <2> QED
      BY <1>0, <2>1, <2>2, <2>3 DEF GuardedWrite
  <1> QED
    BY <1>1, <1>2 DEF Admins

\* No step but the write of a form that another form's commit has overtaken
\* takes the last admin away: not a sign-in, not a restart, not a form alone
\* (web.py:1091-1145, access.py:190-209).
THEOREM LastAdminIsGuarded == Spec => LastAdminGuarded
  <1> DEFINE Lost == Admins # {} /\ Admins' = {} => \E r \in Requests : pc[r] = "write" /\ overtaken[r]
  <1>1. Init => Shape /\ AccessInv
    BY ShapeInit, AccessInit
  <1>2. Shape /\ AccessInv /\ [Next]_vars => (Shape /\ AccessInv)'
    BY ShapeStep, AccessStep
  <1>3. ASSUME Shape, AccessInv, [Next]_vars PROVE [Lost]_vars
    <2> SUFFICES ASSUME Admins # {}, Admins' = {} PROVE \E r \in Requests : pc[r] = "write" /\ overtaken[r]
      OBVIOUS
    <2>1. grants' # grants
      BY DEF Admins
    <2>2. CASE Start
      <3>1. \A g \in Admins : /\ g \in grants
                             /\ [g EXCEPT !.role = IF g.email \in Range(Bootstrap) THEN "admin" ELSE @].role = "admin"
        BY <1>3 DEF Admins, Shape, GrantsShape, Row
      <3>2. \A g \in Admins : \E h \in grants' : h.role = "admin"
        BY <2>1, <2>2, <3>1 DEF Start
      <3> QED
        BY <3>2 DEF Admins
    <2>3. ASSUME NEW r \in Requests, Handle(r) PROVE \E q \in Requests : pc[q] = "write" /\ overtaken[q]
      <3>1. WriteGrant(r)
        BY <1>3, <2>1, <2>3, AccessElsewhere DEF Beside, ReadGrant, Guard
      <3>2. pc[r] = "write"
        BY <3>1 DEF WriteGrant
      <3>3. overtaken[r] = TRUE \/ overtaken[r] = FALSE
        BY <1>3 DEF AccessInv, Counters
      <3> QED
        BY <1>3, <3>1, <3>2, <3>3, WriteLeavesAnAdmin
    <2> QED
      BY <1>3, <2>1, <2>2, <2>3 DEF Next, Stop, Tick, ChangeEmail, vars
  <1> QED
    BY <1>1, <1>2, <1>3, PTL DEF Spec, LastAdminGuarded

\* With one request at a time the last admin stays: what docs/tenancy.md:117
\* promises fails by two requests that race, and by nothing else
\* (web.py:1109, 1137).
THEOREM AloneAnAdminRemains ==
  ASSUME \A q, r \in Requests : q = r
  PROVE  Spec => AnAdminRemains
  <1> DEFINE Fresh == \A r \in Requests : overtaken[r] = FALSE
             Guarded == Admins # {} /\ Admins' = {} => \E r \in Requests : pc[r] = "write" /\ overtaken[r]
             Remains == Admins # {} => Admins' # {}
  <1>1. Init => Fresh
    BY DEF Init
  <1>2. ASSUME Fresh, [Next]_vars PROVE Fresh'
    <2>1. CASE UNCHANGED overtaken
      BY <1>2, <2>1
    <2>2. CASE \E r \in Requests : Edited(r)
      BY <2>2 DEF Edited
    <2>3. CASE \E r \in Requests : overtaken' = [overtaken EXCEPT ![r] = FALSE]
      BY <1>2, <2>3
    <2>4. CASE overtaken' = [r \in Requests |-> FALSE]
      BY <2>4
    <2> QED
      BY ZenonT(60), <1>2, <2>1, <2>2, <2>3, <2>4
      DEF Next, Handle, vars, Start, Stop, Tick, ChangeEmail, Arrive, Fetch, FetchFails, Store, Role, ReadGrant,
          Guard, WriteGrant, Member, Insert, InsertFails, Provision, Reply500, Answer, Fail, Rest
  <1>3. Fresh /\ [Guarded]_vars => [Remains]_vars
    OBVIOUS
  <1>4. Spec => [][Guarded]_vars
    BY LastAdminIsGuarded DEF LastAdminGuarded
  <1> QED
    BY <1>1, <1>2, <1>3, <1>4, PTL DEF Spec, AnAdminRemains

=============================================================================
