---------------------------- MODULE InboundProofs ----------------------------
(***************************************************************************)
(* Proofs about Inbound, for every set of concurrent calls, phones and     *)
(* texts, every ceiling and any bounds.                                    *)
(***************************************************************************)
EXTENDS Inbound, SequenceTheorems, TLAPS

USE InboundAssumption

Keys == Buckets \X Windows
Texts == Bodies \cup {<<>>}

\* Where a call runs on the loop, is in the limiter, and may hold counters.
OnLoop   == {"prune", "phone", "global", "handle", "finish"}
Limiting == {"prune", "phone", "global"}
Locking  == {"phone", "global", "left", "closing"}

Calls == [phone : Phones \cup {None}, body : Texts, window : 0..clock, prune : SUBSET Keys,
          found : Nat]
Forms == [at : {"idle", "add", "remove"}, phone : Phones \cup {None}, id : Nat]

CountersOK ==
  /\ clock \in Windows
  /\ count \in [Keys -> Nat] /\ admitted \in [Keys -> Nat]
  /\ lock \in [Keys -> Requests \cup {None}]

ListOK ==
  /\ nextId \in Nat \ {0} /\ listed \in [Phones -> 0..(nextId - 1)]
  /\ rsvp \in [Phones -> {"pending", "confirmed", "declined"}]
  /\ stopped \subseteq Phones /\ latest \in [Phones -> Texts]

CallsOK ==
  /\ pc \in [Requests -> Places] /\ req \in [Requests -> Calls]
  /\ loop \in Requests \cup {None}
  /\ \A r \in Requests : pc[r] # "idle" => req[r].phone \in Phones

FormsOK ==
  /\ form \in [Admins -> Forms]
  /\ \A a \in Admins : form[a].at # "idle" => form[a].phone \in Phones

TypeInv == CountersOK /\ ListOK /\ CallsOK /\ FormsOK

\* A setup holds rows only while it has some to hold, and no row of another's.
Passes == [at : {"none", "texting", "raised", "closing"}, rows : SUBSET Phones]

PassOK ==
  /\ pass \in [Setups -> Passes]
  /\ \A s \in Setups : pass[s].at = "none" => pass[s].rows = {}
  /\ \A s, t \in Setups : s # t => pass[s].rows \cap pass[t].rows = {}

\* One call runs on the loop; a counter is held by a call in the limiter's hands.
LoopInv == \A r \in Requests : pc[r] \in OnLoop <=> loop = r
LockInv == \A k \in Keys, r \in Requests : lock[k] = r => pc[r] \in Locking

\* A counter that was deleted while it had let calls through.
Pruned(k) == count[k] = 0 /\ admitted[k] > 0

\* The stored count is what the window let through, or its row was deleted; then
\* the window is over, also for the call in the limiter, whose clock is older.
LimitInv ==
  /\ \A k \in Keys : admitted[k] <= Ceiling(k) /\ (count[k] = admitted[k] \/ count[k] = 0)
  /\ \A k \in Keys : Pruned(k) =>
       k[2] < clock /\ \A r \in Requests : pc[r] \in Limiting => k[2] < req[r].window
  /\ \A r \in Requests : pc[r] \in {"phone", "global"} =>
       \A k \in req[r].prune : k[2] < req[r].window
  /\ \A r \in Requests : pc[r] = "global" => ~Over(Mine(r))

\* What the phone's last text left in the tables.
LatestInv ==
  \A p \in Phones :
    /\ Intent(latest[p]) = "confirm" => rsvp[p] = "confirmed"
    /\ Intent(latest[p]) = "decline" => rsvp[p] = "declined"
    /\ Intent(latest[p]) = "opt_in" => listed[p] = 0
    /\ IsOptOut(latest[p]) => listed[p] > 0

Inv == TypeInv /\ LoopInv /\ LockInv /\ LimitInv /\ StopHolds /\ LatestInv

LEMMA TypeSplit == TypeInv /\ LoopInv /\ LockInv /\ PassOK => TypeOK
  <1> SUFFICES ASSUME TypeInv, LoopInv, LockInv, PassOK PROVE TypeOK
    OBVIOUS
  <1>1. \A r \in Requests : Held(r) # {} => pc[r] \in Locking
    BY DEF Held, LockInv, TypeInv, CountersOK
  <1> QED
    BY <1>1 DEF TypeOK, TypeInv, CountersOK, ListOK, CallsOK, LoopInv, OnLoop, Locking, Keys,
       PassOK, Passes

-----------------------------------------------------------------------------
(* Texts.                                                                  *)

LEMMA NoText == ~IsOptOut(<<>>) /\ Intent(<<>>) \notin {"confirm", "decline", "opt_in"}
  BY DEF IsOptOut, Intent, IsOptIn, First, Begins, AsksInfo, AsksDetail, OptOutWords, OptInWords,
         ConfirmWords, DeclineWords, InfoWords, DetailWords

LEMMA StopIsNoStart == ASSUME NEW b, IsOptOut(b) PROVE Intent(b) # "opt_in"
  <1>1. ~IsOptIn(b)
    BY DEF IsOptOut, IsOptIn, First, Begins, OptOutWords, OptInWords
  <1> QED
    BY <1>1 DEF Intent

LEMMA InvInit == Init => Inv
  <1> SUFFICES ASSUME Init PROVE Inv
    OBVIOUS
  <1>1. CountersOK
    BY DEF Init, CountersOK, Keys, Windows
  <1>2. ListOK
    BY DEF Init, ListOK, Texts
  <1>3. CallsOK
    BY DEF Init, CallsOK, Blank, Calls, Texts, Places
  <1>4. FormsOK
    BY DEF Init, FormsOK, NoForm, Forms
  <1>5. LoopInv /\ LockInv
    BY DEF Init, LoopInv, LockInv, OnLoop, Keys
  <1>6. LimitInv
    BY DEF Init, LimitInv, Pruned, Ceiling, Keys, Limiting
  <1>7. StopHolds /\ LatestInv
    BY NoText DEF Init, StopHolds, LatestInv
  <1> QED
    BY <1>1, <1>2, <1>3, <1>4, <1>5, <1>6, <1>7 DEF Inv, TypeInv

-----------------------------------------------------------------------------
(* The calls' places and locks.                                            *)

LEMMA BlankCall == ASSUME TypeInv PROVE Blank \in Calls
  BY DEF Blank, Calls, Texts, TypeInv, CountersOK, Windows

LEMMA Moved ==
  ASSUME CallsOK, NEW r \in Requests, NEW place \in Places, Goto(r, place)
  PROVE  /\ pc' \in [Requests -> Places]
         /\ \A q \in Requests : pc'[q] = IF q = r THEN place ELSE pc[q]
  BY DEF CallsOK, Goto

LEMMA FreedLocks ==
  ASSUME CountersOK, LockInv, NEW r \in Requests, lock' = Freed(r)
  PROVE  /\ lock' \in [Keys -> Requests \cup {None}]
         /\ \A k \in Keys, q \in Requests : lock'[k] = q => lock[k] = q /\ q # r
  BY DEF CountersOK, LockInv, Freed

LEMMA WrittenLocks ==
  ASSUME CountersOK, NEW r \in Requests, NEW K, Writes(r, K)
  PROVE  /\ lock' \in [Keys -> Requests \cup {None}]
         /\ \A k \in Keys, q \in Requests : lock'[k] = q => lock[k] = q \/ q = r
  BY DEF CountersOK, Writes

\* Nothing but the calls' places moves: no call gets into the limiter.
LEMMA LimitFrame ==
  ASSUME Inv, UNCHANGED <<clock, count, admitted>>,
         \A q \in Requests : pc'[q] \in Limiting => pc'[q] = pc[q] /\ req'[q] = req[q]
  PROVE  LimitInv'
  BY DEF Inv, LimitInv, Pruned, Over, Ceiling, Mine, Limiting

LEMMA ListFrame ==
  ASSUME Inv, UNCHANGED <<nextId, listed, rsvp, stopped, latest>>
  PROVE  ListOK' /\ StopHolds' /\ LatestInv'
  BY DEF Inv, TypeInv, ListOK, StopHolds, LatestInv

\* A step of call r keeps everything that is not its own.
LEMMA CallsFrame ==
  ASSUME Inv, NEW r \in Requests, NEW place \in Places, NEW c \in Calls, Goto(r, place),
         req' = [req EXCEPT ![r] = c], UNCHANGED clock, loop' \in Requests \cup {None},
         place # "idle" => c.phone \in Phones
  PROVE  CallsOK'
  <1>1. Calls' = Calls
    BY DEF Calls, Keys, Windows, Texts
  <1>2. pc' \in [Requests -> Places] /\ \A q \in Requests : pc'[q] = IF q = r THEN place ELSE pc[q]
    BY Moved DEF Inv, TypeInv
  <1>3. req' \in [Requests -> Calls]
    BY DEF Inv, TypeInv, CallsOK
  <1>4. \A q \in Requests : req'[q] = IF q = r THEN c ELSE req[q]
    BY DEF Inv, TypeInv, CallsOK
  <1> QED
    BY <1>1, <1>2, <1>3, <1>4 DEF Inv, TypeInv, CallsOK

LEMMA InvArrive == ASSUME Inv, NEW r \in Requests, Arrive(r) PROVE Inv'
  <1>1. PICK p \in Phones, b \in Bodies : req' = [req EXCEPT ![r] = [Blank EXCEPT !.phone = p, !.body = b]]
    BY DEF Arrive
  <1>2. /\ pc[r] = "idle" /\ Goto(r, "ready")
        /\ UNCHANGED <<clock, count, listed, nextId, rsvp, lock, loop, form, admitted, stopped, latest>>
    BY DEF Arrive, tables, history
  <1>3. [Blank EXCEPT !.phone = p, !.body = b] \in Calls /\ [Blank EXCEPT !.phone = p, !.body = b].phone = p
    BY BlankCall DEF Calls, Texts, Inv
  <1>4. CallsOK'
    BY ZenonT(60), <1>1, <1>2, <1>3, CallsFrame DEF Inv, TypeInv, CallsOK, Places
  <1>5. \A q \in Requests : pc'[q] = IF q = r THEN "ready" ELSE pc[q]
    BY <1>2, Moved DEF Places, Inv, TypeInv
  <1>6. \A q \in Requests : q # r => req'[q] = req[q]
    BY <1>1 DEF Inv, TypeInv, CallsOK
  <1>7. LimitInv'
    BY <1>2, <1>5, <1>6, LimitFrame DEF Limiting
  <1>8. LoopInv' /\ LockInv'
    BY <1>2, <1>5 DEF Inv, LoopInv, LockInv, OnLoop, Locking
  <1> QED
    BY <1>2, <1>4, <1>7, <1>8, ListFrame DEF Inv, TypeInv, CountersOK, FormsOK

LEMMA InvEnter == ASSUME Inv, NEW r \in Requests, Enter(r) PROVE Inv'
  <1>1. /\ pc[r] = "ready" /\ Goto(r, "prune") /\ loop = None /\ loop' = r
        /\ UNCHANGED <<clock, count, listed, nextId, rsvp, lock, form, admitted, stopped, latest>>
        /\ req' = [req EXCEPT ![r].window = clock]
    BY DEF Enter, tables, history
  <1>2. /\ req[r] \in Calls /\ req[r].phone \in Phones /\ clock \in 0..clock
    BY <1>1 DEF Inv, TypeInv, CallsOK, CountersOK, Windows
  <1>3. /\ [req[r] EXCEPT !.window = clock] \in Calls
        /\ [req[r] EXCEPT !.window = clock].phone = req[r].phone
    BY <1>2 DEF Calls
  <1>4. req' = [req EXCEPT ![r] = [req[r] EXCEPT !.window = clock]]
    BY <1>1
  <1>5. CallsOK'
    BY <1>1, <1>2, <1>3, <1>4, CallsFrame DEF Places
  <1>6. \A q \in Requests : pc'[q] = IF q = r THEN "prune" ELSE pc[q]
    BY <1>1, Moved DEF Places, Inv, TypeInv
  <1>7. req'[r].window = clock /\ \A q \in Requests : q # r => req'[q] = req[q]
    BY <1>1, <1>2 DEF Inv, TypeInv, CallsOK, Calls
  <1>8. LimitInv'
    BY <1>1, <1>6, <1>7 DEF Inv, LimitInv, Pruned, Over, Ceiling, Mine, Limiting
  <1>9. LoopInv' /\ LockInv'
    BY <1>1, <1>6 DEF Inv, LoopInv, LockInv, OnLoop, Locking
  <1> QED
    BY <1>1, <1>5, <1>8, <1>9, ListFrame DEF Inv, TypeInv, CountersOK, FormsOK

LEMMA InvPrune == ASSUME Inv, NEW r \in Requests, Prune(r) PROVE Inv'
  <1>1. /\ pc[r] = "prune" /\ Goto(r, "phone") /\ Writes(r, Old(r))
        /\ UNCHANGED <<clock, count, listed, nextId, rsvp, loop, form, admitted, stopped, latest>>
        /\ req' = [req EXCEPT ![r].prune = Old(r)]
    BY DEF Prune, tables, history
  <1>2. /\ req[r] \in Calls /\ req[r].phone \in Phones
        /\ Old(r) \in SUBSET Keys /\ \A k \in Old(r) : k[2] < req[r].window
    <2>1. req[r] \in Calls /\ req[r].phone \in Phones
      BY <1>1 DEF Inv, TypeInv, CallsOK
    <2>2. Old(r) \in SUBSET Keys
      BY DEF Old, Inv, TypeInv, CountersOK
    <2>3. req[r].window \in Nat
      BY <2>1 DEF Calls
    <2>4. \A k \in Keys : k[2] \in Nat
      BY DEF Keys, Windows
    <2> QED
      BY <2>1, <2>2, <2>3, <2>4 DEF Old
  <1>3. /\ [req[r] EXCEPT !.prune = Old(r)] \in Calls
        /\ [req[r] EXCEPT !.prune = Old(r)].phone = req[r].phone
    BY <1>2 DEF Calls
  <1>4. req' = [req EXCEPT ![r] = [req[r] EXCEPT !.prune = Old(r)]]
    BY <1>1
  <1>5. CallsOK'
    BY <1>1, <1>2, <1>3, <1>4, CallsFrame DEF Places, Inv, TypeInv, CallsOK
  <1>6. \A q \in Requests : pc'[q] = IF q = r THEN "phone" ELSE pc[q]
    BY <1>1, Moved DEF Places, Inv, TypeInv
  <1>7. /\ req'[r].window = req[r].window /\ req'[r].prune = Old(r)
        /\ \A q \in Requests : q # r => req'[q] = req[q]
    BY <1>1, <1>2 DEF Inv, TypeInv, CallsOK, Calls
  <1>8. LimitInv'
    BY <1>1, <1>2, <1>6, <1>7 DEF Inv, LimitInv, Pruned, Over, Ceiling, Mine, Limiting
  <1>9. LoopInv'
    BY <1>1, <1>6 DEF Inv, LoopInv, OnLoop
  <1>10. LockInv' /\ CountersOK'
    BY <1>1, <1>6, WrittenLocks DEF Inv, LockInv, Locking, TypeInv, CountersOK
  <1> QED
    BY <1>1, <1>5, <1>8, <1>9, <1>10, ListFrame DEF Inv, TypeInv, FormsOK

LEMMA InvCountPhone == ASSUME Inv, NEW r \in Requests, CountPhone(r) PROVE Inv'
  <1>1. /\ pc[r] = "phone" /\ Writes(r, {Mine(r)})
        /\ UNCHANGED <<clock, count, listed, nextId, rsvp, req, form, admitted, stopped, latest>>
        /\ \/ Goto(r, "left") /\ loop' = None
           \/ ~Over(Mine(r)) /\ Goto(r, "global") /\ UNCHANGED loop
    BY DEF CountPhone, Refused, tables, history
  <1>2. PICK place \in {"left", "global"} :
          /\ Goto(r, place)
          /\ place = "left" => loop' = None
          /\ place = "global" => loop' = loop /\ ~Over(Mine(r))
    BY <1>1
  <1>3. pc' \in [Requests -> Places] /\ \A q \in Requests : pc'[q] = IF q = r THEN place ELSE pc[q]
    BY <1>2, Moved DEF Places, Inv, TypeInv
  <1>4. CallsOK'
    BY <1>1, <1>2, <1>3 DEF Inv, TypeInv, CallsOK, Calls, Keys, Windows, Texts
  <1>5. LimitInv'
    BY <1>1, <1>2, <1>3 DEF Inv, LimitInv, Pruned, Over, Ceiling, Mine, Limiting
  <1>6. LoopInv'
    BY <1>1, <1>2, <1>3 DEF Inv, LoopInv, OnLoop, TypeInv, CallsOK
  <1>7. LockInv' /\ CountersOK'
    BY <1>1, <1>3, WrittenLocks DEF Inv, LockInv, Locking, TypeInv, CountersOK
  <1> QED
    BY <1>1, <1>4, <1>5, <1>6, <1>7, ListFrame DEF Inv, TypeInv, FormsOK

\* A counter of the call in the limiter was not deleted, and the last call that
\* it lets through is the ceiling's.
LEMMA MineStands ==
  ASSUME Inv, NEW r \in Requests, pc[r] = "global", ~Over(Global(r)),
         NEW k \in {Mine(r), Global(r)}
  PROVE  k \in Keys /\ count[k] = admitted[k] /\ count[k] + 1 <= Ceiling(k)
  <1>1. req[r].phone \in Phones /\ req[r] \in Calls /\ clock \in Windows
    BY DEF Inv, TypeInv, CallsOK, CountersOK
  <1>2. req[r].window \in Windows
    BY <1>1 DEF Calls, Windows
  <1>3. k \in Keys /\ k[2] = req[r].window
    BY <1>1, <1>2 DEF Mine, Global, Keys, Buckets
  <1>4. ~Pruned(k)
    <2>1. req[r].window \in Nat
      BY <1>2 DEF Windows
    <2> QED
      BY <1>3, <2>1 DEF Inv, LimitInv, Limiting
  <1>5. count[k] \in Nat /\ admitted[k] \in Nat
    BY <1>3 DEF Inv, TypeInv, CountersOK
  <1>6. count[k] = admitted[k]
    BY <1>3, <1>4, <1>5 DEF Inv, LimitInv, Pruned
  <1>7. ~Over(k)
    BY DEF Inv, LimitInv
  <1>8. Ceiling(k) \in Nat
    BY DEF Ceiling
  <1> QED
    BY <1>3, <1>5, <1>6, <1>7, <1>8 DEF Over

LEMMA InvAdmit ==
  ASSUME Inv, NEW r \in Requests, CountGlobal(r), ~Over(Global(r))
  PROVE  Inv'
  <1>1. /\ pc[r] = "global" /\ Goto(r, "handle") /\ UNCHANGED loop
        /\ UNCHANGED <<clock, listed, nextId, rsvp, req, form, stopped, latest>>
        /\ count' = Counted(r) /\ lock' = Freed(r)
        /\ admitted' = [k \in DOMAIN count |->
                          IF k \in {Mine(r), Global(r)} THEN admitted[k] + 1 ELSE admitted[k]]
    BY DEF CountGlobal
  <1>2. DOMAIN count = Keys
    BY DEF Inv, TypeInv, CountersOK
  <1>3. \A k \in Keys : IF k \in {Mine(r), Global(r)}
                        THEN count'[k] = count[k] + 1 /\ admitted'[k] = admitted[k] + 1
                        ELSE /\ count'[k] = IF k \in req[r].prune THEN 0 ELSE count[k]
                             /\ admitted'[k] = admitted[k]
    BY <1>1, <1>2 DEF Counted
  <1>4. CountersOK'
    <2>1. \A k \in Keys : count[k] \in Nat /\ admitted[k] \in Nat
      BY DEF Inv, TypeInv, CountersOK
    <2>2. count' \in [Keys -> Nat]
      BY <1>1, <1>2, <2>1 DEF Counted
    <2>3. admitted' \in [Keys -> Nat]
      BY <1>1, <1>2, <2>1
    <2> QED
      BY <1>1, <2>2, <2>3, FreedLocks DEF Inv, TypeInv, CountersOK
  <1>5. pc' \in [Requests -> Places] /\ \A q \in Requests : pc'[q] = IF q = r THEN "handle" ELSE pc[q]
    BY <1>1, Moved DEF Places, Inv, TypeInv
  <1>6. CallsOK'
    BY <1>1, <1>5 DEF Inv, TypeInv, CallsOK, Calls, Keys, Windows, Texts
  <1>7. LoopInv'
    BY <1>1, <1>5 DEF Inv, LoopInv, OnLoop
  <1>8. LockInv'
    BY <1>1, <1>5, FreedLocks DEF Inv, TypeInv, LockInv
  <1>9. \A q \in Requests : pc'[q] \notin Limiting
    BY <1>1, <1>5 DEF Inv, LoopInv, OnLoop, Limiting
  <1>10. ASSUME NEW k \in Keys
         PROVE  /\ admitted'[k] <= Ceiling(k)
                /\ count'[k] = admitted'[k] \/ count'[k] = 0
                /\ Pruned(k)' => k[2] < clock
    <2>1. CASE k \in {Mine(r), Global(r)}
      <3>1. count[k] = admitted[k] /\ count[k] + 1 <= Ceiling(k)
        BY <1>1, <2>1, MineStands
      <3>2. count[k] \in Nat
        BY DEF Inv, TypeInv, CountersOK
      <3>3. count'[k] = count[k] + 1 /\ admitted'[k] = admitted[k] + 1
        BY <1>3, <2>1
      <3> QED
        BY <3>1, <3>2, <3>3 DEF Pruned
    <2>2. CASE k \notin {Mine(r), Global(r)}
      <3>1. count'[k] = (IF k \in req[r].prune THEN 0 ELSE count[k]) /\ admitted'[k] = admitted[k]
        BY <1>3, <2>2
      <3>2. k \in req[r].prune => k[2] < clock
        <4>1. k \in req[r].prune => k[2] < req[r].window
          BY <1>1 DEF Inv, LimitInv
        <4>2. req[r].window \in 0..clock /\ clock \in Nat /\ k[2] \in Nat
          BY DEF Inv, TypeInv, CallsOK, Calls, CountersOK, Keys, Windows
        <4> QED
          BY <4>1, <4>2
      <3> QED
        BY <3>1, <3>2 DEF Inv, LimitInv, Pruned
    <2> QED
      BY <2>1, <2>2
  <1>11. LimitInv'
    BY <1>1, <1>9, <1>10 DEF LimitInv, Limiting, Ceiling
  <1> QED
    BY <1>1, <1>4, <1>6, <1>7, <1>8, <1>11, ListFrame DEF Inv, TypeInv, FormsOK

LEMMA InvCountGlobal == ASSUME Inv, NEW r \in Requests, CountGlobal(r) PROVE Inv'
  <1>1. CASE Over(Global(r))
    <2>1. /\ pc[r] = "global" /\ Writes(r, {Global(r)}) /\ Goto(r, "left") /\ loop' = None
          /\ UNCHANGED <<clock, count, admitted, listed, nextId, rsvp, req, form, stopped, latest>>
      BY <1>1 DEF CountGlobal, Refused
    <2>2. pc' \in [Requests -> Places] /\ \A q \in Requests : pc'[q] = IF q = r THEN "left" ELSE pc[q]
      BY <2>1, Moved DEF Places, Inv, TypeInv
    <2>3. CallsOK'
      BY <2>1, <2>2 DEF Inv, TypeInv, CallsOK, Calls, Keys, Windows, Texts
    <2>4. LimitInv'
      BY <2>1, <2>2, LimitFrame DEF Limiting
    <2>5. LoopInv'
      BY <2>1, <2>2 DEF Inv, LoopInv, OnLoop, TypeInv, CallsOK
    <2>6. LockInv' /\ CountersOK'
      BY <2>1, <2>2, WrittenLocks DEF Inv, LockInv, Locking, TypeInv, CountersOK
    <2> QED
      BY <2>1, <2>3, <2>4, <2>5, <2>6, ListFrame DEF Inv, TypeInv, FormsOK
  <1> QED
    BY <1>1, InvAdmit

-----------------------------------------------------------------------------
(* The handler.                                                            *)

LEMMA InvLookup == ASSUME Inv, NEW r \in Requests, Lookup(r) PROVE Inv'
  <1> DEFINE p == req[r].phone
  <1>1. /\ pc[r] = "handle" /\ Goto(r, "finish")
        /\ UNCHANGED <<clock, count, listed, nextId, rsvp, lock, loop, form, admitted, latest>>
        /\ req' = [req EXCEPT ![r].found = listed[req[r].phone]]
        /\ stopped' = IF IsOptOut(req[r].body) /\ listed[req[r].phone] > 0
                      THEN stopped \cup {req[r].phone} ELSE stopped
    BY DEF Lookup, tables
  <1>2. req[r] \in Calls /\ p \in Phones /\ listed[p] \in Nat
    <2>1. req[r] \in Calls /\ p \in Phones
      BY <1>1 DEF Inv, TypeInv, CallsOK
    <2> QED
      BY <2>1 DEF Inv, TypeInv, ListOK
  <1>3. /\ [req[r] EXCEPT !.found = listed[p]] \in Calls
        /\ [req[r] EXCEPT !.found = listed[p]].phone = p
    BY <1>2 DEF Calls
  <1>4. req' = [req EXCEPT ![r] = [req[r] EXCEPT !.found = listed[p]]]
    BY <1>1
  <1>5. CallsOK'
    BY <1>1, <1>2, <1>3, <1>4, CallsFrame DEF Places, Inv, TypeInv, CallsOK
  <1>6. \A q \in Requests : pc'[q] = IF q = r THEN "finish" ELSE pc[q]
    BY <1>1, Moved DEF Places, Inv, TypeInv
  <1>7. \A q \in Requests : q # r => req'[q] = req[q]
    BY <1>1 DEF Inv, TypeInv, CallsOK
  <1>8. LimitInv'
    BY <1>1, <1>6, <1>7, LimitFrame DEF Limiting
  <1>9. LoopInv' /\ LockInv'
    BY <1>1, <1>6 DEF Inv, LoopInv, LockInv, OnLoop, Locking
  <1>10. ListOK' /\ StopHolds' /\ LatestInv'
    BY <1>1, <1>2 DEF Inv, TypeInv, ListOK, StopHolds, LatestInv
  <1> QED
    BY <1>1, <1>5, <1>8, <1>9, <1>10 DEF Inv, TypeInv, CountersOK, FormsOK

\* The handler returns: what remains to be shown is about the list and the answer.
LEMMA InvReturned ==
  ASSUME Inv, NEW r \in Requests, pc[r] = "finish", Returned(r),
         ListOK', StopHolds', LatestInv'
  PROVE  Inv' /\ admitted' = admitted
  <1>1. /\ Goto(r, "left") /\ loop' = None
        /\ UNCHANGED <<clock, count, lock, req, form, admitted>>
    BY DEF Returned
  <1>2. pc' \in [Requests -> Places] /\ \A q \in Requests : pc'[q] = IF q = r THEN "left" ELSE pc[q]
    BY <1>1, Moved DEF Places, Inv, TypeInv
  <1>3. CallsOK'
    BY <1>1, <1>2 DEF Inv, TypeInv, CallsOK, Calls, Keys, Windows, Texts
  <1>4. LimitInv'
    BY <1>1, <1>2, LimitFrame DEF Limiting
  <1>5. LoopInv'
    BY <1>1, <1>2 DEF Inv, LoopInv, OnLoop, TypeInv, CallsOK
  <1>6. LockInv'
    BY <1>1, <1>2 DEF Inv, LockInv, Locking
  <1> QED
    BY <1>1, <1>3, <1>4, <1>5, <1>6 DEF Inv, TypeInv, CountersOK, FormsOK

LEMMA AnsweredType ==
  ASSUME ListOK, NEW p \in Phones, NEW b, rsvp' = Answered(p, b)
  PROVE  /\ rsvp' \in [Phones -> {"pending", "confirmed", "declined"}]
         /\ \A q \in Phones : q # p => rsvp'[q] = rsvp[q]
         /\ Intent(b) = "confirm" => rsvp'[p] = "confirmed"
         /\ Intent(b) = "decline" => rsvp'[p] = "declined"
         /\ Intent(b) \notin {"confirm", "decline"} => rsvp' = rsvp
  BY DEF ListOK, Answered

\* What the end of the handler leaves for the phone it served.
LEMMA LatestStep ==
  ASSUME Inv, NEW r \in Requests, NEW p \in Phones, p = req[r].phone, Processed(r),
         NEW b, b = req[r].body, rsvp' = Answered(p, b),
         \A q \in Phones : q # p => listed'[q] = listed[q],
         listed[p] = req[r].found =>
           (Intent(b) = "opt_in" => listed'[p] = 0) /\ (IsOptOut(b) => listed'[p] > 0)
  PROVE  LatestInv' /\ latest' \in [Phones -> Texts]
  <1>1. /\ latest' = [latest EXCEPT ![p] = IF listed[p] = req[r].found THEN b ELSE <<>>]
        /\ b \in Texts
    BY DEF Processed, Inv, TypeInv, CallsOK, Calls
  <1>2. latest' \in [Phones -> Texts]
    BY <1>1 DEF Inv, TypeInv, ListOK, Texts
  <1>3. \A q \in Phones : latest'[q] = IF q # p THEN latest[q]
                                       ELSE IF listed[p] = req[r].found THEN b ELSE <<>>
    BY <1>1 DEF Inv, TypeInv, ListOK
  <1>4. ASSUME NEW q \in Phones
        PROVE  /\ Intent(latest'[q]) = "confirm" => rsvp'[q] = "confirmed"
               /\ Intent(latest'[q]) = "decline" => rsvp'[q] = "declined"
               /\ Intent(latest'[q]) = "opt_in" => listed'[q] = 0
               /\ IsOptOut(latest'[q]) => listed'[q] > 0
    <2>1. CASE q # p
      <3>1. latest'[q] = latest[q] /\ rsvp'[q] = rsvp[q] /\ listed'[q] = listed[q]
        BY <1>3, <2>1, AnsweredType DEF Inv, TypeInv
      <3> QED
        BY <3>1 DEF Inv, LatestInv
    <2>2. CASE q = p /\ listed[p] # req[r].found
      BY <1>3, <2>2, NoText
    <2>3. CASE q = p /\ listed[p] = req[r].found
      BY <1>3, <2>3, AnsweredType DEF Inv, TypeInv
    <2> QED
      BY <2>1, <2>2, <2>3
  <1> QED
    BY <1>2, <1>4 DEF LatestInv

LEMMA InvFinishStop == ASSUME Inv, NEW r \in Requests, FinishStop(r) PROVE Inv'
  <1>1. PICK p \in Phones : p = req[r].phone
    BY DEF FinishStop, Inv, TypeInv, CallsOK
  <1>2. /\ pc[r] = "finish" /\ IsOptOut(req[r].body) /\ Processed(r) /\ Returned(r)
        /\ req[r].found > 0 \/ listed[p] = 0
        /\ listed' = IF req[r].found > 0 THEN listed ELSE [listed EXCEPT ![p] = nextId]
        /\ nextId' = IF req[r].found > 0 THEN nextId ELSE nextId + 1
        /\ stopped' = IF req[r].found > 0 THEN stopped ELSE stopped \cup {p}
        /\ rsvp' = Answered(p, req[r].body)
    BY <1>1 DEF FinishStop
  <1>3. nextId \in Nat \ {0} /\ listed \in [Phones -> 0..(nextId - 1)] /\ req[r].found \in Nat
    BY DEF Inv, TypeInv, ListOK, CallsOK, Calls
  <1>4. nextId' \in Nat \ {0} /\ listed' \in [Phones -> 0..(nextId' - 1)]
        /\ \A q \in Phones : listed'[q] = IF q = p /\ req[r].found = 0 THEN nextId ELSE listed[q]
    BY SMTT(60), <1>2, <1>3
  <1>5. Intent(req[r].body) # "opt_in"
    BY <1>2, StopIsNoStart
  <1>6. LatestInv' /\ latest' \in [Phones -> Texts]
    <2>1. listed[p] = req[r].found => listed'[p] > 0
      BY <1>3, <1>4
    <2>2. \A q \in Phones : q # p => listed'[q] = listed[q]
      BY <1>4
    <2> QED
      BY <1>1, <1>2, <1>5, <2>1, <2>2, LatestStep
  <1>7. StopHolds'
    BY <1>2, <1>3, <1>4 DEF Inv, StopHolds
  <1>8. ListOK'
    BY <1>1, <1>2, <1>4, <1>6, AnsweredType DEF Inv, TypeInv, ListOK
  <1> QED
    BY <1>2, <1>6, <1>7, <1>8, InvReturned

LEMMA InvStopFails == ASSUME Inv, NEW r \in Requests, StopFails(r) PROVE Inv'
  <1>1. PICK p \in Phones : p = req[r].phone
    BY DEF StopFails, Inv, TypeInv, CallsOK
  <1>2. /\ pc[r] = "finish" /\ Returned(r) /\ listed[p] > 0 /\ stopped' = stopped \cup {p}
        /\ UNCHANGED <<listed, nextId, rsvp, latest>>
    BY <1>1 DEF StopFails
  <1>3. ListOK' /\ StopHolds' /\ LatestInv'
    BY <1>2 DEF Inv, TypeInv, ListOK, StopHolds, LatestInv
  <1> QED
    BY <1>2, <1>3, InvReturned

LEMMA RemovedList ==
  ASSUME ListOK, NEW p \in Phones, NEW id \in Nat, listed' = Removed(p, id), UNCHANGED nextId
  PROVE  /\ listed' \in [Phones -> 0..(nextId' - 1)]
         /\ \A q \in Phones : listed'[q] = IF q = p /\ listed[p] = id THEN 0 ELSE listed[q]
  BY DEF ListOK, Removed

LEMMA InvFinishStart == ASSUME Inv, NEW r \in Requests, FinishStart(r) PROVE Inv'
  <1>1. PICK p \in Phones : p = req[r].phone
    BY DEF FinishStart, Inv, TypeInv, CallsOK
  <1>2. /\ pc[r] = "finish" /\ Intent(req[r].body) = "opt_in" /\ Processed(r) /\ Returned(r)
        /\ listed' = Removed(p, req[r].found)
        /\ stopped' = IF listed[p] = req[r].found THEN stopped \ {p} ELSE stopped
        /\ UNCHANGED <<nextId, rsvp>>
    BY <1>1 DEF FinishStart
  <1>3. req[r].found \in Nat
    BY DEF Inv, TypeInv, CallsOK, Calls
  <1>4. /\ listed' \in [Phones -> 0..(nextId' - 1)]
        /\ \A q \in Phones : listed'[q] = IF q = p /\ listed[p] = req[r].found THEN 0 ELSE listed[q]
    BY <1>2, <1>3, RemovedList DEF Inv, TypeInv
  <1>5. ~IsOptOut(req[r].body)
    BY <1>2, StopIsNoStart
  <1>6. rsvp' = Answered(p, req[r].body)
    BY <1>2 DEF Answered, Inv, TypeInv, ListOK
  <1>7. LatestInv' /\ latest' \in [Phones -> Texts]
    BY <1>1, <1>2, <1>4, <1>5, <1>6, LatestStep
  <1>8. StopHolds'
    BY <1>2, <1>4 DEF Inv, TypeInv, ListOK, StopHolds
  <1>9. ListOK'
    BY <1>2, <1>4, <1>7 DEF Inv, TypeInv, ListOK
  <1> QED
    BY <1>2, <1>7, <1>8, <1>9, InvReturned

LEMMA InvFinishReply == ASSUME Inv, NEW r \in Requests, FinishReply(r) PROVE Inv'
  <1>1. PICK p \in Phones : p = req[r].phone
    BY DEF FinishReply, Inv, TypeInv, CallsOK
  <1>2. /\ pc[r] = "finish" /\ Intent(req[r].body) # "opt_in" /\ ~IsOptOut(req[r].body)
        /\ Processed(r) /\ Returned(r) /\ rsvp' = Answered(p, req[r].body)
        /\ UNCHANGED <<listed, nextId, stopped>>
    BY <1>1 DEF FinishReply
  <1>3. LatestInv' /\ latest' \in [Phones -> Texts]
    BY <1>1, <1>2, LatestStep
  <1>4. ListOK'
    BY <1>2, <1>3, AnsweredType DEF Inv, TypeInv, ListOK
  <1>5. StopHolds'
    BY <1>2 DEF Inv, StopHolds
  <1> QED
    BY <1>2, <1>3, <1>4, <1>5, InvReturned

LEMMA InvHandOver == ASSUME Inv, NEW r \in Requests, HandOver(r) PROVE Inv'
  <1>1. /\ pc[r] = "left" /\ Goto(r, "closing")
        /\ UNCHANGED <<clock, count, listed, nextId, rsvp, lock, loop, req, form, admitted, stopped,
                       latest>>
    BY DEF HandOver, tables, history
  <1>2. pc' \in [Requests -> Places] /\ \A q \in Requests : pc'[q] = IF q = r THEN "closing" ELSE pc[q]
    BY <1>1, Moved DEF Places, Inv, TypeInv
  <1>3. CallsOK'
    BY <1>1, <1>2 DEF Inv, TypeInv, CallsOK, Calls, Keys, Windows, Texts
  <1>4. LimitInv'
    BY <1>1, <1>2, LimitFrame DEF Limiting
  <1>5. LoopInv' /\ LockInv'
    BY <1>1, <1>2 DEF Inv, LoopInv, LockInv, OnLoop, Locking
  <1> QED
    BY <1>1, <1>3, <1>4, <1>5, ListFrame DEF Inv, TypeInv, CountersOK, FormsOK

LEMMA InvCloseSession == ASSUME Inv, NEW r \in Requests, CloseSession(r) PROVE Inv'
  <1>1. /\ pc[r] = "closing" /\ Goto(r, "idle") /\ lock' = Freed(r)
        /\ req' = [req EXCEPT ![r] = Blank]
        /\ UNCHANGED <<clock, count, listed, nextId, rsvp, loop, form, admitted, stopped, latest>>
    BY DEF CloseSession, tables, history
  <1>2. CallsOK'
    BY <1>1, BlankCall, CallsFrame DEF Places, Inv, TypeInv, CallsOK
  <1>3. \A q \in Requests : pc'[q] = IF q = r THEN "idle" ELSE pc[q]
    BY <1>1, Moved DEF Places, Inv, TypeInv
  <1>4. \A q \in Requests : q # r => req'[q] = req[q]
    BY <1>1 DEF Inv, TypeInv, CallsOK
  <1>5. LimitInv'
    BY <1>1, <1>3, <1>4, LimitFrame DEF Limiting
  <1>6. LoopInv'
    BY <1>1, <1>3 DEF Inv, LoopInv, OnLoop
  <1>7. LockInv' /\ CountersOK'
    BY <1>1, <1>3, FreedLocks DEF Inv, TypeInv, CountersOK, LockInv
  <1> QED
    BY <1>1, <1>2, <1>5, <1>6, <1>7, ListFrame DEF Inv, TypeInv, FormsOK

-----------------------------------------------------------------------------
(* The admin's forms, the clock, the crash.                                *)

\* A step of a form: the calls and their counters stay.
LEMMA FormFrame ==
  ASSUME Inv, UNCHANGED <<clock, count, admitted, lock, loop, pc, req>>,
         ListOK', StopHolds', LatestInv', FormsOK'
  PROVE  Inv'
  <1>1. CallsOK' /\ CountersOK' /\ LoopInv' /\ LockInv'
    BY DEF Inv, TypeInv, CallsOK, CountersOK, Calls, Keys, Windows, Texts, LoopInv, LockInv
  <1> QED
    BY <1>1, LimitFrame DEF Inv, TypeInv

LEMMA FormStep ==
  ASSUME FormsOK, NEW a \in Admins, NEW f \in Forms, f.at # "idle" => f.phone \in Phones,
         form' = [form EXCEPT ![a] = f]
  PROVE  FormsOK'
  BY DEF FormsOK, Forms

LEMMA InvForms ==
  ASSUME Inv, NEW a \in Admins,
         Add(a) \/ Remove(a) \/ \E p \in Phones : AddLook(a, p) \/ RemoveLook(a, p)
  PROVE  Inv'
  <1>1. NoForm \in Forms /\ NoForm.at = "idle"
    BY DEF NoForm, Forms
  <1>2. ASSUME NEW p \in Phones, AddLook(a, p) \/ RemoveLook(a, p) PROVE Inv'
    <2>1. /\ UNCHANGED <<clock, count, admitted, lock, loop, pc, req, nextId, listed, rsvp, stopped,
                         latest>>
          /\ \/ form' = form
             \/ form' = [form EXCEPT ![a] = [at |-> "add", phone |-> p, id |-> 0]]
             \/ form' = [form EXCEPT ![a] = [at |-> "remove", phone |-> p, id |-> listed[p]]]
      BY <1>2 DEF AddLook, RemoveLook, tables, calls, history
    <2>2. listed[p] \in Nat
      BY DEF Inv, TypeInv, ListOK
    <2>3. /\ [at |-> "add", phone |-> p, id |-> 0] \in Forms
          /\ [at |-> "remove", phone |-> p, id |-> listed[p]] \in Forms
      BY <2>2 DEF Forms
    <2>4. FormsOK'
      <3>1. CASE form' = form
        BY <3>1 DEF Inv, TypeInv, FormsOK, Forms
      <3> QED
        BY <2>1, <2>3, <3>1, FormStep DEF Inv, TypeInv
    <2> QED
      BY <2>1, <2>4, ListFrame, FormFrame
  <1>3. CASE Add(a)
    <2>1. PICK p \in Phones : p = form[a].phone
      BY <1>3 DEF Add, Inv, TypeInv, FormsOK
    <2>2. /\ UNCHANGED <<clock, count, admitted, lock, loop, pc, req, rsvp, stopped>>
          /\ form' = [form EXCEPT ![a] = NoForm]
          /\ \/ /\ listed[p] = 0 /\ listed' = [listed EXCEPT ![p] = nextId] /\ nextId' = nextId + 1
                /\ latest' = [latest EXCEPT ![p] = <<>>]
             \/ UNCHANGED <<listed, nextId, latest>>
      BY <1>3, <2>1 DEF Add, calls
    <2>3. FormsOK'
      BY <1>1, <2>2, FormStep DEF Inv, TypeInv
    <2>4. ListOK'
      <3>1. nextId \in Nat \ {0} /\ listed \in [Phones -> 0..(nextId - 1)]
        BY DEF Inv, TypeInv, ListOK
      <3>2. nextId' \in Nat \ {0} /\ listed' \in [Phones -> 0..(nextId' - 1)]
        <4>1. CASE UNCHANGED <<listed, nextId>>
          BY <3>1, <4>1
        <4>2. CASE listed' = [listed EXCEPT ![p] = nextId] /\ nextId' = nextId + 1
          BY <3>1, <4>2
        <4> QED
          BY <2>2, <4>1, <4>2
      <3>3. latest' \in [Phones -> Texts]
        <4>1. latest \in [Phones -> Texts] /\ <<>> \in Texts
          BY DEF Inv, TypeInv, ListOK, Texts
        <4> QED
          BY <2>2, <4>1
      <3> QED
        BY <2>2, <3>2, <3>3 DEF Inv, TypeInv, ListOK
    <2>5. StopHolds'
      <3>1. nextId \in Nat \ {0} /\ listed \in [Phones -> 0..(nextId - 1)] /\ stopped \subseteq Phones
        BY DEF Inv, TypeInv, ListOK
      <3>2. \A q \in Phones : listed[q] > 0 => listed'[q] > 0
        <4>1. CASE UNCHANGED listed
          BY <4>1
        <4>2. CASE listed' = [listed EXCEPT ![p] = nextId]
          BY <3>1, <4>2
        <4> QED
          BY <2>2, <4>1, <4>2
      <3>3. stopped' = stopped /\ StopHolds
        BY <2>2 DEF Inv
      <3> QED
        BY <3>1, <3>2, <3>3 DEF StopHolds
    <2>6. LatestInv'
      BY <2>2, NoText DEF Inv, TypeInv, ListOK, LatestInv
    <2> QED
      BY <2>2, <2>3, <2>4, <2>5, <2>6, FormFrame
  <1>4. CASE Remove(a)
    <2>1. PICK p \in Phones : p = form[a].phone
      BY <1>4 DEF Remove, Inv, TypeInv, FormsOK
    <2>2. /\ UNCHANGED <<clock, count, admitted, lock, loop, pc, req, rsvp, nextId>>
          /\ form' = [form EXCEPT ![a] = NoForm]
          /\ listed' = Removed(p, form[a].id)
          /\ stopped' = IF listed[p] = form[a].id THEN stopped \ {p} ELSE stopped
          /\ latest' = [latest EXCEPT ![p] = <<>>]
      BY <1>4, <2>1 DEF Remove, calls
    <2>3. form[a].id \in Nat
      BY DEF Inv, TypeInv, FormsOK, Forms
    <2>4. /\ listed' \in [Phones -> 0..(nextId' - 1)]
          /\ \A q \in Phones : listed'[q] = IF q = p /\ listed[p] = form[a].id THEN 0 ELSE listed[q]
      BY <2>2, <2>3, RemovedList DEF Inv, TypeInv
    <2>5. FormsOK'
      BY <1>1, <2>2, FormStep DEF Inv, TypeInv
    <2>6. ListOK'
      BY <2>2, <2>4 DEF Inv, TypeInv, ListOK, Texts
    <2>7. StopHolds'
      BY <2>2, <2>4 DEF Inv, TypeInv, ListOK, StopHolds
    <2>8. LatestInv'
      BY <2>2, <2>4, NoText DEF Inv, TypeInv, ListOK, LatestInv
    <2> QED
      BY <2>2, <2>5, <2>6, <2>7, <2>8, FormFrame
  <1> QED
    BY <1>2, <1>3, <1>4

\* A setup: only its commit touches what the calls and the forms have.
LEMMA InvSetups ==
  ASSUME Inv, PassOK, NEW s \in Setups,
         FlushPass(s) \/ CommitPass(s) \/ RaisePass(s) \/ HandOverPass(s) \/ ClosePass(s)
  PROVE  Inv'
  <1>1. /\ UNCHANGED <<clock, count, admitted, lock, loop, pc, req, nextId, listed, stopped, form>>
        /\ UNCHANGED <<rsvp, latest>> \/ CommitPass(s)
    BY DEF FlushPass, CommitPass, RaisePass, HandOverPass, ClosePass, tables, calls, history
  <1>2. FormsOK'
    BY <1>1 DEF Inv, TypeInv, FormsOK, Forms
  <1>3. CASE UNCHANGED <<rsvp, latest>>
    BY <1>1, <1>2, <1>3, ListFrame, FormFrame
  <1>4. CASE CommitPass(s)
    <2>1. PICK status \in [pass[s].rows -> {"pending", "declined"}] :
            rsvp' = [p \in Phones |-> IF p \in pass[s].rows THEN status[p] ELSE rsvp[p]]
      BY <1>4 DEF CommitPass
    <2>2. latest' = [p \in Phones |-> IF p \in pass[s].rows THEN <<>> ELSE latest[p]]
      BY <1>4 DEF CommitPass
    <2>3. ListOK'
      BY <1>1, <2>1, <2>2 DEF Inv, TypeInv, ListOK, Texts
    <2>4. StopHolds'
      BY <1>1 DEF Inv, StopHolds
    <2>5. LatestInv'
      BY <1>1, <2>1, <2>2, NoText DEF Inv, LatestInv
    <2> QED
      BY <1>1, <1>2, <2>3, <2>4, <2>5, FormFrame
  <1> QED
    BY <1>1, <1>3, <1>4

\* A row is taken only while no setup has it.
LEMMA PassSteps ==
  ASSUME PassOK, NEW s \in Setups,
         FlushPass(s) \/ CommitPass(s) \/ RaisePass(s) \/ HandOverPass(s) \/ ClosePass(s)
  PROVE  PassOK'
  <1>1. CASE FlushPass(s)
    <2>1. PICK S \in SUBSET Phones :
            /\ \A p \in S : RowFree(p)
            /\ pass' = [pass EXCEPT ![s] = [at |-> "texting", rows |-> @.rows \cup S]]
      BY <1>1 DEF FlushPass
    <2>2. [at |-> "texting", rows |-> pass[s].rows \cup S] \in Passes
      BY DEF PassOK, Passes
    <2>3. /\ pass' \in [Setups -> Passes]
          /\ pass'[s].at = "texting" /\ pass'[s].rows = pass[s].rows \cup S
          /\ \A t \in Setups : t # s => pass'[t] = pass[t]
      BY <2>1, <2>2 DEF PassOK
    <2>4. \A t \in Setups : S \cap pass[t].rows = {}
      BY <2>1 DEF RowFree
    <2> QED
      BY <2>3, <2>4 DEF PassOK, Passes
  <1>2. CASE CommitPass(s) \/ ClosePass(s)
    <2>1. pass' = [pass EXCEPT ![s] = NoPass]
      BY <1>2 DEF CommitPass, ClosePass
    <2> QED
      BY <2>1 DEF PassOK, Passes, NoPass
  <1>3. CASE RaisePass(s) \/ HandOverPass(s)
    <2>1. PICK place \in {"raised", "closing"} : pass' = [pass EXCEPT ![s].at = place]
      BY <1>3 DEF RaisePass, HandOverPass
    <2>2. [pass[s] EXCEPT !.at = place] \in Passes
      BY DEF PassOK, Passes
    <2>3. /\ pass' \in [Setups -> Passes]
          /\ pass'[s].at = place /\ pass'[s].rows = pass[s].rows
          /\ \A t \in Setups : t # s => pass'[t] = pass[t]
      BY <2>1, <2>2 DEF PassOK, Passes
    <2> QED
      BY <2>3 DEF PassOK, Passes
  <1> QED
    BY <1>1, <1>2, <1>3

LEMMA InvTick == ASSUME Inv, Tick PROVE Inv'
  <1>1. /\ clock \in Nat /\ clock' = clock + 1 /\ clock' \in Windows
        /\ UNCHANGED <<count, admitted, lock, loop, pc, req, form, nextId, listed, rsvp, stopped, latest>>
    BY DEF Tick, tables, calls, history, Inv, TypeInv, CountersOK, Windows
  <1>2. 0..clock \subseteq 0..clock'
    BY <1>1
  <1>3. CallsOK'
    <2>1. Calls \subseteq Calls'
      BY <1>2 DEF Calls, Keys, Windows, Texts
    <2> QED
      BY <1>1, <2>1 DEF Inv, TypeInv, CallsOK
  <1>4. LimitInv'
    <2>1. \A k \in Keys : k[2] \in Nat
      BY DEF Keys, Windows
    <2> QED
      BY <1>1, <2>1 DEF Inv, LimitInv, Pruned, Over, Ceiling, Mine
  <1> QED
    BY <1>1, <1>3, <1>4, ListFrame DEF Inv, TypeInv, CountersOK, FormsOK, LoopInv, LockInv, Keys, Windows

LEMMA InvCrash == ASSUME Inv, Crash PROVE Inv'
  <1>1. /\ loop' = None /\ pc' = [r \in Requests |-> "idle"] /\ req' = [r \in Requests |-> Blank]
        /\ form' = [a \in Admins |-> NoForm] /\ lock' = [k \in DOMAIN lock |-> None]
        /\ UNCHANGED <<clock, count, admitted, nextId, listed, rsvp, stopped, latest>>
    BY DEF Crash, tables, history
  <1>2. CallsOK'
    <2>1. Calls' = Calls
      BY <1>1 DEF Calls, Keys, Windows, Texts
    <2> QED
      BY <1>1, <2>1, BlankCall DEF Inv, CallsOK, Places
  <1>3. FormsOK'
    BY <1>1 DEF FormsOK, NoForm, Forms
  <1>4. CountersOK' /\ LockInv'
    BY <1>1 DEF Inv, TypeInv, CountersOK, LockInv
  <1>5. LoopInv'
    BY <1>1 DEF LoopInv, OnLoop
  <1>6. LimitInv'
    BY <1>1, LimitFrame DEF Limiting
  <1> QED
    BY <1>1, <1>2, <1>3, <1>4, <1>5, <1>6, ListFrame DEF Inv, TypeInv

LEMMA InvNext == ASSUME Inv, PassOK, [Next]_vars PROVE Inv' /\ PassOK'
  <1>1. ASSUME UNCHANGED vars PROVE Inv'
    BY <1>1, ListFrame, FormFrame DEF vars, tables, calls, history, Inv, TypeInv, FormsOK, Forms
  <1>2. Inv'
    BY <1>1, InvArrive, InvEnter, InvPrune, InvCountPhone, InvCountGlobal, InvLookup, InvFinishStop,
       InvStopFails, InvFinishStart, InvFinishReply, InvHandOver, InvCloseSession, InvForms,
       InvSetups, InvTick, InvCrash
    DEF Next, Step
  <1>3. UNCHANGED pass => PassOK'
    BY DEF PassOK, Passes
  <1>4. Crash => PassOK'
    BY DEF Crash, PassOK, Passes, NoPass
  <1>5. \A r \in Requests : Arrive(r) \/ Step(r) => UNCHANGED pass
    BY DEF Step, Arrive, Enter, Prune, CountPhone, CountGlobal, Lookup, FinishStop, StopFails,
       FinishStart, FinishReply, Returned, HandOver, CloseSession
  <1>6. \A a \in Admins, p \in Phones :
          Add(a) \/ Remove(a) \/ AddLook(a, p) \/ RemoveLook(a, p) => UNCHANGED pass
    BY DEF Add, Remove, AddLook, RemoveLook
  <1>7. ASSUME NEW a \in Admins, Add(a) \/ Remove(a) PROVE UNCHANGED pass
    BY <1>7 DEF Add, Remove
  <1>8. Tick \/ UNCHANGED vars => UNCHANGED pass
    BY DEF Tick, vars
  <1> QED
    BY <1>2, <1>3, <1>4, <1>5, <1>6, <1>7, <1>8, PassSteps DEF Next

LEMMA PassInit == Init => PassOK
  BY DEF Init, PassOK, Passes, NoPass

\* The calls, the loop, the counters' locks and the list are of their types.
THEOREM TypeCorrect == Spec => []TypeOK
  <1>1. Inv /\ PassOK => TypeOK
    BY TypeSplit DEF Inv
  <1> QED
    BY <1>1, InvInit, InvNext, PassInit, PTL DEF Spec

\* No window lets more calls through than its ceiling, for any number of calls
\* at once, however rows are pruned and whoever crashes (webhooks.py:21-51).
THEOREM CeilingIsHeld == Spec => []CeilingHolds
  <1>1. ASSUME Inv PROVE CeilingHolds
    <2>1. \A k \in Keys : count[k] \in Nat
      BY <1>1 DEF Inv, TypeInv, CountersOK
    <2> QED
      BY <1>1, <2>1 DEF Inv, LimitInv, CeilingHolds, Keys
  <1> QED
    BY <1>1, InvInit, InvNext, PassInit, PTL DEF Spec

\* A phone that sent STOP stays listed until its START or an admin
\* (services.py:72-113, web.py:1030-1057).
THEOREM StopIsKept == Spec => []StopHolds
  <1>1. Inv => StopHolds
    BY DEF Inv
  <1> QED
    BY <1>1, InvInit, InvNext, PassInit, PTL DEF Spec

-----------------------------------------------------------------------------
(* A text twice.                                                           *)

\* A step of another call leaves a call where it is.
LEMMA Elsewhere ==
  ASSUME CallsOK, NEW r \in Requests, NEW q \in Requests, q # r, Arrive(q) \/ Step(q)
  PROVE  pc'[r] = pc[r]
  <1>1. CASE Arrive(q) \/ Enter(q) \/ Prune(q) \/ Lookup(q) \/ HandOver(q) \/ CloseSession(q)
    BY <1>1 DEF CallsOK, Arrive, Enter, Prune, Lookup, HandOver, CloseSession, Goto
  <1>2. CASE CountPhone(q) \/ CountGlobal(q)
    BY <1>2 DEF CallsOK, CountPhone, CountGlobal, Refused, Goto
  <1>3. CASE FinishStop(q) \/ StopFails(q) \/ FinishStart(q) \/ FinishReply(q)
    BY <1>3 DEF CallsOK, FinishStop, StopFails, FinishStart, FinishReply, Returned, Goto
  <1> QED
    BY <1>1, <1>2, <1>3 DEF Step

\* A call leaves "finish" by a return of the handler.
LEMMA Leaves ==
  ASSUME CallsOK, Next, NEW r \in Requests, pc[r] = "finish", pc'[r] = "left"
  PROVE  FinishStop(r) \/ StopFails(r) \/ FinishStart(r) \/ FinishReply(r)
  <1>1. ~ UNCHANGED pc /\ ~Crash
    BY DEF Crash, CallsOK
  <1>2. ~Tick
    BY <1>1 DEF Tick, calls
  <1>3. ~ \E a \in Admins : Add(a) \/ Remove(a) \/ \E p \in Phones : AddLook(a, p) \/ RemoveLook(a, p)
    BY <1>1 DEF Add, Remove, AddLook, RemoveLook, calls
  <1>4. \A s \in Setups : ~ (FlushPass(s) \/ CommitPass(s) \/ RaisePass(s) \/ HandOverPass(s) \/ ClosePass(s))
    BY <1>1 DEF FlushPass, CommitPass, RaisePass, HandOverPass, ClosePass, calls
  <1>5. Arrive(r) \/ Step(r)
    BY <1>1, <1>2, <1>3, <1>4, Elsewhere DEF Next
  <1>6. ~Arrive(r) /\ ~Enter(r) /\ ~Prune(r) /\ ~CountPhone(r) /\ ~CountGlobal(r) /\ ~Lookup(r)
    BY DEF Arrive, Enter, Prune, CountPhone, CountGlobal, Lookup
  <1>7. ~HandOver(r) /\ ~CloseSession(r)
    BY DEF HandOver, CloseSession
  <1> QED
    BY <1>5, <1>6, <1>7 DEF Step

\* The answer that stands already is not changed by giving it again.
LEMMA AnsweredAgain ==
  ASSUME ListOK, LatestInv, NEW p \in Phones, NEW b, latest[p] = b, rsvp' = Answered(p, b)
  PROVE  rsvp' = rsvp
  <1>1. Intent(b) = "confirm" => rsvp[p] = "confirmed"
    BY DEF LatestInv
  <1>2. Intent(b) = "decline" => rsvp[p] = "declined"
    BY DEF LatestInv
  <1>3. rsvp' = [rsvp EXCEPT ![p] = rsvp[p]]
    BY <1>1, <1>2 DEF Answered
  <1> QED
    BY <1>3 DEF ListOK

\* A text that is delivered again changes nothing (webhooks.py:106).
THEOREM RetryIsHarmless == Spec => RetryHarmless
  <1> DEFINE Again(r) == pc[r] = "finish" /\ pc'[r] = "left" /\ latest[req[r].phone] = req[r].body
             Harmless == \A r \in Requests : Again(r) => rsvp' = rsvp /\ listed' = listed
  <1>1. ASSUME Inv, Next PROVE Harmless
    <2> SUFFICES ASSUME NEW r \in Requests, Again(r) PROVE rsvp' = rsvp /\ listed' = listed
      OBVIOUS
    <2>1. PICK p \in Phones : p = req[r].phone
      BY <1>1 DEF Inv, TypeInv, CallsOK
    <2>2. latest[p] = req[r].body /\ req[r].found \in Nat /\ listed \in [Phones -> Nat]
      BY <1>1, <2>1 DEF Inv, TypeInv, CallsOK, Calls, ListOK
    <2>3. CASE FinishStop(r)
      <3>1. listed[p] > 0
        BY <1>1, <2>2, <2>3 DEF FinishStop, Inv, LatestInv
      <3>2. listed' = listed
        BY <2>1, <2>2, <2>3, <3>1 DEF FinishStop
      <3>3. rsvp' = Answered(p, req[r].body)
        BY <2>1, <2>3 DEF FinishStop
      <3> QED
        BY <1>1, <2>2, <3>2, <3>3, AnsweredAgain DEF Inv, TypeInv
    <2>4. CASE StopFails(r)
      BY <2>4 DEF StopFails
    <2>5. CASE FinishStart(r)
      <3>1. listed[p] = 0 /\ rsvp' = rsvp
        BY <1>1, <2>2, <2>5 DEF FinishStart, Inv, LatestInv
      <3>2. listed' = Removed(p, req[r].found)
        BY <2>1, <2>5 DEF FinishStart
      <3> QED
        BY <2>2, <3>1, <3>2 DEF Removed
    <2>6. CASE FinishReply(r)
      <3>1. rsvp' = Answered(p, req[r].body) /\ listed' = listed
        BY <2>1, <2>6 DEF FinishReply
      <3> QED
        BY <1>1, <2>2, <3>1, AnsweredAgain DEF Inv, TypeInv
    <2> QED
      BY <1>1, <2>3, <2>4, <2>5, <2>6, Leaves DEF Inv, TypeInv
  <1>2. ASSUME Inv, [Next]_vars PROVE [Harmless]_vars
    BY <1>1, <1>2
  <1> QED
    BY <1>2, InvInit, InvNext, PassInit, PTL DEF Spec, RetryHarmless

-----------------------------------------------------------------------------
(* What a text means, for every sequence of words.                         *)

Intents == {"opt_in", "info2", "info", "confirm", "decline"}

\* The documented phrases of one word, and of two.
Word(i) ==
  CASE i = "opt_in" -> {"start", "unstop", "yesstart", "optin"}
    [] i = "info2" -> {"moreinfo", "info2"}
    [] i = "info" -> {"info"}
    [] i = "confirm" -> {"confirm", "yes", "y", "in", "attending", "coming"}
    [] i = "decline" -> {"no", "n", "decline", "can't", "cant", "out", "nope", "stop",
                         "stopall", "unsubscribe", "cancel", "end", "quit", "stopforever"}

Pair(i, v, w) ==
  \/ i = "opt_in" /\ ((v = "opt" /\ w = "in") \/ (v = "start" /\ w = "forever"))
  \/ i = "info2" /\ ((v = "more" /\ w = "info") \/ (v = "info" /\ w \in DetailWords))
  \/ i = "decline" /\ v = "stop" /\ w \in {"forever", "all"}

LEMMA BeginsWithOne ==
  ASSUME NEW W, NEW b \in Seq(W), NEW v
  PROVE  BeginsWith(b, <<v>>) <=> Len(b) >= 1 /\ b[1] = v
  <1>1. Len(<<v>>) = 1 /\ <<v>>[1] = v
    OBVIOUS
  <1>2. ASSUME Len(b) >= 1 PROVE SubSeq(b, 1, 1) = <<b[1]>>
    <2>1. \A i \in 1..1 : b[i] \in W
      BY <1>2
    <2>2. /\ SubSeq(b, 1, 1) \in Seq(W) /\ Len(SubSeq(b, 1, 1)) = 1
          /\ SubSeq(b, 1, 1)[1] = b[1]
      BY <2>1, SubSeqProperties
    <2>3. <<b[1]>> \in Seq(W) /\ Len(<<b[1]>>) = 1 /\ <<b[1]>>[1] = b[1]
      BY <2>1
    <2>4. \A i \in 1..Len(SubSeq(b, 1, 1)) : i = 1
      BY <2>2
    <2> QED
      BY <2>2, <2>3, <2>4, SeqEqual
  <1> QED
    BY <1>1, <1>2 DEF BeginsWith

LEMMA BeginsWithTwo ==
  ASSUME NEW W, NEW b \in Seq(W), NEW v, NEW w
  PROVE  BeginsWith(b, <<v, w>>) <=> Len(b) >= 2 /\ b[1] = v /\ b[2] = w
  <1>1. Len(<<v, w>>) = 2 /\ <<v, w>>[1] = v /\ <<v, w>>[2] = w
    OBVIOUS
  <1>2. ASSUME Len(b) >= 2 PROVE SubSeq(b, 1, 2) = <<b[1], b[2]>>
    <2>1. \A i \in 1..2 : b[i] \in W
      BY <1>2
    <2>2. /\ SubSeq(b, 1, 2) \in Seq(W) /\ Len(SubSeq(b, 1, 2)) = 2
          /\ SubSeq(b, 1, 2)[1] = b[1] /\ SubSeq(b, 1, 2)[2] = b[2]
      BY <2>1, SubSeqProperties
    <2>3. /\ <<b[1], b[2]>> \in Seq(W) /\ Len(<<b[1], b[2]>>) = 2
          /\ <<b[1], b[2]>>[1] = b[1] /\ <<b[1], b[2]>>[2] = b[2]
      BY <2>1
    <2>4. \A i \in 1..Len(SubSeq(b, 1, 2)) : i = 1 \/ i = 2
      BY <2>2
    <2> QED
      BY <2>2, <2>3, <2>4, SeqEqual
  <1> QED
    BY <1>1, <1>2 DEF BeginsWith

LEMMA PhraseNames == DOMAIN Phrases = Intents
  BY DEF Phrases, Intents

LEMMA PhraseSets ==
  ASSUME NEW i \in Intents, NEW p
  PROVE  p \in Phrases[i] <=> \/ \E v \in Word(i) : p = <<v>>
                              \/ \E v, w : p = <<v, w>> /\ Pair(i, v, w)
  <1>1. CASE i = "opt_in"
    <2>1. p \in Phrases[i] <=> \/ p \in {<<"start">>, <<"unstop">>, <<"yesstart">>, <<"optin">>}
                              \/ p \in {<<"opt", "in">>, <<"start", "forever">>}
      BY <1>1 DEF Phrases
    <2>2. p \in {<<"start">>, <<"unstop">>, <<"yesstart">>, <<"optin">>} <=> \E v \in Word(i) : p = <<v>>
      BY <1>1 DEF Word
    <2>3. p \in {<<"opt", "in">>, <<"start", "forever">>}
            <=> \E v, w : p = <<v, w>> /\ Pair(i, v, w)
      BY <1>1 DEF Pair
    <2> QED
      BY <2>1, <2>2, <2>3
  <1>2. CASE i = "info2"
    <2>1. p \in Phrases[i] <=> \/ p \in {<<"moreinfo">>, <<"info2">>}
                              \/ p = <<"more", "info">>
                              \/ \E w \in {"2", "two", "full", "list", "details"} : p = <<"info", w>>
      BY <1>2 DEF Phrases
    <2>2. p \in {<<"moreinfo">>, <<"info2">>} <=> \E v \in Word(i) : p = <<v>>
      BY <1>2 DEF Word
    <2>3. p = <<"more", "info">> \/ (\E w \in {"2", "two", "full", "list", "details"} : p = <<"info", w>>)
            <=> \E v, w : p = <<v, w>> /\ Pair(i, v, w)
      BY <1>2 DEF Pair, DetailWords
    <2> QED
      BY <2>1, <2>2, <2>3
  <1>3. CASE i = "info"
    BY <1>3 DEF Phrases, Word, Pair
  <1>4. CASE i = "confirm"
    BY <1>4 DEF Phrases, Word, Pair
  <1>5. CASE i = "decline"
    <2> DEFINE Plain == {"no", "n", "decline", "can't", "cant", "out", "nope", "stop",
                         "stopall", "unsubscribe", "cancel", "end", "quit"}
    <2>1. p \in Phrases[i] <=> \/ \E v \in Plain : p = <<v>>
                              \/ p = <<"stopforever">>
                              \/ p \in {<<"stop", "forever">>, <<"stop", "all">>}
      BY <1>5 DEF Phrases
    <2>2. Word(i) = Plain \cup {"stopforever"}
      BY <1>5 DEF Word
    <2>3. p \in {<<"stop", "forever">>, <<"stop", "all">>}
            <=> \E v, w : p = <<v, w>> /\ Pair(i, v, w)
      BY <1>5 DEF Pair
    <2> QED
      BY <2>1, <2>2, <2>3
  <1> QED
    BY <1>1, <1>2, <1>3, <1>4, <1>5 DEF Intents

\* A phrase has one meaning.
LEMMA OnePair ==
  ASSUME NEW i \in Intents, NEW j \in Intents, NEW v, NEW w, Pair(i, v, w), Pair(j, v, w)
  PROVE  i = j
  BY DEF Pair, DetailWords

LEMMA OneWord ==
  ASSUME NEW i \in Intents, NEW j \in Intents, NEW v, v \in Word(i), v \in Word(j)
  PROVE  i = j
  BY DEF Word, Intents

\* What the tables say of a text: its pair decides, then its first word.
LEMMA DocumentedIs ==
  ASSUME NEW W, NEW b \in Seq(W)
  PROVE  /\ \A i \in Intents : Len(b) >= 2 /\ Pair(i, b[1], b[2]) => Documented(b) = i
         /\ (\A i \in Intents : ~(Len(b) >= 2 /\ Pair(i, b[1], b[2]))) =>
              /\ \A i \in Intents : Len(b) >= 1 /\ b[1] \in Word(i) => Documented(b) = i
              /\ (\A i \in Intents : ~(Len(b) >= 1 /\ b[1] \in Word(i))) => Documented(b) = "none"
  <1> DEFINE meanings(n) == {i \in DOMAIN Phrases : \E p \in Phrases[i] : Len(p) = n /\ BeginsWith(b, p)}
             Two == {i \in Intents : Len(b) >= 2 /\ Pair(i, b[1], b[2])}
             One == {i \in Intents : Len(b) >= 1 /\ b[1] \in Word(i)}
  <1>1. Documented(b) = IF meanings(2) # {} THEN CHOOSE i \in meanings(2) : TRUE
                        ELSE IF meanings(1) # {} THEN CHOOSE i \in meanings(1) : TRUE
                        ELSE "none"
    BY DEF Documented
  <1>2. /\ \A v : Len(<<v>>) = 1
        /\ \A v, w : Len(<<v, w>>) = 2
    OBVIOUS
  <1>3. ASSUME NEW i \in Intents
        PROVE  /\ (\E p \in Phrases[i] : Len(p) = 2 /\ BeginsWith(b, p)) <=> i \in Two
               /\ (\E p \in Phrases[i] : Len(p) = 1 /\ BeginsWith(b, p)) <=> i \in One
    <2>1. ASSUME NEW p, Len(p) = 2, p \in Phrases[i] PROVE \E v, w : p = <<v, w>> /\ Pair(i, v, w)
      <3>1. ASSUME NEW v, p = <<v>> PROVE FALSE
        <4>1. Len(<<v>>) # 2
          OBVIOUS
        <4> QED
          BY <2>1, <3>1, <4>1, Zenon
      <3> QED
        BY <2>1, <3>1, PhraseSets
    <2>2. ASSUME NEW p, Len(p) = 1, p \in Phrases[i] PROVE \E v \in Word(i) : p = <<v>>
      <3>1. ASSUME NEW v, NEW w, p = <<v, w>> PROVE FALSE
        <4>1. Len(<<v, w>>) # 1
          OBVIOUS
        <4> QED
          BY <2>2, <3>1, <4>1, Zenon
      <3> QED
        BY SMTT(60), <2>2, <3>1, PhraseSets
    <2>3. \A v, w : Pair(i, v, w) => <<v, w>> \in Phrases[i]
      BY PhraseSets
    <2>4. \A v \in Word(i) : <<v>> \in Phrases[i]
      BY PhraseSets
    <2>5. (\E p \in Phrases[i] : Len(p) = 2 /\ BeginsWith(b, p)) => i \in Two
      BY <2>1, BeginsWithTwo
    <2>6. ASSUME i \in Two PROVE \E p \in Phrases[i] : Len(p) = 2 /\ BeginsWith(b, p)
      <3>1. Pair(i, b[1], b[2]) /\ Len(b) >= 2
        BY <2>6
      <3>2. <<b[1], b[2]>> \in Phrases[i]
        BY <2>3, <3>1
      <3>3. BeginsWith(b, <<b[1], b[2]>>)
        BY <3>1, BeginsWithTwo
      <3>4. Len(<<b[1], b[2]>>) = 2
        OBVIOUS
      <3> QED
        BY <3>2, <3>3, <3>4
    <2>7. (\E p \in Phrases[i] : Len(p) = 1 /\ BeginsWith(b, p)) => i \in One
      BY <2>2, BeginsWithOne
    <2>8. i \in One => \E p \in Phrases[i] : Len(p) = 1 /\ BeginsWith(b, p)
      BY <1>2, <2>4, BeginsWithOne
    <2> QED
      BY <2>5, <2>6, <2>7, <2>8
  <1>4. meanings(2) = Two /\ meanings(1) = One
    BY <1>3, PhraseNames
  <1>5. \A i \in Two : Two = {i}
    BY OnePair
  <1>6. \A i \in One : One = {i}
    BY OneWord
  <1> HIDE DEF meanings, Two, One
  <1>7. \A i : (CHOOSE j \in {i} : TRUE) = i
    OBVIOUS
  <1>8. /\ \A i \in Two : Documented(b) = i
        /\ Two = {} => /\ \A i \in One : Documented(b) = i
                       /\ One = {} => Documented(b) = "none"
    BY <1>1, <1>4, <1>5, <1>6, <1>7
  <1> QED
    BY <1>8 DEF Two, One

\* A text that begins with a word of a meaning means it, unless a pair says more.
LEMMA BeginsWithWord ==
  ASSUME NEW W, NEW b \in Seq(W), NEW i \in Intents, Len(b) >= 1, b[1] \in Word(i),
         \A j \in Intents : Len(b) >= 2 /\ Pair(j, b[1], b[2]) => j = i
  PROVE  Documented(b) = i
  BY DocumentedIs

\* A text whose first word says nothing means nothing, unless a pair does.
LEMMA BeginsWithNone ==
  ASSUME NEW W, NEW b \in Seq(W), \A i \in Intents : b[1] \notin Word(i),
         \A j \in Intents : ~(Len(b) >= 2 /\ Pair(j, b[1], b[2]))
  PROVE  Documented(b) = "none"
  BY DocumentedIs

LEMMA SingleWord ==
  ASSUME NEW W, NEW b \in Seq(W), Len(b) = 1
  PROVE  b = <<b[1]>>
  <1>1. b[1] \in W
    <2>1. 1 \in 1..Len(b)
      OBVIOUS
    <2> QED
      BY <2>1, ElementOfSeq
  <1>2. <<b[1]>> \in Seq(W) /\ Len(<<b[1]>>) = 1 /\ <<b[1]>>[1] = b[1]
    BY <1>1
  <1>3. \A i \in 1..Len(b) : i = 1
    OBVIOUS
  <1> QED
    BY <1>2, <1>3, SeqEqual

\* What the code makes of a text: it looks at its first two words, but takes
\* "optin" and "stopforever" only alone.
LEMMA IntentIs ==
  ASSUME NEW W, NEW b \in Seq(W), b # <<>>
  PROVE  LET v == b[1] 
             w == b[2] 
             Two == Len(b) >= 2 
             OptIn == \/ v \in {"start", "unstop", "yesstart"}
                      \/ v = "optin" /\ Len(b) = 1
                      \/ Two /\ v = "opt" /\ w = "in"
             OptOut == v \in OptOutWords \/ (v = "stopforever" /\ Len(b) = 1)
         IN  /\ IsOptIn(b) <=> OptIn
             /\ IsOptOut(b) <=> OptOut
             /\ AsksInfo(b) <=> v \in {"info", "info2", "moreinfo"} \/ (Two /\ v = "more" /\ w = "info")
             /\ AsksDetail(b) <=> \/ v \in {"info2", "moreinfo"}
                                  \/ Two /\ v = "more" /\ w = "info"
                                  \/ Two /\ v = "info" /\ w \in DetailWords
             /\ First(b) = v /\ Len(b) >= 1
  <1>1. First(b) = b[1] /\ Len(b) >= 1 /\ Len(b) \in Nat
    BY DEF First
  <1>2. \A v : b = <<v>> <=> Len(b) = 1 /\ b[1] = v
    <2>1. ASSUME NEW v, b = <<v>> PROVE Len(b) = 1 /\ b[1] = v
      BY <2>1
    <2> QED
      BY <2>1, SingleWord
  <1> QED
    BY <1>1, <1>2 DEF IsOptIn, IsOptOut, AsksInfo, AsksDetail, Begins, OptInWords, InfoWords

\* A text means to the code what the tables say, but for "optin" and "stopforever"
\* with more words after them; and an opt-out is always a decline.
THEOREM IntentMeans ==
  ASSUME NEW W, NEW b \in Seq(W)
  PROVE  /\ Intent(b) # Documented(b) => Len(b) > 1 /\ First(b) \in {"optin", "stopforever"}
         /\ IsOptOut(b) => Intent(b) = "decline"
  <1>1. CASE b = <<>>
    <2>1. ~(Len(b) >= 2) /\ ~(Len(b) >= 1)
      BY <1>1
    <2>2. First(b) = "" /\ \A x : b # <<x>>
      BY <1>1 DEF First
    <2>3. /\ ~IsOptIn(b) /\ ~AsksInfo(b) /\ ~IsOptOut(b)
      <3>1. \A x, W2 : ~Begins(b, x, W2)
        BY <2>1, Zenon DEF Begins
      <3>2. "" \notin OptInWords /\ "" \notin InfoWords /\ "" \notin OptOutWords
        BY DEF OptInWords, InfoWords, OptOutWords
      <3>3. First(b) \notin OptInWords /\ First(b) \notin InfoWords /\ First(b) \notin OptOutWords
        BY <2>2, <3>2, Zenon
      <3> QED
        BY <2>2, <3>1, <3>3, Zenon DEF IsOptIn, AsksInfo, IsOptOut
    <2>4. First(b) \notin ConfirmWords /\ First(b) \notin DeclineWords
      BY <2>2 DEF ConfirmWords, DeclineWords, OptOutWords
    <2>5. Intent(b) = "none"
      BY <2>3, <2>4 DEF Intent
    <2>6. Documented(b) = "none"
      BY <2>1, DocumentedIs
    <2> QED
      BY <2>3, <2>5, <2>6
  <1>2. CASE b # <<>>
    <2> DEFINE v == b[1]
               w == b[2]
               Two == Len(b) >= 2
    <2>1. /\ Len(b) \in Nat /\ Len(b) >= 1 /\ First(b) = v
          /\ Two <=> Len(b) > 1
          /\ IsOptIn(b) <=> \/ v \in {"start", "unstop", "yesstart"}
                            \/ v = "optin" /\ ~Two
                            \/ Two /\ v = "opt" /\ w = "in"
          /\ IsOptOut(b) <=> v \in OptOutWords \/ (v = "stopforever" /\ ~Two)
          /\ AsksInfo(b) <=> v \in {"info", "info2", "moreinfo"} \/ (Two /\ v = "more" /\ w = "info")
          /\ AsksDetail(b) <=> \/ v \in {"info2", "moreinfo"}
                               \/ Two /\ v = "more" /\ w = "info"
                               \/ Two /\ v = "info" /\ w \in DetailWords
      <3>1. Len(b) \in Nat /\ Len(b) >= 1 /\ (Two <=> Len(b) > 1) /\ (Two <=> Len(b) # 1)
        <4>1. Len(b) \in Nat \ {0}
          BY <1>2, EmptySeq
        <4>2. \A n \in Nat \ {0} : n >= 1 /\ (n >= 2 <=> n > 1) /\ (n >= 2 <=> n # 1)
          OBVIOUS
        <4> QED
          BY <4>1, <4>2
      <3> QED
        BY <1>2, <3>1, IntentIs
    <2>2. /\ \A i \in Intents : Two /\ Pair(i, v, w) => Documented(b) = i
          /\ (\A i \in Intents : ~(Two /\ Pair(i, v, w))) =>
               /\ \A i \in Intents : v \in Word(i) => Documented(b) = i
               /\ (\A i \in Intents : v \notin Word(i)) => Documented(b) = "none"
      BY <2>1, DocumentedIs
    <2> HIDE DEF v, w, Two
    <2>3. IsOptOut(b) => Intent(b) = "decline"
      BY <2>1 DEF Intent, OptOutWords, ConfirmWords
    <2>4. CASE v \in {"start", "unstop", "yesstart"}
      <3>1. Intent(b) = "opt_in"
        BY <2>1, <2>4 DEF Intent
      <3>2. v \in Word("opt_in") /\ \A i \in Intents : Pair(i, v, w) => i = "opt_in"
        BY <2>4 DEF Word, Pair
      <3> QED
        BY <2>2, <2>3, <3>1, <3>2 DEF Intents
    <2>5. CASE v \in {"opt", "more"}
      <3>1. \A i \in Intents : v \notin Word(i)
        BY <2>5 DEF Word, Intents
      <3>2. CASE Two /\ v = "opt" /\ w = "in"
        <4>1. Intent(b) = "opt_in" /\ Pair("opt_in", v, w)
          BY <2>1, <3>2 DEF Intent, Pair
        <4> QED
          BY <2>2, <2>3, <3>2, <4>1 DEF Intents
      <3>3. CASE Two /\ v = "more" /\ w = "info"
        <4>1. Intent(b) = "info2" /\ Pair("info2", v, w)
          BY <2>1, <3>3 DEF Intent, Pair
        <4> QED
          BY <2>2, <2>3, <3>3, <4>1 DEF Intents
      <3>4. CASE ~(Two /\ v = "opt" /\ w = "in") /\ ~(Two /\ v = "more" /\ w = "info")
        <4>1. Intent(b) = "none"
          BY <2>1, <2>5, <3>4 DEF Intent, ConfirmWords, DeclineWords, OptOutWords
        <4>2. \A i \in Intents : ~(Two /\ Pair(i, v, w))
          BY <2>5, <3>4 DEF Pair
        <4> QED
          BY <2>2, <2>3, <3>1, <4>1, <4>2
      <3> QED
        BY <3>2, <3>3, <3>4
    <2>6. CASE v \in {"optin", "stopforever"}
      <3>1. \A i \in Intents : ~Pair(i, v, w)
        BY <2>6 DEF Pair
      <3>2. CASE Two
        BY <2>1, <2>3, <2>6, <3>2
      <3>3. CASE ~Two /\ v = "optin"
        <4>1. Intent(b) = "opt_in" /\ v \in Word("opt_in")
          BY <2>1, <3>3 DEF Intent, Word
        <4> QED
          BY <2>2, <2>3, <3>1, <4>1 DEF Intents
      <3>4. CASE ~Two /\ v = "stopforever"
        <4>1. Intent(b) = "decline" /\ v \in Word("decline")
          BY <2>1, <2>3, <3>4 DEF Word
        <4> QED
          BY <2>2, <2>3, <3>1, <4>1 DEF Intents
      <3> QED
        BY <2>6, <3>2, <3>3, <3>4
    <2>7. CASE v \in {"moreinfo", "info2"}
      <3>1. Intent(b) = "info2"
        BY <2>1, <2>7 DEF Intent
      <3>2. v \in Word("info2") /\ \A i \in Intents : ~Pair(i, v, w)
        BY <2>7 DEF Word, Pair
      <3> QED
        BY <2>2, <2>3, <3>1, <3>2 DEF Intents
    <2>8. CASE v = "info"
      <3>1. CASE Two /\ w \in DetailWords
        <4>1. Intent(b) = "info2" /\ Pair("info2", v, w)
          BY <2>1, <2>8, <3>1 DEF Intent, Pair
        <4> QED
          BY <2>2, <2>3, <3>1, <4>1 DEF Intents
      <3>2. CASE ~(Two /\ w \in DetailWords)
        <4>1. Intent(b) = "info"
          BY <2>1, <2>8, <3>2 DEF Intent
        <4>2. v \in Word("info") /\ \A i \in Intents : ~(Two /\ Pair(i, v, w))
          BY <2>8, <3>2 DEF Word, Pair
        <4> QED
          BY <2>2, <2>3, <4>1, <4>2 DEF Intents
      <3> QED
        BY <3>1, <3>2
    <2>9. CASE v \in ConfirmWords
      <3>1. Intent(b) = "confirm"
        BY <2>1, <2>9 DEF Intent, ConfirmWords
      <3>2. v \in Word("confirm") /\ \A i \in Intents : ~Pair(i, v, w)
        BY <2>9 DEF Word, Pair, ConfirmWords
      <3> QED
        BY <2>2, <2>3, <3>1, <3>2 DEF Intents
    <2>10. CASE v \in DeclineWords
      <3>1. Intent(b) = "decline"
        BY <2>1, <2>10 DEF Intent, DeclineWords, OptOutWords, ConfirmWords
      <3>2. v \in Word("decline") /\ \A i \in Intents : Pair(i, v, w) => i = "decline"
        BY <2>10 DEF Word, Pair, DeclineWords, OptOutWords
      <3> QED
        BY <2>2, <2>3, <3>1, <3>2 DEF Intents
    <2>11. CASE /\ v \notin {"start", "unstop", "yesstart"} /\ v \notin {"opt", "more"}
                /\ v \notin {"optin", "stopforever"} /\ v \notin {"moreinfo", "info2"} /\ v # "info"
                /\ v \notin ConfirmWords /\ v \notin DeclineWords
      <3>1. Intent(b) = "none"
        BY <2>1, <2>11 DEF Intent, DeclineWords
      <3>2. \A i \in Intents : v \notin Word(i) /\ ~Pair(i, v, w)
        BY <2>11 DEF Word, Pair, Intents, ConfirmWords, DeclineWords, OptOutWords
      <3> QED
        BY <2>2, <2>3, <3>1, <3>2
    <2> QED
      BY <2>4, <2>5, <2>6, <2>7, <2>8, <2>9, <2>10, <2>11
  <1> QED
    BY <1>1, <1>2

\* The texts of the corpus are sequences of words of the tables.
LEMMA CorpusIs == Corpus \subseteq Seq(Vocabulary)
  <1> SUFFICES ASSUME NEW b \in Corpus PROVE b \in Seq(Vocabulary)
    OBVIOUS
  <1>1. CASE b = <<>>
    BY <1>1, EmptySeq
  <1>2. ASSUME NEW v \in Vocabulary, b = <<v>> PROVE b \in Seq(Vocabulary)
    BY <1>2
  <1>3. ASSUME NEW v \in Vocabulary, NEW w \in Vocabulary, b = <<v, w>> PROVE b \in Seq(Vocabulary)
    BY <1>3
  <1> QED
    BY <1>1, <1>2, <1>3 DEF Corpus

\* A text means what the tables of docs/sms-and-rsvp.md say (parse_reply_intent,
\* messages.py:637-679), and not only those of two words of the corpus: the lemma
\* IntentMeans says it of every sequence of words.
THEOREM IntentIsDocumented == Spec => []IntentAsDocumented
  <1>1. IntentAsDocumented
    BY CorpusIs, IntentMeans DEF IntentAsDocumented
  <1> QED
    BY <1>1, PTL

-----------------------------------------------------------------------------
(* Who waits for whom.                                                     *)

LEMMA WantedAreKeys == ASSUME TypeInv, NEW r \in Requests PROVE Wanted(r) \subseteq Keys
  <1>1. CASE pc[r] = "prune"
    BY <1>1 DEF Wanted, Old, TypeInv, CountersOK
  <1>2. CASE pc[r] \in {"phone", "global"}
    <2>1. req[r].window \in Windows /\ req[r].phone \in Phones
      BY <1>2 DEF TypeInv, CallsOK, CountersOK, Calls, Windows
    <2> QED
      BY <1>2, <2>1 DEF Wanted, Mine, Global, Keys, Buckets
  <1>3. CASE pc[r] \notin {"prune", "phone", "global"}
    BY <1>3 DEF Wanted
  <1> QED
    BY <1>1, <1>2, <1>3

\* Whatever is under way, one of the calls can go on, or the loop waits for a
\* counter of a call that was refused or for a setup's row: then either some
\* setup raised, and its rows wait for the loop in turn, or the setup that has
\* the row ends without the loop (webhooks.py:21-51, 190-205, services.py:543,
\* database.py:107-112).
THEOREM TwoStandstills == Spec => []NoOtherStandstill
  <1>1. ASSUME Inv, PassOK, ~BehindACounter, NEW q \in Requests, pc[q] # "idle",
               \A r \in Requests : ~Ready(r)
        PROVE  \E s \in Setups : WaitsFor(s)
    <2>1. CASE loop = None
      <3>1. pc[q] \in {"ready", "left", "closing"}
        BY <1>1, <2>1, InboundAssumption DEF Inv, TypeInv, CallsOK, Places, LoopInv, OnLoop
      <3> QED
        BY <1>1, <2>1, <3>1 DEF Ready, Wanted, WantsRow
    <2>2. CASE loop \in Requests
      <3>1. pc[loop] \in OnLoop
        BY <1>1, <2>2 DEF Inv, LoopInv
      <3>2. ASSUME NEW k \in Wanted(loop), lock[k] \notin {None, loop} PROVE FALSE
        <4>1. PICK h \in Requests : h = lock[k] /\ h # loop
          BY <1>1, <2>2, <3>2, WantedAreKeys DEF Inv, TypeInv, CountersOK
        <4>2. pc[h] \in Locking \ OnLoop
          BY <1>1, <2>2, <3>2, <4>1, WantedAreKeys DEF Inv, LockInv, LoopInv
        <4>3. pc[h] # "left"
          BY <1>1, <2>2, <3>2, <4>1 DEF BehindACounter
        <4>4. pc[h] = "closing"
          BY <4>2, <4>3 DEF Locking, OnLoop
        <4>5. Ready(h)
          BY <4>4 DEF Ready, Wanted, WantsRow
        <4> QED
          BY <1>1, <4>5
      <3>3. ~Ready(loop)
        BY <1>1, <2>2
      <3>4. WantsRow(loop) /\ ~RowFree(req[loop].phone)
        BY <3>1, <3>2, <3>3 DEF Ready, OnLoop
      <3> QED
        BY <2>2, <3>4 DEF RowFree, WaitsFor
    <2> QED
      BY <1>1, <2>1, <2>2 DEF Inv, TypeInv, CallsOK
  <1>2. ASSUME Inv, PassOK PROVE NoOtherStandstill
    <2> SUFFICES ASSUME NEW q \in Requests, pc[q] # "idle", \A r \in Requests : ~Ready(r),
                        ~BehindACounter, ~BehindARow
                 PROVE  \E s \in Setups : WaitsFor(s) /\ (pass[s].at = "closing" \/ Raised = {})
      BY DEF NoOtherStandstill, Standstill
    <2>1. PICK s \in Setups : WaitsFor(s)
      BY <1>1, <1>2
    <2> QED
      BY <2>1 DEF BehindARow
  <1>3. Inv /\ PassOK => NoOtherStandstill
    BY <1>2
  <1> QED
    BY <1>3, InvInit, InvNext, PassInit, PTL DEF Spec

\* Some window has let through all that its ceiling allows.
Spent == \E k \in Keys : admitted[k] = Ceiling(k)

\* A call that is done with the limiter and still holds a counter was refused.
Refusals ==
  \A r \in Requests, k \in Keys : lock[k] = r /\ pc[r] \in {"left", "closing"} => Spent

LEMMA OverIsSpent == ASSUME Inv, NEW k \in Keys, Over(k) PROVE Spent
  <1>1. Ceiling(k) \in Nat \ {0}
    BY DEF Ceiling
  <1>2. count[k] \in Nat /\ admitted[k] \in Nat
    BY DEF Inv, TypeInv, CountersOK
  <1> QED
    BY <1>1, <1>2 DEF Over, Spent, Inv, LimitInv

LEMMA StaysSpent == ASSUME Inv, Inv', [Next]_vars, Spent PROVE Spent'
  <1>1. PICK k \in Keys : admitted[k] = Ceiling(k)
    BY DEF Spent
  <1>2. admitted[k] \in Nat /\ admitted'[k] \in Nat
    BY DEF Inv, TypeInv, CountersOK, Keys, Windows
  <1>3. admitted' = admitted \/ \E r \in Requests : CountGlobal(r)
    BY DEF Next, Step, vars, history, Arrive, Enter, Prune, CountPhone, Lookup, FinishStop,
       StopFails, FinishStart, FinishReply, Returned, HandOver, CloseSession, Add, Remove,
       AddLook, RemoveLook, Tick, Crash, FlushPass, CommitPass, RaisePass, HandOverPass, ClosePass
  <1>4. admitted'[k] >= admitted[k]
    <2>1. ASSUME NEW r \in Requests, CountGlobal(r)
          PROVE  admitted'[k] \in {admitted[k], admitted[k] + 1}
      BY <1>2, <2>1 DEF CountGlobal, Inv, TypeInv, CountersOK, Keys, Windows
    <2> QED
      BY <1>2, <1>3, <2>1
  <1>5. admitted'[k] <= Ceiling(k)
    BY DEF Inv, LimitInv, Ceiling, Keys, Windows
  <1> QED
    BY <1>1, <1>2, <1>4, <1>5 DEF Spent, Ceiling, Keys, Windows

\* A call's step: whoever holds a counter after the limiter held it before, or
\* was refused just now.
LEMMA RefusalsStep ==
  ASSUME Inv, Refusals, NEW q \in Requests, Arrive(q) \/ Step(q),
         NEW r \in Requests, NEW k \in Keys, lock'[k] = r, pc'[r] \in {"left", "closing"}
  PROVE  Spent
  <1>1. CASE r # q
    <2>1. pc'[r] = pc[r]
      BY <1>1, Elsewhere DEF Inv, TypeInv
    <2>2. lock[k] = r
      BY <1>1, InboundAssumption
      DEF Step, Arrive, Enter, Prune, CountPhone, CountGlobal, Lookup, FinishStop, StopFails, FinishStart,
          FinishReply, Returned, HandOver, CloseSession, Writes, Freed, Inv, TypeInv, CountersOK
    <2> QED
      BY <2>1, <2>2 DEF Refusals
  <1>2. CASE r = q
    <2>1. CASE CountPhone(r)
      <3>1. pc'[r] = "global" \/ Over(Mine(r))
        BY <2>1 DEF CountPhone, Goto, Inv, TypeInv, CallsOK
      <3>2. Mine(r) \in Keys
        BY <2>1, WantedAreKeys DEF CountPhone, Wanted, Inv
      <3> QED
        BY <3>1, <3>2, OverIsSpent
    <2>2. CASE CountGlobal(r)
      <3>1. pc'[r] = "handle" \/ Over(Global(r))
        BY <2>2 DEF CountGlobal, Goto, Inv, TypeInv, CallsOK
      <3>2. Global(r) \in Keys
        BY <2>2, WantedAreKeys DEF CountGlobal, Wanted, Inv
      <3> QED
        BY <3>1, <3>2, OverIsSpent
    <2>3. CASE FinishStop(r) \/ StopFails(r) \/ FinishStart(r) \/ FinishReply(r)
      <3>1. pc[r] = "finish" /\ lock[k] = r
        BY <2>3 DEF FinishStop, StopFails, FinishStart, FinishReply, Returned
      <3> QED
        BY <3>1 DEF Inv, LockInv, Locking
    <2>4. CASE HandOver(r)
      BY <2>4 DEF HandOver, Refusals
    <2>5. CASE Arrive(r) \/ Enter(r) \/ Prune(r) \/ Lookup(r) \/ CloseSession(r)
      BY <2>5 DEF Arrive, Enter, Prune, Lookup, CloseSession, Goto, Inv, TypeInv, CallsOK
    <2> QED
      BY <1>2, <2>1, <2>2, <2>3, <2>4, <2>5 DEF Step
  <1> QED
    BY <1>1, <1>2

LEMMA RefusalsNext == ASSUME Inv, Inv', Refusals, [Next]_vars PROVE Refusals'
  <1> SUFFICES ASSUME NEW r \in Requests, NEW k \in Keys, lock'[k] = r, pc'[r] \in {"left", "closing"}
               PROVE  Spent'
    BY DEF Refusals, Keys, Windows
  <1>1. CASE lock[k] = r /\ pc'[r] = pc[r]
    BY <1>1, StaysSpent DEF Refusals
  <1>2. CASE \E q \in Requests : Arrive(q) \/ Step(q)
    BY <1>2, RefusalsStep, StaysSpent
  <1>3. CASE Crash
    BY <1>3, InboundAssumption DEF Crash, Inv, TypeInv, CountersOK
  <1> QED
    BY <1>1, <1>2, <1>3 DEF Next, vars, calls, Tick, Add, Remove, AddLook, RemoveLook, FlushPass, CommitPass,
       RaisePass, HandOverPass, ClosePass

\* While no window is at its ceiling the loop waits for no counter for ever: that
\* standstill needs a flood (webhooks.py:21-51).  The one behind a setup's row
\* needs none.
THEOREM CounterStandsAfterAFlood == Spec => [](BehindACounter => Spent)
  <1>1. Init => Refusals
    BY InboundAssumption DEF Init, Refusals, Keys
  <1>2. ASSUME Inv, Refusals, BehindACounter PROVE Spent
    BY <1>2, WantedAreKeys DEF BehindACounter, Refusals, Inv
  <1>3. Inv /\ Refusals => (BehindACounter => Spent)
    BY <1>2
  <1> QED
    BY <1>1, <1>3, InvInit, InvNext, PassInit, RefusalsNext, PTL DEF Spec

-----------------------------------------------------------------------------
(* A call ends.                                                            *)

\* The steps a call still has to take, at most.
Rank == [ready |-> 8, prune |-> 7, phone |-> 6, global |-> 5, handle |-> 4, finish |-> 3,
         left |-> 2, closing |-> 1, idle |-> 0]

\* A call takes at most eight steps of its own until its session is closed, and
\* nothing that the other calls, the forms, the setups, the clock or a crash do
\* makes them more (webhooks.py:106-221): what can keep it is what TwoStandstills
\* names.
THEOREM CallsEnd ==
  Spec => [][\A r \in Requests : /\ Step(r) => Rank[pc'[r]] < Rank[pc[r]]
                                 /\ pc[r] # "idle" => Rank[pc'[r]] <= Rank[pc[r]]]_vars
  <1> DEFINE Falls == \A r \in Requests : /\ Step(r) => Rank[pc'[r]] < Rank[pc[r]]
                                          /\ pc[r] # "idle" => Rank[pc'[r]] <= Rank[pc[r]]
  <1>1. ASSUME CallsOK, NEW r \in Requests, Step(r)
        PROVE  {pc[r], pc'[r]} \subseteq Places /\ Rank[pc'[r]] < Rank[pc[r]]
    <2>1. \/ pc[r] = "ready" /\ pc'[r] = "prune"
          \/ pc[r] = "prune" /\ pc'[r] = "phone"
          \/ pc[r] = "phone" /\ pc'[r] \in {"global", "left"}
          \/ pc[r] = "global" /\ pc'[r] \in {"handle", "left"}
          \/ pc[r] = "handle" /\ pc'[r] = "finish"
          \/ pc[r] = "finish" /\ pc'[r] = "left"
          \/ pc[r] = "left" /\ pc'[r] = "closing"
          \/ pc[r] = "closing" /\ pc'[r] = "idle"
      BY <1>1 DEF CallsOK, Step, Enter, Prune, CountPhone, CountGlobal, Refused, Lookup, FinishStop, StopFails,
         FinishStart, FinishReply, Returned, HandOver, CloseSession, Goto
    <2> QED
      BY <2>1 DEF Rank, Places
  <1>2. ASSUME CallsOK, Next, NEW r \in Requests, ~Step(r), pc[r] # "idle"
        PROVE  pc'[r] \in {pc[r], "idle"}
    <2>1. ~Arrive(r)
      BY <1>2 DEF Arrive
    <2>2. CASE \E q \in Requests : Arrive(q) \/ Step(q)
      BY <1>2, <2>1, <2>2, Elsewhere
    <2>3. CASE Crash
      BY <2>3 DEF Crash
    <2> QED
      BY <1>2, <2>2, <2>3 DEF Next, calls, Tick, Add, Remove, AddLook, RemoveLook, FlushPass, CommitPass,
         RaisePass, HandOverPass, ClosePass
  <1>3. \A place \in Places : Rank[place] \in Nat /\ Rank["idle"] <= Rank[place]
    BY DEF Places, Rank
  <1>4. ASSUME CallsOK, Next PROVE Falls
    <2> SUFFICES ASSUME NEW r \in Requests
                 PROVE  /\ Step(r) => Rank[pc'[r]] < Rank[pc[r]]
                        /\ pc[r] # "idle" => Rank[pc'[r]] <= Rank[pc[r]]
      OBVIOUS
    <2>1. CASE Step(r)
      <3>1. pc[r] \in Places /\ pc'[r] \in Places
        BY <1>1, <1>4, <2>1
      <3> QED
        BY <1>1, <1>3, <1>4, <2>1, <3>1
    <2>2. CASE ~Step(r)
      <3>1. pc[r] \in Places
        BY <1>4 DEF CallsOK
      <3> QED
        BY <1>2, <1>3, <1>4, <2>2, <3>1
    <2> QED
      BY <2>1, <2>2
  <1>5. Inv /\ PassOK /\ [Next]_vars => [Falls]_vars
    BY <1>4 DEF Inv, TypeInv
  <1> QED
    BY <1>5, InvInit, InvNext, PassInit, PTL DEF Spec

=============================================================================
