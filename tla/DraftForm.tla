------------------------------ MODULE DraftForm ------------------------------
(***************************************************************************)
(* The edit page of a draft with Google Places configured: the location    *)
(* field (app/static/location_autocomplete.js), the autosave with its one  *)
(* save at a time (app/static/hangout_draft_autosave.js), and the POSTs of *)
(* the form at the server (app/routers/web.py), each a load and a commit   *)
(* that writes what differs from the load.                                 *)
(***************************************************************************)
EXTENDS Naturals, Sequences

CONSTANTS
  Places,       \* what Google offers
  None, Free,   \* nothing, and a text that was typed
  MaxEvents, MaxPosts, MaxFaults   \* bounds of the instances

\* The suggestion's text of a place, and its formatted address.
Label(p) == <<p, "label">>
Address(p) == <<p, "address">>

ASSUME DraftFormAssumption ==
  /\ {None, Free} \cap Places = {} /\ None # Free
  /\ \A p \in Places : None \notin {Label(p), Address(p)}
  /\ {MaxEvents, MaxPosts, MaxFaults} \subseteq Nat

\* The text, the place id, and the place whose coordinates are there.
Locations == [text : {None, Free} \cup (Places \X {"label", "address"}),
              place : Places \cup {None}, xy : Places \cup {None}]
Nowhere == [text |-> None, place |-> None, xy |-> None]

VARIABLES
  field,        \* the location inputs of the page
  committed,    \* its last Maps-backed selection
  seq,          \* requestSequence
  asked,        \* the sequence whose suggestions may arrive, or 0
  offered,      \* the page has suggestions
  details,      \* requests for the details of a pick
  other,        \* the other inputs, by version
  timer,        \* the autosave timer runs
  mode,         \* "editing", "saving" before a setup, "leaving", "gone"
  posts,        \* every POST of the form: a save or a setup
  row, status,  \* the draft's row
  told,         \* what the invitations said
  events, faults,   \* bound counters
  chosen,       \* history: the place picked or restored last
  doubt         \* history: what was last shown may not have been sent

page == <<field, committed, seq, asked, offered, details, other, chosen>>
server == <<row, status, told>>
vars == <<page, timer, mode, posts, server, events, faults, doubt>>

\* The formdata listener: a text that was typed is never sent.
Body ==
  LET l == IF field.place # None THEN field
           ELSE IF committed.place # None THEN committed ELSE Nowhere
  IN [loc |-> l, other |-> other]

\* Seeded by the page: only a row with a place counts as selected.
Selected(l) == IF l.place # None THEN l ELSE Nowhere

Init ==
  /\ field = Nowhere /\ committed = Nowhere /\ chosen = None
  /\ seq = 0 /\ asked = 0 /\ offered = FALSE /\ details = {}
  /\ other = 0 /\ timer = FALSE /\ mode = "editing" /\ posts = <<>>
  /\ row = [loc |-> Nowhere, other |-> 0] /\ status = "draft" /\ told = None
  /\ events = 0 /\ faults = 0 /\ doubt = FALSE

-----------------------------------------------------------------------------
(* The autosave.                                                           *)

Post(setup, body) ==
  [setup |-> setup, body |-> body, old |-> None, lost |-> FALSE, sure |-> TRUE,
   at |-> IF setup THEN "sent" ELSE "waiting"]

Unsure == [k \in DOMAIN posts |-> [posts[k] EXCEPT !.sure = FALSE]]

NoneLost == \A k \in DOMAIN posts : ~posts[k].lost

\* enqueueSave: the form as it is now.
Enqueue(body) ==
  /\ Len(posts) < MaxPosts
  /\ posts' = Append(posts, Post(FALSE, body))

\* queueSave: nothing while a setup is under way.
QueueSave(immediate) ==
  IF mode # "editing" THEN UNCHANGED <<timer, posts>>
  ELSE /\ timer' = ~immediate
       /\ IF immediate THEN Enqueue(Body') ELSE UNCHANGED posts

TimerFires ==
  /\ timer /\ timer' = FALSE
  /\ Enqueue(Body)
  /\ UNCHANGED <<page, mode, server, events, faults, doubt>>

\* Seeded fault: a save does not wait for the one before it.
Turn_Any(k) == TRUE

\* The promise chain: a save starts when the one before it has settled.
Turn(k) == \A j \in 1..k-1 : posts[j].at = "over" \/ posts[j].lost

Send(k) ==
  /\ posts[k].at = "waiting" /\ Turn(k)
  /\ posts' = [posts EXCEPT ![k].at = "sent"]
  /\ UNCHANGED <<page, timer, mode, server, events, faults, doubt>>

\* Something the user does.
Event == mode \in {"editing", "saving"} /\ events < MaxEvents /\ events' = events + 1

\* Seeded fault: the setup is submitted beside the save.
Submit_AtOnce ==
  /\ mode = "editing" /\ mode' = "leaving" /\ timer' = FALSE
  /\ Len(posts) < MaxPosts
  /\ posts' = Append(posts, Post(TRUE, Body))
  /\ UNCHANGED <<page, server, events, faults, doubt>>

\* The setup button: one more save, and nothing else is saved until it has settled.
Submit ==
  /\ mode = "editing" /\ mode' = "saving" /\ timer' = FALSE
  /\ Enqueue(Body)
  /\ UNCHANGED <<page, server, events, faults, doubt>>

\* The save that a setup waits for is the last one: with it saved the browser
\* submits the form as it is now.
Settled(k, saved) ==
  IF mode = "saving" /\ k = Len(posts)
  THEN /\ mode' = IF saved THEN "leaving" ELSE "editing"
       /\ posts' = IF saved
                   THEN Append([posts EXCEPT ![k].at = "over"], Post(TRUE, Body))
                   ELSE [posts EXCEPT ![k].lost = TRUE]
  ELSE /\ posts' = [posts EXCEPT ![k] = IF saved THEN [@ EXCEPT !.at = "over"]
                                        ELSE [@ EXCEPT !.lost = TRUE]]
       /\ UNCHANGED mode

\* A 204 arrives.
Answer(k) ==
  /\ ~posts[k].setup /\ ~posts[k].lost /\ posts[k].at = "stored"
  /\ Settled(k, TRUE)
  /\ doubt' = (doubt /\ ~posts[k].sure)
  /\ UNCHANGED <<page, timer, server, events, faults>>

\* The connection fails before the answer; the server goes on with what it has.
NoAnswer(k) ==
  /\ faults < MaxFaults /\ faults' = faults + 1
  /\ ~posts[k].setup /\ ~posts[k].lost /\ posts[k].at \in {"sent", "loaded", "stored"}
  /\ Settled(k, FALSE)
  /\ doubt' = TRUE
  /\ UNCHANGED <<page, timer, server, events>>

-----------------------------------------------------------------------------
(* The location field.                                                     *)

\* The details of the pick on the page are under way; a pick that is dismissed
\* now raises no change event.
Awaited == \E d \in details : d.seq = seq

Doubt ==
  /\ doubt' = TRUE
  /\ posts' = Unsure

\* Seeded fault: the place outlives its text.
Typed_Kept(text) == [field EXCEPT !.text = text]

\* Typing takes the place and its coordinates away.
Typed(text) == [Nowhere EXCEPT !.text = text]

Type(text) ==
  /\ Event
  /\ seq' = seq + 1
  /\ asked' = IF text = Free THEN seq' ELSE 0
  /\ field' = Typed(text)
  /\ UNCHANGED <<committed, offered, details, other, chosen>>
  /\ QueueSave(FALSE)
  /\ UNCHANGED <<mode, server, faults, doubt>>

\* renderSuggestions: an answer to an earlier sequence is dropped.
Offer ==
  /\ asked # 0 /\ asked = seq /\ mode \in {"editing", "saving"}
  /\ offered' = TRUE /\ asked' = 0
  /\ UNCHANGED <<field, committed, seq, details, other, chosen, timer, mode, posts, server,
                 events, faults, doubt>>

\* selectSuggestion up to its request; the arrow keys open an older list again.
Pick(p) ==
  /\ Event /\ offered
  /\ seq' = seq + 1 /\ asked' = 0
  /\ field' = [text |-> Label(p), place |-> p, xy |-> None]
  /\ details' = details \cup {[place |-> p, seq |-> seq']}
  /\ chosen' = p
  /\ UNCHANGED <<committed, offered, other, timer, mode, posts, server, faults, doubt>>

\* Seeded fault: the details of an earlier pick are taken.
Current_Any(d) == TRUE

Current(d) == d.seq = seq

\* The answer to Place Details, with or without coordinates, or its failure: the
\* pick is committed and the change saved at once.
DetailsArrive(d, l) ==
  /\ d \in details /\ details' = details \ {d}
  /\ l \in {[text |-> Address(d.place), place |-> d.place, xy |-> c] : c \in {d.place, None}}
            \cup {field}
  /\ mode \in {"editing", "saving"}
  /\ IF Current(d)
     THEN /\ field' = l
          /\ committed' = IF l.place # None THEN l ELSE committed
          /\ UNCHANGED other
          /\ QueueSave(TRUE)
     ELSE l = field /\ UNCHANGED <<field, committed, other, timer, posts>>
  /\ UNCHANGED <<seq, asked, offered, chosen, mode, server, events, faults, doubt>>

\* A click elsewhere on the page: dismissSuggestions.
ClickOutside ==
  /\ Event
  /\ seq' = seq + 1 /\ asked' = 0
  /\ IF Awaited THEN Doubt ELSE UNCHANGED <<posts, doubt>>
  /\ UNCHANGED <<field, committed, offered, details, other, chosen, timer, mode, server, faults>>

\* Blur or Escape: dismissSuggestions and rejectNonMapsLocation.
Leave ==
  /\ Event
  /\ seq' = seq + 1 /\ asked' = 0
  /\ UNCHANGED <<offered, details, other>>
  /\ \/ /\ field.place # None
        /\ committed' = field
        /\ IF Awaited THEN Doubt ELSE UNCHANGED <<posts, doubt>>
        /\ UNCHANGED <<field, chosen, timer>>
     \/ /\ field.place = None
        /\ committed' = IF field.text = None THEN Nowhere ELSE committed
        /\ field' = Selected(committed')
        /\ chosen' = committed'.place
        /\ QueueSave(TRUE)
        /\ UNCHANGED doubt
  /\ UNCHANGED <<mode, server, faults>>

\* Another input: text waits for the timer, a choice is saved at once.
Edit(immediate) ==
  /\ Event
  /\ other' = other + 1
  /\ UNCHANGED <<field, committed, seq, asked, offered, details, chosen>>
  /\ QueueSave(immediate)
  /\ UNCHANGED <<mode, server, faults, doubt>>

-----------------------------------------------------------------------------
(* The server.                                                             *)

\* hangout_update_draft: a hangout that is no draft is left alone.
Load(k) ==
  /\ posts[k].at = "sent"
  /\ IF status = "draft"
     THEN /\ posts' = [posts EXCEPT ![k].at = "loaded", ![k].old = row]
          /\ UNCHANGED mode
     ELSE IF posts[k].setup
     THEN /\ posts' = [posts EXCEPT ![k].at = "over"]
          /\ mode' = "gone"
     ELSE IF posts[k].lost
     THEN /\ posts' = [posts EXCEPT ![k].at = "over"]
          /\ UNCHANGED mode
     ELSE Settled(k, FALSE)
  /\ UNCHANGED <<page, timer, server, events, faults, doubt>>

\* A text without a place is dropped, an empty one takes everything away.
Details(l) == IF l.text = None \/ l.place = None THEN Nowhere ELSE l

Changed(old, new, now) == [f \in DOMAIN now |-> IF new[f] # old[f] THEN new[f] ELSE now[f]]

\* The commit of the details.
Store(k) ==
  LET p == posts[k]
      new == Details(p.body.loc)
  IN
  /\ p.at = "loaded"
  /\ row' = [loc |-> Changed(p.old.loc, new, row.loc),
             other |-> IF p.body.other # p.old.other THEN p.body.other ELSE row.other]
  /\ doubt' = (doubt \/ p.lost)
  /\ posts' = [(IF p.lost THEN Unsure ELSE posts) EXCEPT
                 ![k].at = IF p.lost THEN "over" ELSE "stored", ![k].old = None]
  /\ UNCHANGED <<page, timer, mode, status, told, events, faults>>

\* setup_hangout: the invitations are written from the row.
Tell(k) ==
  /\ posts[k].setup /\ posts[k].at = "stored"
  /\ told' = row /\ status' = "active" /\ mode' = "gone"
  /\ posts' = [posts EXCEPT ![k].at = "over"]
  /\ UNCHANGED <<page, timer, row, events, faults, doubt>>

\* Nobody was selected: the page is shown again, from the row.
NobodySelected(k) ==
  /\ posts[k].setup /\ posts[k].at = "stored"
  /\ posts' = [posts EXCEPT ![k].at = "over"]
  /\ mode' = "editing" /\ timer' = FALSE /\ doubt' = ~NoneLost
  /\ field' = row.loc /\ committed' = Selected(row.loc) /\ chosen' = row.loc.place
  /\ other' = row.other
  /\ seq' = 0 /\ asked' = 0 /\ offered' = FALSE /\ details' = {}
  /\ UNCHANGED <<server, events, faults>>

Next ==
  \/ TimerFires \/ Submit \/ Offer \/ ClickOutside \/ Leave
  \/ \E text \in {None, Free} : Type(text)
  \/ \E p \in Places : Pick(p)
  \/ \E d \in details, l \in Locations : DetailsArrive(d, l)
  \/ \E immediate \in BOOLEAN : Edit(immediate)
  \/ \E k \in DOMAIN posts :
       \/ Send(k) \/ Answer(k) \/ NoAnswer(k) \/ Load(k) \/ Store(k) \/ Tell(k)
       \/ NobodySelected(k)

Spec == Init /\ [][Next]_vars

-----------------------------------------------------------------------------
(* Properties.                                                             *)

\* Every value of the variables has its type; no autosave is under way beside
\* another whose answer is still to come, and the timer never runs beside a setup.
TypeOK ==
  /\ {field, committed, row.loc} \subseteq Locations
  /\ {seq, asked} \subseteq 0..MaxEvents /\ {offered, timer, doubt} \subseteq BOOLEAN
  /\ details \subseteq [place : Places, seq : 1..MaxEvents]
  /\ mode \in {"editing", "saving", "leaving", "gone"}
  /\ Len(posts) <= MaxPosts + 1
  /\ \A k \in DOMAIN posts : posts[k].at \in {"waiting", "sent", "loaded", "stored", "over"}
  /\ \A j, k \in DOMAIN posts : j < k /\ posts[k].at # "waiting" =>
       posts[j].at = "over" \/ posts[j].lost
  /\ mode # "editing" => ~timer
  /\ status \in {"draft", "active"} /\ chosen \in Places \cup {None}

\* The page's place is the one picked or restored last, with its own text and
\* its own coordinates: no late answer puts another one back.  A row in which
\* overlapping saves mixed two places is shown as it is.
PickStands ==
  field.place # None =>
    /\ field.place = chosen
    /\ NoneLost => field.text \in {Label(chosen), Address(chosen)} /\ field.xy \in {chosen, None}

\* A stored location is one place: its text, its id and its coordinates, or
\* nothing; typed text is never stored.  Saves that overlap at the server, which
\* takes a lost answer, can mix two.
LocationWhole ==
  NoneLost =>
    /\ row.loc.place = None => row.loc = Nowhere
    /\ row.loc.place # None => /\ row.loc.text \in {Label(row.loc.place), Address(row.loc.place)}
                               /\ row.loc.xy \in {row.loc.place, None}

\* Once everything has settled the row holds what the page shows, but for a pick
\* dismissed before its details came and for saves whose answer was lost.  (Only
\* a row that lost answers have mixed can show a place without a text, which the
\* server does not keep.)
SavedIsForm ==
  /\ mode = "editing" /\ ~timer /\ ~Awaited /\ ~doubt
  /\ \A k \in DOMAIN posts : posts[k].at = "over" \/ (posts[k].lost /\ posts[k].at = "stored")
  => /\ row = [loc |-> Details(Body.loc), other |-> other]
     /\ NoneLost => row = Body

\* The invitations say what the form showed when it was submitted for setup, and
\* no save from before that changes the row afterwards.
SetupSendsForm ==
  status = "active" /\ NoneLost =>
    told = posts[Len(posts)].body /\ row = told

=============================================================================
