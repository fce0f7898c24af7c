--------------------------- MODULE DraftFormProofs ---------------------------
(***************************************************************************)
(* DraftForm, for any places and any number of edits, saves and lost       *)
(* answers: what the page shows, what its saves carry and what the row     *)
(* holds agree.  The invariant says of every POST where it stands in the   *)
(* chain, what it read and what it carries; a POST that is sure is one no  *)
(* lost save has stored beside.                                            *)
(***************************************************************************)
EXTENDS DraftForm, TLAPS

Bodies == [loc : Locations, other : Nat]

PostSet ==
  [setup : BOOLEAN, body : Bodies, old : Bodies \cup {None}, lost : BOOLEAN, sure : BOOLEAN,
   at : {"waiting", "sent", "loaded", "stored", "over"}]

\* The number of POSTs, those there were and those that are settled for the page.
Last == Len(posts)
Posts == 1..Last
Done(p) == p.at = "over" \/ p.lost

\* One place, or nothing.
Whole(l) ==
  /\ l.place = None => l = Nowhere
  /\ l.place # None => l.text \in {Label(l.place), Address(l.place)} /\ l.xy \in {l.place, None}

\* What the server keeps of a form.
Kept(b) == [loc |-> Details(b.loc), other |-> b.other]

PageOK ==
  /\ field \in Locations /\ committed \in Locations
  /\ chosen \in Places \cup {None} /\ other \in Nat
  /\ seq \in Nat /\ asked \in Nat /\ events \in Nat
  /\ asked <= seq /\ seq <= events /\ events <= MaxEvents
  /\ offered \in BOOLEAN /\ timer \in BOOLEAN /\ doubt \in BOOLEAN
  /\ mode \in {"editing", "saving", "leaving", "gone"}
  /\ details \subseteq [place : Places, seq : 1..seq]

ServerOK ==
  /\ row \in Bodies /\ told \in Bodies \cup {None} /\ status \in {"draft", "active"}
  /\ posts \in Seq(PostSet)
  /\ \A k \in Posts : posts[k].at = "loaded" => posts[k].old \in Bodies

\* The chain of saves, and the setup at its end.
Chain ==
  /\ \A k \in Posts : posts[k].setup => ~posts[k].lost
  /\ \A k \in Posts : posts[k].lost => posts[k].at # "waiting"
  /\ \A j, k \in Posts : j < k /\ posts[k].at # "waiting" => Done(posts[j])
  /\ mode = "saving" => /\ Last \in 1..MaxPosts
                        /\ ~posts[Last].setup /\ ~Done(posts[Last])
  /\ \A k \in Posts : posts[k].setup /\ posts[k].at # "over" =>
       mode = "leaving" /\ k = Last /\ posts[k].at # "waiting"
  /\ Last <= MaxPosts + 1
  /\ mode # "editing" => ~timer
  /\ status = "active" => mode = "gone"

\* A place on the page is the one chosen; so is the pick whose details are awaited.
Picked ==
  /\ field.place # None => field.place = chosen
  /\ \A d \in details : d.seq = seq => d.place = chosen

\* Without a lost answer no two places are mixed anywhere.
FieldWhole == (field.place # None => Whole(field)) /\ Whole(committed)

PostsWhole == \A k \in Posts : Whole(posts[k].body.loc)

AllWhole == NoneLost => Whole(row.loc) /\ FieldWhole /\ PostsWhole

\* What a POST read is still there, and what it stored.
ReadsStand ==
  \A k \in Posts : ~posts[k].lost /\ (posts[k].sure \/ NoneLost) =>
    /\ posts[k].at = "loaded" => posts[k].old = row
    /\ posts[k].at = "stored" => row = Kept(posts[k].body)

\* Doubt comes over all POSTs there are, and leaves with one sent after it.
Sureness ==
  /\ \A j, k \in Posts : j < k /\ posts[j].sure => posts[k].sure
  /\ \A k \in Posts : ~Done(posts[k]) /\ ~posts[k].sure => doubt

\* When nothing is about to be saved, the last save carries the form, or the row
\* holds it.
Resting == mode = "editing" /\ ~timer /\ ~Awaited

FormSaved ==
  Resting =>
    /\ Last > 0 /\ ~Done(posts[Last]) /\ posts[Last].sure => posts[Last].body = Body
    /\ (\A k \in Posts : Done(posts[k])) /\ ~doubt => row = Kept(Body)

\* After the setup.
SetupTold ==
  status = "active" /\ NoneLost =>
    /\ Last > 0 /\ \A k \in Posts : posts[k].at = "over"
    /\ told = posts[Last].body /\ row = told

Types == PageOK /\ ServerOK /\ Chain
Says  == Picked /\ AllWhole /\ ReadsStand /\ Sureness /\ FormSaved /\ SetupTold

-----------------------------------------------------------------------------
(* Sequences of POSTs, and locations.                                      *)

LEMMA AppendPost ==
  ASSUME posts \in Seq(PostSet), NEW p \in PostSet, posts' = Append(posts, p)
  PROVE  /\ posts' \in Seq(PostSet) /\ Last \in Nat /\ Last' = Last + 1
         /\ Posts' = Posts \cup {Last'} /\ Last' \notin Posts
         /\ posts'[Last'] = p /\ \A k \in Posts : posts'[k] = posts[k]
  <1>1. Len(posts) \in Nat /\ Len(posts') = Len(posts) + 1
    OBVIOUS
  <1>2. posts' \in Seq(PostSet)
    OBVIOUS
  <1>3. posts'[Len(posts) + 1] = p /\ \A k \in 1..Len(posts) : posts'[k] = posts[k]
    OBVIOUS
  <1> QED
    BY <1>1, <1>2, <1>3 DEF Last, Posts

LEMMA ChangePost ==
  ASSUME posts \in Seq(PostSet), NEW k \in Posts, NEW p \in PostSet, posts' = [posts EXCEPT ![k] = p]
  PROVE  /\ posts' \in Seq(PostSet) /\ Last \in Nat /\ Last' = Last /\ Posts' = Posts
         /\ posts'[k] = p /\ \A j \in Posts \ {k} : posts'[j] = posts[j]
  <1>1. Len(posts) \in Nat /\ DOMAIN posts = 1..Len(posts) /\ \A j \in 1..Len(posts) : posts[j] \in PostSet
    OBVIOUS
  <1>2. posts' \in [1..Len(posts) -> PostSet]
    BY <1>1
  <1>3. posts' \in Seq(PostSet) /\ Len(posts') = Len(posts)
    BY <1>1, <1>2
  <1>4. posts'[k] = p /\ \A j \in 1..Len(posts) \ {k} : posts'[j] = posts[j]
    BY <1>1 DEF Posts, Last
  <1> QED
    BY <1>1, <1>3, <1>4 DEF Posts, Last

LEMMA UnsurePosts ==
  ASSUME posts \in Seq(PostSet), posts' = Unsure
  PROVE  /\ posts' \in Seq(PostSet) /\ Last \in Nat /\ Last' = Last /\ Posts' = Posts
         /\ \A j \in Posts : /\ posts'[j].sure = FALSE
                             /\ posts'[j].setup = posts[j].setup /\ posts'[j].body = posts[j].body
                             /\ posts'[j].old = posts[j].old /\ posts'[j].lost = posts[j].lost
                             /\ posts'[j].at = posts[j].at
  <1>1. Len(posts) \in Nat /\ DOMAIN posts = 1..Len(posts) /\ \A j \in 1..Len(posts) : posts[j] \in PostSet
    OBVIOUS
  <1>2. \A j \in 1..Len(posts) : posts'[j] = [posts[j] EXCEPT !.sure = FALSE]
    BY <1>1 DEF Unsure
  <1>3. ASSUME NEW j \in 1..Len(posts) PROVE posts'[j] \in PostSet
    <2>1. posts[j] \in PostSet /\ posts'[j] = [posts[j] EXCEPT !.sure = FALSE]
      BY <1>1, <1>2
    <2> QED
      BY <2>1 DEF PostSet
  <1>4. posts' \in [1..Len(posts) -> PostSet]
    BY <1>1, <1>3 DEF Unsure
  <1>5. posts' \in Seq(PostSet) /\ Len(posts') = Len(posts)
    BY <1>1, <1>4
  <1>6. \A j \in 1..Len(posts) :
          /\ posts'[j].sure = FALSE
          /\ posts'[j].setup = posts[j].setup /\ posts'[j].body = posts[j].body
          /\ posts'[j].old = posts[j].old /\ posts'[j].lost = posts[j].lost
          /\ posts'[j].at = posts[j].at
    BY ZenonT(60), <1>1, <1>2 DEF PostSet
  <1> QED
    BY <1>1, <1>5, <1>6 DEF Posts, Last

LEMMA PostTypes ==
  ASSUME ServerOK
  PROVE  /\ Last \in Nat /\ DOMAIN posts = Posts
         /\ \A k \in Posts : /\ posts[k] \in PostSet /\ posts[k].lost \in BOOLEAN
                             /\ posts[k].sure \in BOOLEAN /\ posts[k].setup \in BOOLEAN
                             /\ posts[k].body \in Bodies
                             /\ posts[k].at \in {"waiting", "sent", "loaded", "stored", "over"}
  <1>1. \A k \in Posts : posts[k] \in PostSet
    BY DEF ServerOK, Posts, Last
  <1> QED
    BY <1>1 DEF ServerOK, Posts, Last, PostSet

LEMMA LostNow == ASSUME ServerOK PROVE NoneLost = \A k \in Posts : ~posts[k].lost
  BY PostTypes DEF NoneLost

LEMMA NowhereIs == Nowhere \in Locations /\ Nowhere.place = None /\ Whole(Nowhere)
  BY DEF Nowhere, Locations, Whole

LEMMA BodyIs ==
  ASSUME PageOK
  PROVE  /\ Body \in Bodies /\ Body.other = other
         /\ Body.loc = IF field.place # None THEN field
                       ELSE IF committed.place # None THEN committed ELSE Nowhere
  BY NowhereIs DEF PageOK, Body, Bodies

LEMMA BodyType == PageOK => Body \in Bodies
  BY BodyIs

LEMMA BodyWhole == PageOK /\ FieldWhole => Whole(Body.loc)
  BY BodyIs, NowhereIs DEF FieldWhole

LEMMA DetailsIs ==
  ASSUME NEW l \in Locations
  PROVE  Details(l) \in Locations /\ (Whole(l) => Details(l) = l)
  BY NowhereIs, DraftFormAssumption DEF Details, Whole, Locations

LEMMA KeptIs ==
  ASSUME NEW b \in Bodies
  PROVE  Kept(b) \in Bodies /\ (Whole(b.loc) => Kept(b) = b)
  BY DetailsIs DEF Kept, Bodies

\* What is written over a row that is still as it was read.
LEMMA ChangedIs ==
  ASSUME NEW old \in Locations, NEW new \in Locations, NEW now \in Locations
  PROVE  Changed(old, new, now) \in Locations /\ (old = now => Changed(old, new, now) = new)
  <1> DEFINE m == [text |-> IF new.text # old.text THEN new.text ELSE now.text,
                   place |-> IF new.place # old.place THEN new.place ELSE now.place,
                   xy |-> IF new.xy # old.xy THEN new.xy ELSE now.xy]
  <1>1. Changed(old, new, now) = m
    BY DEF Changed, Locations
  <1>2. m \in Locations
    BY DEF Locations
  <1>3. old = now => m = new
    BY DEF Locations
  <1> QED
    BY <1>1, <1>2, <1>3

LEMMA SelectedIs ==
  ASSUME NEW l \in Locations
  PROVE  /\ Selected(l) \in Locations /\ (Selected(l).place = l.place)
         /\ (l.place # None => Selected(l) = l) /\ (Whole(l) => Selected(l) = l)
         /\ (Whole(l) => Whole(Selected(l))) /\ (l.place = None => Whole(Selected(l)))
  BY NowhereIs DEF Selected, Whole

-----------------------------------------------------------------------------
(* What the page does to the chain.                                        *)

LEMMA NewPost ==
  ASSUME NEW b \in Bodies
  PROVE  /\ Post(FALSE, b) \in PostSet /\ Post(FALSE, b).at = "waiting" /\ Post(FALSE, b).body = b
         /\ ~Post(FALSE, b).setup /\ ~Post(FALSE, b).lost /\ Post(FALSE, b).sure
         /\ Post(TRUE, b) \in PostSet /\ Post(TRUE, b).at = "sent" /\ Post(TRUE, b).body = b
         /\ Post(TRUE, b).setup /\ ~Post(TRUE, b).lost /\ Post(TRUE, b).sure
  BY DEF Post, PostSet

\* The form joins the chain as it is.
LEMMA Enqueued ==
  ASSUME Types, ReadsStand, Sureness, NEW b \in Bodies, Enqueue(b),
         mode = "editing", mode' \in {"editing", "saving"}, timer' = FALSE,
         UNCHANGED <<row, status, told, doubt>>
  PROVE  /\ ServerOK' /\ Chain' /\ ReadsStand' /\ Sureness' /\ NoneLost' = NoneLost
         /\ Last' > 0 /\ Last' \in Posts' /\ posts'[Last'].body = b /\ ~Done(posts'[Last'])
         /\ PostsWhole /\ Whole(b.loc) => PostsWhole'
  <1> DEFINE p == Post(FALSE, b)
  <1>1. /\ p \in PostSet /\ p.at = "waiting" /\ p.body = b /\ ~p.setup /\ ~p.lost /\ p.sure
        /\ Last < MaxPosts /\ posts' = Append(posts, p)
    BY NewPost DEF Enqueue, Last
  <1> HIDE DEF p
  <1>2. /\ posts' \in Seq(PostSet) /\ Last \in Nat /\ Last' = Last + 1
        /\ Posts' = Posts \cup {Last'} /\ Last' \notin Posts /\ Posts = 1..Last
        /\ posts'[Last'] = p /\ \A k \in Posts : posts'[k] = posts[k]
    BY <1>1, AppendPost DEF Types, ServerOK, Posts
  <1>10. \A k \in Posts' : \/ k \in Posts /\ k \in Nat /\ k < Last' /\ posts'[k] = posts[k]
                           \/ k = Last' /\ k \in Nat /\ posts'[k] = p
    <2> TAKE k \in Posts'
    <2>1. CASE k \in Posts
      <3>1. posts'[k] = posts[k]
        BY <1>2, <2>1
      <3>2. k \in Nat /\ k < Last'
        BY <1>2, <2>1
      <3> QED
        BY <2>1, <3>1, <3>2
    <2>2. CASE k = Last'
      BY <1>2, <2>2
    <2> QED
      BY <1>2, <2>1, <2>2
  <1>3. ServerOK'
    BY ZenonT(60), <1>1, <1>2 DEF Types, ServerOK
  <1>4. MaxPosts \in Nat
    BY DraftFormAssumption
  <1>5. Chain'
    <2>1. \A k \in Posts' : posts'[k].setup => ~posts'[k].lost /\ posts'[k].at = "over"
      BY ZenonT(60), <1>1, <1>2 DEF Types, Chain
    <2>2. \A j, k \in Posts' : j < k /\ posts'[k].at # "waiting" => Done(posts'[j])
      <3> SUFFICES ASSUME NEW j \in Posts', NEW k \in Posts', j < k, posts'[k].at # "waiting"
                   PROVE  Done(posts'[j])
        OBVIOUS
      <3>1. k \in Posts /\ k < Last' /\ posts'[k] = posts[k]
        BY <1>1, <1>10
      <3>2. j \in Posts /\ posts'[j] = posts[j]
        BY <1>10, <3>1
      <3> QED
        BY <3>1, <3>2 DEF Types, Chain
    <2>3. Last' \in 1..MaxPosts /\ ~posts'[Last'].setup /\ ~Done(posts'[Last'])
      BY <1>1, <1>2, <1>4 DEF Done
    <2>4. status' # "active"
      BY DEF Types, Chain
    <2>5. Last' <= MaxPosts + 1
      BY <1>2, <1>4, <2>3
    <2>6. \A k \in Posts' : posts'[k].setup => ~posts'[k].lost
      BY <2>1
    <2>8. \A k \in Posts' : posts'[k].lost => posts'[k].at # "waiting"
      BY <1>1, <1>10 DEF Types, Chain
    <2>7. \A k \in Posts' : posts'[k].setup /\ posts'[k].at # "over" =>
            mode' = "leaving" /\ k = Last' /\ posts'[k].at # "waiting"
      BY <2>1
    <2> QED
      BY <2>2, <2>3, <2>4, <2>5, <2>6, <2>7, <2>8 DEF Chain
  <1>6. NoneLost' = NoneLost
    <2>1. NoneLost' = \A k \in Posts' : ~posts'[k].lost
      BY <1>2 DEF NoneLost, Posts, Last
    <2> QED
      BY <1>1, <1>2, <2>1, LostNow DEF Types
  <1>7. ReadsStand'
    <2> SUFFICES ASSUME NEW k \in Posts', ~posts'[k].lost, posts'[k].sure \/ NoneLost'
                 PROVE  /\ posts'[k].at = "loaded" => posts'[k].old = row'
                        /\ posts'[k].at = "stored" => row' = Kept(posts'[k].body)
      BY DEF ReadsStand, Kept, Details
    <2>1. CASE k = Last' /\ posts'[k] = p
      BY <1>1, <2>1
    <2>2. CASE k \in Posts /\ posts'[k] = posts[k]
      BY <1>6, <2>2 DEF ReadsStand, Kept, Details
    <2> QED
      BY <1>10, <2>1, <2>2
  <1>8. Sureness'
    <2>1. \A j, k \in Posts' : j < k /\ posts'[j].sure => posts'[k].sure
      <3> SUFFICES ASSUME NEW j \in Posts', NEW k \in Posts', j < k, posts'[j].sure
                   PROVE  posts'[k].sure
        OBVIOUS
      <3>1. CASE k = Last' /\ posts'[k] = p
        BY <1>1, <3>1
      <3>2. CASE k \in Posts /\ k \in Nat /\ k < Last' /\ posts'[k] = posts[k]
        <4>1. j \in Posts /\ posts'[j] = posts[j]
          BY <1>10, <3>2
        <4> QED
          BY <3>2, <4>1 DEF Sureness
      <3> QED
        BY <1>10, <3>1, <3>2
    <2>2. \A k \in Posts' : ~Done(posts'[k]) /\ ~posts'[k].sure => doubt'
      BY <1>1, <1>10 DEF Sureness
    <2> QED
      BY <2>1, <2>2 DEF Sureness
  <1>9. PostsWhole /\ Whole(b.loc) => PostsWhole'
    <2> SUFFICES ASSUME PostsWhole, Whole(b.loc), NEW k \in Posts' PROVE Whole(posts'[k].body.loc)
      BY DEF PostsWhole, Whole
    <2> QED
      BY <1>1, <1>10 DEF PostsWhole
  <1> QED
    BY <1>1, <1>2, <1>3, <1>5, <1>6, <1>7, <1>8, <1>9 DEF Done

\* Nothing is queued.
LEMMA NotQueued ==
  ASSUME Types, ReadsStand, Sureness, UNCHANGED <<posts, row, status, told, doubt, mode>>,
         timer' = timer \/ mode = "editing"
  PROVE  /\ ServerOK' /\ Chain' /\ ReadsStand' /\ Sureness' /\ NoneLost' = NoneLost
         /\ Last' = Last /\ Posts' = Posts
         /\ PostsWhole => PostsWhole'
  <1>1. Last' = Last /\ Posts' = Posts
    BY DEF Posts, Last
  <1>2. NoneLost' = NoneLost
    BY DEF NoneLost
  <1>3. ServerOK' /\ Chain' /\ ReadsStand' /\ Sureness' /\ (PostsWhole => PostsWhole')
    BY <1>1, <1>2 DEF Types, ServerOK, Chain, ReadsStand, Kept, Details, Sureness, PostsWhole, Whole, Done
  <1> QED
    BY <1>1, <1>2, <1>3

\* A change is on the page and raises no event.
LEMMA Doubted ==
  ASSUME Types, ReadsStand, Sureness, posts' = Unsure, doubt' = TRUE,
         UNCHANGED <<row, status, told, mode, timer>>
  PROVE  /\ ServerOK' /\ Chain' /\ ReadsStand' /\ Sureness' /\ NoneLost' = NoneLost
         /\ PostsWhole => PostsWhole'
         /\ \A k \in Posts' : ~posts'[k].sure
         /\ Last' = Last /\ (Last > 0 => Last \in Posts')
  <1>1. /\ posts' \in Seq(PostSet) /\ Last \in Nat /\ Last' = Last /\ Posts' = Posts
        /\ \A j \in Posts : /\ posts'[j].sure = FALSE
                            /\ posts'[j].setup = posts[j].setup /\ posts'[j].body = posts[j].body
                            /\ posts'[j].old = posts[j].old /\ posts'[j].lost = posts[j].lost
                            /\ posts'[j].at = posts[j].at
    BY UnsurePosts DEF Types, ServerOK
  <1>2. \A j \in Posts : Done(posts'[j]) = Done(posts[j])
    BY <1>1 DEF Done
  <1>3. ServerOK'
    BY <1>1 DEF Types, ServerOK
  <1>4. Chain'
    <2>1. mode = "saving" => Last \in Posts
      BY <1>1 DEF Types, Chain, Posts
    <2> QED
      BY <1>1, <1>2, <2>1 DEF Types, Chain
  <1>5. NoneLost' = NoneLost
    <2>1. NoneLost' = \A k \in Posts' : ~posts'[k].lost
      BY <1>1 DEF NoneLost, Posts, Last
    <2> QED
      BY <1>1, <2>1, LostNow DEF Types
  <1>6. ReadsStand'
    BY <1>1, <1>5 DEF ReadsStand, Kept, Details
  <1>7. Sureness'
    BY <1>1 DEF Sureness
  <1>8. PostsWhole => PostsWhole'
    BY <1>1 DEF PostsWhole, Whole
  <1> QED
    BY <1>1, <1>3, <1>4, <1>5, <1>6, <1>7, <1>8 DEF Posts

\* The form as it is after a step.
LEMMA BodyLater == /\ PageOK' => (Body \in Bodies)'
                   /\ (PageOK /\ FieldWhole)' => Whole(Body.loc)'
  BY BodyType, BodyWhole, PTL

LEMMA NotTold == ASSUME Types, mode \in {"editing", "saving"} PROVE status # "active"
  BY DEF Types, Chain

\* A change on the page that queues a save, at once or by the timer.
LEMMA QueueSays ==
  ASSUME Types, Says, PageOK', Picked', NEW immediate \in BOOLEAN, QueueSave(immediate),
         UNCHANGED <<mode, server, doubt>>, mode \in {"editing", "saving"}, NoneLost => FieldWhole'
  PROVE  Types' /\ Says'
  <1>1. UNCHANGED <<row, status, told, doubt, mode>> /\ status # "active"
    BY NotTold DEF server
  <1>2. CASE mode = "editing" /\ immediate
    <2>1. Body' \in Bodies /\ (FieldWhole' => Whole(Body.loc)')
      BY BodyLater
    <2>2. Enqueue(Body') /\ timer' = FALSE
      BY <1>2 DEF QueueSave
    <2> DEFINE b == Body'
    <2>3. b \in Bodies /\ Enqueue(b) /\ (FieldWhole' => Whole(b.loc))
      BY <2>1, <2>2 DEF Whole, Nowhere
    <2> HIDE DEF b
    <2>4. /\ ServerOK' /\ Chain' /\ ReadsStand' /\ Sureness' /\ NoneLost' = NoneLost
          /\ Last' > 0 /\ Last' \in Posts' /\ posts'[Last'].body = b /\ ~Done(posts'[Last'])
          /\ PostsWhole /\ Whole(b.loc) => PostsWhole'
      BY <1>1, <1>2, <2>2, <2>3, Enqueued DEF Says
    <2>5. AllWhole'
      BY <1>1, <2>3, <2>4 DEF Says, AllWhole, Whole
    <2>6. FormSaved'
      BY <2>4 DEF FormSaved, b, Done
    <2>7. SetupTold'
      BY <1>1 DEF SetupTold
    <2> QED
      BY <2>4, <2>5, <2>6, <2>7 DEF Types, Says
  <1>3. CASE ~(mode = "editing" /\ immediate)
    <2>1. posts' = posts /\ (timer' = timer \/ mode = "editing") /\ (mode = "editing" => timer' = TRUE)
      BY <1>3 DEF QueueSave
    <2>2. /\ ServerOK' /\ Chain' /\ ReadsStand' /\ Sureness' /\ NoneLost' = NoneLost
          /\ PostsWhole => PostsWhole'
      BY <1>1, <2>1, NotQueued DEF Says
    <2>3. AllWhole'
      BY <1>1, <2>2 DEF Says, AllWhole, Whole
    <2>4. FormSaved' /\ SetupTold'
      BY <1>1, <2>1 DEF FormSaved, Resting, SetupTold
    <2> QED
      BY <2>2, <2>3, <2>4 DEF Types, Says
  <1> QED
    BY <1>2, <1>3

\* A change that queues nothing.
LEMMA StillSays ==
  ASSUME Types, Says, PageOK', Picked', UNCHANGED <<posts, timer, mode, server, doubt>>,
         mode \in {"editing", "saving"}, NoneLost => FieldWhole',
         Resting' => Resting /\ Body' = Body
  PROVE  Types' /\ Says'
  <1>1. UNCHANGED <<row, status, told, doubt, mode>> /\ status # "active"
    BY NotTold DEF server
  <1>2. /\ ServerOK' /\ Chain' /\ ReadsStand' /\ Sureness' /\ NoneLost' = NoneLost
        /\ Last' = Last /\ Posts' = Posts
        /\ PostsWhole => PostsWhole'
    BY <1>1, NotQueued DEF Says
  <1>3. AllWhole'
    BY <1>1, <1>2 DEF Says, AllWhole, Whole
  <1>4. Kept(Body)' = Kept(Body')
    BY DEF Kept, Details, Nowhere
  <1>5. FormSaved'
    BY <1>1, <1>2, <1>4 DEF Says, FormSaved, Done
  <1>6. SetupTold'
    BY <1>1 DEF SetupTold
  <1> QED
    BY <1>2, <1>3, <1>5, <1>6 DEF Types, Says

\* A change that raises no event.
LEMMA DoubtSays ==
  ASSUME Types, Says, PageOK', Picked', posts' = Unsure, doubt' = TRUE,
         UNCHANGED <<timer, mode, server>>,
         mode \in {"editing", "saving"}, NoneLost => FieldWhole'
  PROVE  Types' /\ Says'
  <1>1. UNCHANGED <<row, status, told, mode>> /\ status # "active"
    BY NotTold DEF server
  <1>2. /\ ServerOK' /\ Chain' /\ ReadsStand' /\ Sureness' /\ NoneLost' = NoneLost
        /\ PostsWhole => PostsWhole'
        /\ \A k \in Posts' : ~posts'[k].sure
        /\ Last' = Last /\ (Last > 0 => Last \in Posts')
    BY <1>1, Doubted DEF Says
  <1>3. AllWhole'
    BY <1>1, <1>2 DEF Says, AllWhole, Whole
  <1>4. FormSaved' /\ SetupTold'
    BY <1>1, <1>2 DEF FormSaved, SetupTold
  <1> QED
    BY <1>2, <1>3, <1>4 DEF Types, Says

-----------------------------------------------------------------------------
(* The page's actions.                                                     *)

LEMMA EventIs ==
  ASSUME PageOK, Event
  PROVE  /\ mode \in {"editing", "saving"} /\ events' = events + 1 /\ events' <= MaxEvents
         /\ seq + 1 <= events' /\ seq + 1 \in Nat /\ seq <= events' /\ events' \in Nat
  BY DraftFormAssumption DEF Event, PageOK

\* After a new sequence no details that were asked for are awaited.
LEMMA NotAwaited == ASSUME PageOK, details' = details, seq' = seq + 1
                    PROVE  ~Awaited' /\ \A d \in details' : d.seq # seq'
  BY DEF PageOK, Awaited

LEMMA MoreDetails == ASSUME PageOK PROVE details \subseteq [place : Places, seq : 1..seq+1]
  BY DEF PageOK

LEMMA BodySame ==
  ASSUME UNCHANGED <<field, committed, other>> PROVE Body' = Body
  BY DEF Body, Nowhere

LEMMA TypeStep ==
  ASSUME Types, Says, NEW text \in {None, Free}, Type(text)
  PROVE  Types' /\ Says'
  <1>1. /\ seq' = seq + 1 /\ asked' \in {seq', 0} /\ field' = [Nowhere EXCEPT !.text = text]
        /\ UNCHANGED <<committed, offered, details, other, chosen, mode, server, doubt>>
        /\ QueueSave(FALSE)
    BY DEF Type, Typed
  <1>2. /\ mode \in {"editing", "saving"} /\ events' = events + 1 /\ events' <= MaxEvents
        /\ seq + 1 <= events' /\ seq + 1 \in Nat /\ events' \in Nat
    BY EventIs DEF Types, Type
  <1>3. field' \in Locations /\ field'.place = None
    BY <1>1 DEF Nowhere, Locations
  <1>4. timer' \in BOOLEAN
    BY <1>1 DEF QueueSave, Types, PageOK
  <1>5. PageOK'
    BY <1>1, <1>2, <1>3, <1>4, MoreDetails DEF Types, PageOK
  <1>6. Picked'
    BY <1>1, <1>3, NotAwaited DEF Types, Picked
  <1>7. NoneLost => FieldWhole'
    BY <1>1, <1>3 DEF Says, AllWhole, FieldWhole, Whole
  <1> QED
    BY <1>1, <1>2, <1>5, <1>6, <1>7, QueueSays

LEMMA OfferStep ==
  ASSUME Types, Says, Offer
  PROVE  Types' /\ Says'
  <1>1. /\ offered' = TRUE /\ asked' = 0 /\ mode \in {"editing", "saving"}
        /\ UNCHANGED <<field, committed, seq, details, other, chosen, timer, mode, posts, server, events, doubt>>
    BY DEF Offer
  <1>2. PageOK'
    BY <1>1 DEF Types, PageOK
  <1>3. Picked' /\ (NoneLost => FieldWhole')
    BY <1>1 DEF Says, Picked, AllWhole, FieldWhole, Whole
  <1>4. Resting' => Resting /\ Body' = Body
    BY <1>1, BodySame DEF Resting, Awaited
  <1> QED
    BY <1>1, <1>2, <1>3, <1>4, StillSays

LEMMA PickStep ==
  ASSUME Types, Says, NEW p \in Places, Pick(p)
  PROVE  Types' /\ Says'
  <1> DEFINE d == [place |-> p, seq |-> seq + 1]
  <1>1. /\ seq' = seq + 1 /\ asked' = 0
        /\ field' = [text |-> Label(p), place |-> p, xy |-> None]
        /\ details' = details \cup {d} /\ chosen' = p
        /\ UNCHANGED <<committed, offered, other, timer, mode, posts, server, doubt>>
    BY DEF Pick
  <1>2. /\ mode \in {"editing", "saving"} /\ events' = events + 1 /\ events' <= MaxEvents
        /\ seq + 1 <= events' /\ seq + 1 \in Nat /\ events' \in Nat
    BY EventIs DEF Types, Pick
  <1>3. field' \in Locations /\ field'.place = p /\ Whole(field') /\ p # None
    BY <1>1, DraftFormAssumption DEF Locations, Label, Whole
  <1>4. d \in [place : Places, seq : 1..seq+1] /\ d.seq = seq' /\ d.place = p
    BY <1>1, <1>2 DEF Types, PageOK
  <1> HIDE DEF d
  <1>5. PageOK'
    BY <1>1, <1>2, <1>3, <1>4, MoreDetails DEF Types, PageOK
  <1>6. \A e \in details : e.seq # seq'
    BY <1>1 DEF Types, PageOK
  <1>7. Picked'
    BY <1>1, <1>3, <1>4, <1>6 DEF Picked
  <1>8. NoneLost => FieldWhole'
    BY <1>1, <1>3 DEF Says, AllWhole, FieldWhole, Whole
  <1>9. Awaited'
    BY <1>1, <1>4 DEF Awaited
  <1> QED
    BY <1>1, <1>2, <1>5, <1>7, <1>8, <1>9, StillSays DEF Resting

LEMMA DetailsStep ==
  ASSUME Types, Says, NEW d \in details, NEW l \in Locations, DetailsArrive(d, l)
  PROVE  Types' /\ Says'
  <1>1. /\ details' = details \ {d} /\ mode \in {"editing", "saving"}
        /\ l \in {[text |-> Address(d.place), place |-> d.place, xy |-> c] : c \in {d.place, None}}
                 \cup {field}
        /\ UNCHANGED <<seq, asked, offered, chosen, mode, server, events, doubt>>
    BY DEF DetailsArrive
  <1>2. d.place \in Places /\ d.place # None
    BY DraftFormAssumption DEF Types, PageOK
  <1>3. CASE Current(d)
    <2>1. /\ field' = l /\ committed' = IF l.place # None THEN l ELSE committed
          /\ UNCHANGED other /\ QueueSave(TRUE)
      BY <1>3 DEF DetailsArrive
    <2>2. timer' \in BOOLEAN
      BY <2>1 DEF QueueSave, Types, PageOK
    <2>3. PageOK'
      BY <1>1, <2>1, <2>2 DEF Types, PageOK
    <2>4. d.place = chosen
      BY <1>3 DEF Says, Picked, Current
    <2>5. Picked'
      <3>1. l.place # None => l.place = chosen
        BY <1>1, <2>4 DEF Says, Picked
      <3> QED
        BY <1>1, <2>1, <3>1 DEF Says, Picked
    <2>6. NoneLost => FieldWhole'
      <3> SUFFICES ASSUME NoneLost PROVE FieldWhole'
        OBVIOUS
      <3>1. l.place # None => Whole(l)
        BY <1>1, <1>2 DEF Says, AllWhole, FieldWhole, Whole
      <3> QED
        BY <2>1, <3>1 DEF Says, AllWhole, FieldWhole, Whole
    <2> QED
      BY <1>1, <2>1, <2>3, <2>5, <2>6, QueueSays
  <1>4. CASE ~Current(d)
    <2>1. UNCHANGED <<field, committed, other, timer, posts>>
      BY <1>4 DEF DetailsArrive
    <2>2. PageOK'
      BY <1>1, <2>1 DEF Types, PageOK
    <2>3. Picked' /\ (NoneLost => FieldWhole')
      BY <1>1, <2>1 DEF Says, Picked, AllWhole, FieldWhole, Whole
    <2>4. Awaited' = Awaited
      BY <1>1, <1>4 DEF Awaited, Current
    <2>5. Resting' => Resting /\ Body' = Body
      BY <1>1, <2>1, <2>4, BodySame DEF Resting
    <2> QED
      BY <1>1, <2>1, <2>2, <2>3, <2>5, StillSays
  <1> QED
    BY <1>3, <1>4

LEMMA ClickStep ==
  ASSUME Types, Says, ClickOutside
  PROVE  Types' /\ Says'
  <1>1. /\ seq' = seq + 1 /\ asked' = 0
        /\ UNCHANGED <<field, committed, offered, details, other, chosen, timer, mode, server>>
    BY DEF ClickOutside
  <1>2. /\ mode \in {"editing", "saving"} /\ events' = events + 1 /\ events' <= MaxEvents
        /\ seq + 1 <= events' /\ seq + 1 \in Nat /\ events' \in Nat
    BY EventIs DEF Types, ClickOutside
  <1>3. doubt' \in BOOLEAN
    BY DEF ClickOutside, Doubt, Types, PageOK
  <1>4. PageOK'
    BY <1>1, <1>2, <1>3, MoreDetails DEF Types, PageOK
  <1>5. Picked' /\ (NoneLost => FieldWhole')
    BY <1>1, NotAwaited DEF Types, Says, Picked, AllWhole, FieldWhole, Whole
  <1>6. CASE Awaited
    BY <1>1, <1>2, <1>4, <1>5, <1>6, DoubtSays DEF ClickOutside, Doubt
  <1>7. CASE ~Awaited
    <2>1. UNCHANGED <<posts, doubt>>
      BY <1>7 DEF ClickOutside
    <2>2. Resting' => Resting /\ Body' = Body
      BY <1>1, <1>7, BodySame DEF Resting
    <2> QED
      BY <1>1, <1>2, <1>4, <1>5, <2>1, <2>2, StillSays
  <1> QED
    BY <1>6, <1>7

LEMMA LeaveStep ==
  ASSUME Types, Says, Leave
  PROVE  Types' /\ Says'
  <1>1. /\ seq' = seq + 1 /\ asked' = 0
        /\ UNCHANGED <<offered, details, other, mode, server>>
    BY DEF Leave
  <1>2. /\ mode \in {"editing", "saving"} /\ events' = events + 1 /\ events' <= MaxEvents
        /\ seq + 1 <= events' /\ seq + 1 \in Nat /\ events' \in Nat
    BY EventIs DEF Types, Leave
  <1>3. CASE field.place # None
    <2>1. /\ committed' = field /\ UNCHANGED <<field, chosen, timer>>
          /\ IF Awaited THEN Doubt ELSE UNCHANGED <<posts, doubt>>
      BY <1>3 DEF Leave
    <2>2. doubt' \in BOOLEAN
      BY <2>1 DEF Doubt, Types, PageOK
    <2>3. PageOK'
      BY <1>1, <1>2, <2>1, <2>2, MoreDetails DEF Types, PageOK
    <2>4. Picked' /\ (NoneLost => FieldWhole')
      BY <1>1, <1>3, <2>1, NotAwaited DEF Types, Says, Picked, AllWhole, FieldWhole, Whole
    <2>5. CASE Awaited
      BY <1>1, <1>2, <2>1, <2>3, <2>4, <2>5, DoubtSays DEF Doubt
    <2>6. CASE ~Awaited
      <3>1. UNCHANGED <<posts, doubt>>
        BY <2>1, <2>6
      <3>2. Body' = Body
        BY <1>1, <1>3, <2>1 DEF Body
      <3>3. Resting' => Resting /\ Body' = Body
        BY <1>1, <2>1, <2>6, <3>2 DEF Resting
      <3> QED
        BY <1>1, <1>2, <2>1, <2>3, <2>4, <3>1, <3>3, StillSays
    <2> QED
      BY <2>5, <2>6
  <1>4. CASE field.place = None
    <2>1. /\ committed' = IF field.text = None THEN Nowhere ELSE committed
          /\ field' = Selected(committed') /\ chosen' = committed'.place
          /\ QueueSave(TRUE) /\ UNCHANGED doubt
      BY <1>4 DEF Leave
    <2>2. committed' \in Locations /\ (NoneLost => Whole(committed'))
      BY <2>1, NowhereIs DEF Types, PageOK, Says, AllWhole, FieldWhole
    <2>3. /\ field' \in Locations /\ field'.place = committed'.place
          /\ (NoneLost => Whole(field'))
      BY <2>1, <2>2, SelectedIs
    <2>4. timer' \in BOOLEAN
      BY <2>1 DEF QueueSave, Types, PageOK
    <2>5. PageOK'
      <3>1. chosen' \in Places \cup {None}
        BY <2>1, <2>2 DEF Locations
      <3> QED
        BY <1>1, <1>2, <2>1, <2>2, <2>3, <2>4, <3>1, MoreDetails DEF Types, PageOK
    <2>6. Picked'
      BY <1>1, <2>1, <2>3, NotAwaited DEF Types, Picked
    <2>7. NoneLost => FieldWhole'
      BY <2>2, <2>3 DEF FieldWhole, Whole
    <2> QED
      BY <1>1, <1>2, <2>1, <2>5, <2>6, <2>7, QueueSays
  <1> QED
    BY <1>3, <1>4

LEMMA EditStep ==
  ASSUME Types, Says, NEW immediate \in BOOLEAN, Edit(immediate)
  PROVE  Types' /\ Says'
  <1>1. /\ other' = other + 1
        /\ UNCHANGED <<field, committed, seq, asked, offered, details, chosen, mode, server, doubt>>
        /\ QueueSave(immediate)
    BY DEF Edit
  <1>2. /\ mode \in {"editing", "saving"} /\ events' = events + 1 /\ events' <= MaxEvents
        /\ seq <= events' /\ events' \in Nat
    BY EventIs DEF Types, Edit
  <1>3. timer' \in BOOLEAN
    BY <1>1 DEF QueueSave, Types, PageOK
  <1>4. PageOK'
    BY <1>1, <1>2, <1>3 DEF Types, PageOK
  <1>5. Picked' /\ (NoneLost => FieldWhole')
    BY <1>1 DEF Says, Picked, AllWhole, FieldWhole, Whole
  <1> QED
    BY <1>1, <1>2, <1>4, <1>5, QueueSays

-----------------------------------------------------------------------------
(* The chain's actions.                                                    *)

\* The page is left as it is.
LEMMA PageKept ==
  ASSUME Types, Says, UNCHANGED <<page, events>>, timer' \in BOOLEAN, doubt' \in BOOLEAN,
         mode' \in {"editing", "saving", "leaving", "gone"}
  PROVE  /\ PageOK' /\ Picked' /\ FieldWhole' = FieldWhole /\ Awaited' = Awaited /\ Body' = Body
         /\ (row' = row => (row = Kept(Body))' = (row = Kept(Body)))
  <1>1. /\ UNCHANGED <<field, committed, seq, asked, offered, details, other, chosen, events>>
    BY DEF page
  <1>2. PageOK' /\ Picked' /\ FieldWhole' = FieldWhole /\ Awaited' = Awaited
    BY <1>1 DEF Types, Says, PageOK, Picked, FieldWhole, Whole, Awaited
  <1>3. Body' = Body
    BY <1>1, BodySame
  <1>4. Kept(Body)' = Kept(Body)
    BY <1>3 DEF Kept, Details, Nowhere
  <1> QED
    BY <1>2, <1>3, <1>4

LEMMA EnqueueSays ==
  ASSUME Types, Says, Enqueue(Body), mode = "editing", mode' \in {"editing", "saving"}, timer' = FALSE,
         UNCHANGED <<page, server, events, doubt>>
  PROVE  Types' /\ Says'
  <1>1. UNCHANGED <<row, status, told, doubt>> /\ doubt' \in BOOLEAN /\ timer' \in BOOLEAN
    BY DEF server, Types, PageOK
  <1>2. /\ PageOK' /\ Picked' /\ FieldWhole' = FieldWhole /\ Body' = Body
    BY <1>1, PageKept
  <1>3. Body \in Bodies /\ (FieldWhole => Whole(Body.loc))
    BY BodyType, BodyWhole DEF Types
  <1> DEFINE b == Body
  <1>4. b \in Bodies /\ Enqueue(b) /\ (FieldWhole => Whole(b.loc))
    BY <1>3
  <1> HIDE DEF b
  <1>5. /\ ServerOK' /\ Chain' /\ ReadsStand' /\ Sureness' /\ NoneLost' = NoneLost
        /\ Last' > 0 /\ Last' \in Posts' /\ posts'[Last'].body = b /\ ~Done(posts'[Last'])
        /\ PostsWhole /\ Whole(b.loc) => PostsWhole'
    BY <1>1, <1>4, Enqueued DEF Says
  <1>6. AllWhole'
    BY <1>1, <1>2, <1>4, <1>5 DEF Says, AllWhole, Whole
  <1>7. FormSaved'
    BY <1>2, <1>5 DEF FormSaved, b, Done
  <1>8. SetupTold'
    BY <1>1, NotTold DEF SetupTold
  <1> QED
    BY <1>2, <1>5, <1>6, <1>7, <1>8 DEF Types, Says

LEMMA TimerStep ==
  ASSUME Types, Says, TimerFires \/ Submit
  PROVE  Types' /\ Says'
  <1>1. CASE TimerFires
    <2>1. timer /\ timer' = FALSE /\ Enqueue(Body) /\ UNCHANGED <<page, mode, server, events, doubt>>
      BY <1>1 DEF TimerFires
    <2>2. mode = "editing"
      BY <2>1 DEF Types, Chain
    <2> QED
      BY <2>1, <2>2, EnqueueSays
  <1>2. CASE Submit
    BY <1>2, EnqueueSays DEF Submit
  <1> QED
    BY <1>1, <1>2

\* One POST moves on.
LEMMA MovedPost ==
  ASSUME Types, Says, NEW k \in Posts, NEW p \in PostSet, posts' = [posts EXCEPT ![k] = p],
         p.setup = posts[k].setup, p.body = posts[k].body, p.sure = posts[k].sure,
         posts[k].lost => p.lost
  PROVE  /\ posts' \in Seq(PostSet) /\ Last \in Nat /\ Last' = Last /\ Posts' = Posts /\ Posts = 1..Last
         /\ posts'[k] = p /\ \A j \in Posts \ {k} : posts'[j] = posts[j]
         /\ PostsWhole => PostsWhole'
         /\ \A i, j \in Posts' : i < j /\ posts'[i].sure => posts'[j].sure
         /\ NoneLost' => NoneLost
         /\ NoneLost = \A j \in Posts : ~posts[j].lost
         /\ NoneLost' = \A j \in Posts : ~posts'[j].lost
         /\ \A j \in Posts : posts'[j].setup = posts[j].setup /\ posts'[j].body = posts[j].body
                             /\ posts'[j].sure = posts[j].sure
  <1>1. /\ posts' \in Seq(PostSet) /\ Last \in Nat /\ Last' = Last /\ Posts' = Posts /\ Posts = 1..Last
        /\ posts'[k] = p /\ \A j \in Posts \ {k} : posts'[j] = posts[j]
    BY ChangePost DEF Types, ServerOK, Posts
  <1>2. \A j \in Posts : posts'[j].setup = posts[j].setup /\ posts'[j].body = posts[j].body
                         /\ posts'[j].sure = posts[j].sure /\ (posts[j].lost => posts'[j].lost)
    BY <1>1
  <1>3. PostsWhole => PostsWhole'
    BY <1>1, <1>2 DEF PostsWhole, Whole
  <1>4. \A i, j \in Posts' : i < j /\ posts'[i].sure => posts'[j].sure
    BY <1>1, <1>2 DEF Says, Sureness
  <1>5. NoneLost = \A j \in Posts : ~posts[j].lost
    BY LostNow DEF Types
  <1>6. NoneLost' = \A j \in Posts : ~posts'[j].lost
    BY <1>1 DEF NoneLost, Posts, Last
  <1> QED
    BY <1>1, <1>2, <1>3, <1>4, <1>5, <1>6

LEMMA SendStep ==
  ASSUME Types, Says, NEW k \in Posts, Send(k)
  PROVE  Types' /\ Says'
  <1> DEFINE p == [posts[k] EXCEPT !.at = "sent"]
  <1>1. /\ posts[k].at = "waiting" /\ Turn(k)
        /\ UNCHANGED <<page, timer, mode, server, events, doubt>>
    BY DEF Send
  <1>2. posts' = [posts EXCEPT ![k] = p]
    BY DEF Send
  <1>3. /\ p \in PostSet /\ p.at = "sent" /\ p.setup = posts[k].setup /\ p.body = posts[k].body
        /\ p.sure = posts[k].sure /\ p.lost = posts[k].lost
    BY PostTypes DEF Types, PostSet
  <1> HIDE DEF p
  <1>4. /\ posts' \in Seq(PostSet) /\ Last \in Nat /\ Last' = Last /\ Posts' = Posts /\ Posts = 1..Last
        /\ posts'[k] = p /\ \A j \in Posts \ {k} : posts'[j] = posts[j]
        /\ PostsWhole => PostsWhole'
        /\ \A i, j \in Posts' : i < j /\ posts'[i].sure => posts'[j].sure
        /\ NoneLost = \A j \in Posts : ~posts[j].lost
        /\ NoneLost' = \A j \in Posts : ~posts'[j].lost
        /\ \A j \in Posts : posts'[j].setup = posts[j].setup /\ posts'[j].body = posts[j].body
                            /\ posts'[j].sure = posts[j].sure
    BY <1>2, <1>3, MovedPost
  <1>5. \A j \in Posts : Done(posts'[j]) = Done(posts[j]) /\ posts'[j].lost = posts[j].lost
    BY <1>1, <1>3, <1>4 DEF Done
  <1>6. NoneLost' = NoneLost
    BY <1>4, <1>5
  <1>7. UNCHANGED <<row, status, told>>
    BY <1>1 DEF server
  <1>8. /\ PageOK' /\ Picked' /\ FieldWhole' = FieldWhole /\ Awaited' = Awaited /\ Body' = Body
        /\ (row = Kept(Body))' = (row = Kept(Body))
    BY <1>1, <1>7, PageKept DEF Types, PageOK
  <1>9. ServerOK'
    BY <1>3, <1>4, <1>7 DEF Types, ServerOK
  <1>10. ~posts[k].setup
    BY <1>1 DEF Types, Chain
  <1>11. \A i, j \in Posts' : i < j /\ posts'[j].at # "waiting" => Done(posts'[i])
    <2> SUFFICES ASSUME NEW i \in Posts, NEW j \in Posts, i < j, posts'[j].at # "waiting"
                 PROVE  Done(posts[i])
      BY <1>4, <1>5
    <2>1. CASE j = k
      BY <1>1, <1>4, <2>1 DEF Turn, Done
    <2>2. CASE j # k
      BY <1>4, <2>2 DEF Types, Chain
    <2> QED
      BY <2>1, <2>2
  <1>12. mode = "saving" => Last \in Posts
    BY <1>4 DEF Types, Chain
  <1>13. Chain'
    BY SMTT(60), <1>1, <1>3, <1>4, <1>5, <1>7, <1>10, <1>11, <1>12 DEF Types, Chain
  <1>14. AllWhole'
    BY <1>4, <1>6, <1>7, <1>8 DEF Says, AllWhole, Whole
  <1>15. ReadsStand'
    BY <1>3, <1>4, <1>6, <1>7 DEF Says, ReadsStand, Kept, Details
  <1>16. Sureness'
    BY <1>1, <1>4, <1>5 DEF Says, Sureness
  <1>17. FormSaved'
    <2>1. Resting' = Resting /\ Last \in Nat /\ (Last > 0 => Last \in Posts)
      BY <1>1, <1>4, <1>8 DEF Resting
    <2> QED
      BY <1>1, <1>4, <1>5, <1>8, <2>1 DEF Says, FormSaved
  <1>18. SetupTold'
    BY <1>1, <1>6, <1>7 DEF Says, SetupTold
  <1> QED
    BY <1>8, <1>9, <1>13, <1>14, <1>15, <1>16, <1>17, <1>18 DEF Types, Says

\* A save is over and the setup follows it.
LEMMA FollowedPost ==
  ASSUME posts \in Seq(PostSet), NEW k \in Posts, NEW q \in PostSet, NEW p \in PostSet,
         posts' = Append([posts EXCEPT ![k] = q], p)
  PROVE  /\ posts' \in Seq(PostSet) /\ Last \in Nat /\ Last' = Last + 1
         /\ Posts' = Posts \cup {Last'} /\ Last' \notin Posts /\ Posts = 1..Last
         /\ posts'[Last'] = p /\ posts'[k] = q /\ \A j \in Posts \ {k} : posts'[j] = posts[j]
  <1> DEFINE ps == [posts EXCEPT ![k] = q]
  <1>1. Len(posts) \in Nat /\ DOMAIN posts = 1..Len(posts) /\ \A j \in 1..Len(posts) : posts[j] \in PostSet
    OBVIOUS
  <1>2. ps \in [1..Len(posts) -> PostSet]
    BY <1>1
  <1>3. ps \in Seq(PostSet) /\ Len(ps) = Len(posts)
    BY <1>1, <1>2
  <1>4. ps[k] = q /\ \A j \in 1..Len(posts) \ {k} : ps[j] = posts[j]
    BY <1>1 DEF Posts, Last
  <1> HIDE DEF ps
  <1>5. posts' = Append(ps, p)
    BY DEF ps
  <1>6. posts' \in Seq(PostSet) /\ Len(posts') = Len(posts) + 1
    <2>1. Append(ps, p) \in Seq(PostSet)
      BY <1>3
    <2>2. Len(Append(ps, p)) = Len(ps) + 1
      BY <1>3
    <2> QED
      BY <1>3, <1>5, <2>1, <2>2
  <1>7. posts'[Len(posts) + 1] = p /\ \A j \in 1..Len(posts) : posts'[j] = ps[j]
    BY <1>3, <1>5
  <1>8. Posts = 1..Len(posts) /\ Last = Len(posts) /\ Last' = Len(posts') /\ Posts' = 1..Len(posts')
    BY DEF Posts, Last
  <1>9. Posts' = Posts \cup {Last'} /\ Last' \notin Posts
    BY <1>1, <1>6, <1>8
  <1> QED
    BY <1>1, <1>4, <1>6, <1>7, <1>8, <1>9

\* An answer arrives.
LEMMA AnswerStep ==
  ASSUME Types, Says, NEW k \in Posts, Answer(k)
  PROVE  Types' /\ Says'
  <1> DEFINE q == [posts[k] EXCEPT !.at = "over"]
  <1>1. /\ ~posts[k].setup /\ ~posts[k].lost /\ posts[k].at = "stored" /\ Settled(k, TRUE)
        /\ doubt' = (doubt /\ ~posts[k].sure)
        /\ UNCHANGED <<page, timer, server, events>>
    BY DEF Answer
  <1>2. /\ q \in PostSet /\ q.at = "over" /\ q.setup = posts[k].setup /\ q.body = posts[k].body
        /\ q.sure = posts[k].sure /\ q.lost = posts[k].lost
    BY PostTypes DEF Types, PostSet
  <1>3. UNCHANGED <<row, status, told>> /\ timer' \in BOOLEAN /\ doubt' \in BOOLEAN
    BY <1>1, PostTypes DEF server, Types, PageOK
  <1>4. posts[k].sure \/ doubt
    BY <1>1 DEF Says, Sureness, Done
  <1>5. \A i \in Posts : i < k => Done(posts[i])
    BY <1>1 DEF Types, Chain
  <1>6. CASE ~(mode = "saving" /\ k = Last)
    <2>1. posts' = [posts EXCEPT ![k] = q] /\ UNCHANGED mode
      BY <1>1, <1>6 DEF Settled, Last
    <2> HIDE DEF q
    <2>2. /\ posts' \in Seq(PostSet) /\ Last \in Nat /\ Last' = Last /\ Posts' = Posts /\ Posts = 1..Last
          /\ posts'[k] = q /\ \A j \in Posts \ {k} : posts'[j] = posts[j]
          /\ PostsWhole => PostsWhole'
          /\ \A i, j \in Posts' : i < j /\ posts'[i].sure => posts'[j].sure
          /\ NoneLost = \A j \in Posts : ~posts[j].lost
          /\ NoneLost' = \A j \in Posts : ~posts'[j].lost
      BY <1>2, <2>1, MovedPost
    <2>3. /\ \A j \in Posts : posts'[j].lost = posts[j].lost /\ (Done(posts[j]) => Done(posts'[j]))
          /\ \A j \in Posts : (posts'[j].at = "waiting") = (posts[j].at = "waiting")
      BY <1>1, <1>2, <2>2 DEF Done
    <2>4. NoneLost' = NoneLost
      BY <2>2, <2>3
    <2>5. /\ PageOK' /\ Picked' /\ FieldWhole' = FieldWhole /\ Awaited' = Awaited /\ Body' = Body
          /\ (row = Kept(Body))' = (row = Kept(Body))
      BY <1>1, <1>3, <2>1, PageKept DEF Types, PageOK
    <2>6. ServerOK'
      BY <1>2, <1>3, <2>2 DEF Types, ServerOK
    <2>7. mode = "saving" => Last \in Posts
      BY <2>2 DEF Types, Chain
    <2>8. Chain'
      BY <1>1, <1>2, <1>3, <1>6, <2>1, <2>2, <2>3, <2>7 DEF Types, Chain
    <2>9. AllWhole'
      BY <1>3, <2>2, <2>4, <2>5 DEF Says, AllWhole, Whole
    <2>10. ReadsStand'
      BY <1>2, <1>3, <2>2, <2>4 DEF Says, ReadsStand, Kept, Details
    <2>11. \A j \in Posts : ~Done(posts'[j]) /\ ~posts'[j].sure => doubt'
      <3> SUFFICES ASSUME NEW j \in Posts, ~Done(posts'[j]), ~posts'[j].sure PROVE doubt'
        OBVIOUS
      <3>1. j # k /\ posts'[j] = posts[j]
        BY <1>2, <2>2 DEF Done
      <3>2. doubt /\ ~(j < k)
        BY <1>5, <3>1 DEF Says, Sureness
      <3>3. k < j
        BY <2>2, <3>1, <3>2
      <3>4. ~posts[k].sure
        BY <3>1, <3>3 DEF Says, Sureness
      <3> QED
        BY <1>1, <3>2, <3>4
    <2>12. Sureness'
      BY <2>2, <2>11 DEF Sureness
    <2>13. FormSaved'
      <3> SUFFICES ASSUME Resting
                   PROVE  /\ Last > 0 /\ ~Done(posts'[Last]) /\ posts'[Last].sure => posts'[Last].body = Body
                          /\ (\A j \in Posts : Done(posts'[j])) /\ ~doubt' => row = Kept(Body)
        BY <1>1, <2>1, <2>2, <2>5 DEF FormSaved, Resting
      <3>1. Last > 0 /\ ~Done(posts'[Last]) /\ posts'[Last].sure => posts'[Last].body = Body
        BY <1>2, <2>2 DEF Says, FormSaved, Done
      <3>2. ASSUME \A j \in Posts : Done(posts'[j]), ~doubt' PROVE row = Kept(Body)
        <4>1. posts[k].sure
          BY <1>1, <1>4, <3>2
        <4>2. k = Last
          <5> SUFFICES ASSUME k # Last PROVE FALSE
            OBVIOUS
          <5>1. Last \in Posts /\ k < Last /\ posts'[Last] = posts[Last]
            BY <2>2
          <5>2. posts[Last].at = "waiting"
            BY <1>1, <5>1 DEF Types, Chain, Done
          <5> QED
            BY <3>2, <5>1, <5>2 DEF Types, Chain, Done
        <4>3. posts[k].body = Body
          BY <1>1, <2>2, <4>1, <4>2 DEF Says, FormSaved, Done
        <4>4. row = Kept(posts[k].body)
          BY <1>1, <4>1 DEF Says, ReadsStand
        <4> QED
          BY <4>3, <4>4
      <3> QED
        BY <3>1, <3>2
    <2>14. SetupTold'
      BY <1>1, <1>3, <2>4 DEF Says, SetupTold
    <2> QED
      BY <2>5, <2>6, <2>8, <2>9, <2>10, <2>12, <2>13, <2>14 DEF Types, Says
  <1>7. CASE mode = "saving" /\ k = Last
    <2> DEFINE p == Post(TRUE, Body)
    <2>1. posts' = Append([posts EXCEPT ![k] = q], p) /\ mode' = "leaving"
      BY <1>1, <1>7 DEF Settled, Last
    <2>2. Body \in Bodies /\ (FieldWhole => Whole(Body.loc))
      BY BodyType, BodyWhole DEF Types
    <2>3. p \in PostSet /\ p.at = "sent" /\ p.body = Body /\ p.setup /\ ~p.lost /\ p.sure
      BY <2>2, NewPost
    <2> HIDE DEF p, q
    <2>4. /\ posts' \in Seq(PostSet) /\ Last \in Nat /\ Last' = Last + 1
          /\ Posts' = Posts \cup {Last'} /\ Last' \notin Posts /\ Posts = 1..Last
          /\ posts'[Last'] = p /\ posts'[k] = q /\ \A j \in Posts \ {k} : posts'[j] = posts[j]
      BY <1>2, <2>1, <2>3, FollowedPost DEF Types, ServerOK
    <2>5. /\ PageOK' /\ Picked' /\ FieldWhole' = FieldWhole /\ Awaited' = Awaited /\ Body' = Body
      BY <1>1, <1>3, <2>1, PageKept DEF Types, PageOK
    <2>6. \A j \in Posts : Done(posts'[j])
      BY <1>2, <1>5, <1>7, <2>4 DEF Done
    <2>7. \A j \in Posts : /\ posts'[j].lost = posts[j].lost /\ posts'[j].body = posts[j].body
                           /\ posts'[j].sure = posts[j].sure /\ posts'[j].setup = posts[j].setup
                           /\ posts'[j].at = "over" \/ posts'[j] = posts[j]
      BY <1>2, <2>4
    <2>8. NoneLost' = NoneLost
      <3>1. NoneLost' = \A j \in Posts' : ~posts'[j].lost
        BY <2>4 DEF NoneLost, Posts, Last
      <3> QED
        BY <2>3, <2>4, <2>7, <3>1, LostNow DEF Types
    <2>9. ServerOK'
      BY <1>2, <1>3, <2>3, <2>4 DEF Types, ServerOK
    <2>10. Chain'
      <3>1. \A j \in Posts : posts[j].setup => posts[j].at = "over"
        BY <1>7 DEF Types, Chain
      <3>2. \A i, j \in Posts' : i < j /\ posts'[j].at # "waiting" => Done(posts'[i])
        <4> SUFFICES ASSUME NEW i \in Posts', NEW j \in Posts', i < j PROVE i \in Posts
          BY <2>6
        <4> QED
          BY <2>4
      <3>3. Last' <= MaxPosts + 1
        BY <1>7, <2>4, DraftFormAssumption DEF Types, Chain
      <3>4. timer' = FALSE /\ status' # "active"
        BY <1>1, <1>3, <1>7 DEF Types, Chain
      <3>5. \A j \in Posts' : posts'[j].setup => ~posts'[j].lost
        BY <2>3, <2>4, <2>7 DEF Types, Chain
      <3>6. \A j \in Posts' : posts'[j].lost => posts'[j].at # "waiting"
        BY <2>3, <2>4, <2>7 DEF Types, Chain
      <3>7. \A j \in Posts' : posts'[j].setup /\ posts'[j].at # "over" =>
              mode' = "leaving" /\ j = Last' /\ posts'[j].at # "waiting"
        BY <2>1, <2>3, <2>4, <2>7, <3>1
      <3> QED
        BY <2>1, <3>2, <3>3, <3>4, <3>5, <3>6, <3>7 DEF Chain
    <2>11. AllWhole'
      <3>1. PostsWhole /\ Whole(Body.loc) => PostsWhole'
        <4> SUFFICES ASSUME PostsWhole, Whole(Body.loc), NEW j \in Posts' PROVE Whole(posts'[j].body.loc)
          BY DEF PostsWhole, Whole
        <4>1. CASE j \in Posts
          BY <2>7, <4>1 DEF PostsWhole
        <4>2. CASE j = Last'
          BY <2>3, <2>4, <4>2
        <4> QED
          BY <2>4, <4>1, <4>2
      <3> QED
        BY <1>3, <2>2, <2>5, <2>8, <3>1 DEF Says, AllWhole, Whole
    <2>12. ReadsStand'
      BY <1>3, <2>3, <2>4, <2>7, <2>8 DEF Says, ReadsStand, Kept, Details
    <2>13. Sureness'
      <3>1. \A i, j \in Posts' : i < j /\ posts'[i].sure => posts'[j].sure
        <4> SUFFICES ASSUME NEW i \in Posts', NEW j \in Posts, i < j, posts'[i].sure PROVE posts'[j].sure
          BY <2>3, <2>4
        <4>1. i \in Posts
          BY <2>4
        <4> QED
          BY <2>7, <4>1 DEF Says, Sureness
      <3>2. \A j \in Posts' : ~Done(posts'[j]) /\ ~posts'[j].sure => doubt'
        BY <2>3, <2>4, <2>6
      <3> QED
        BY <3>1, <3>2 DEF Sureness
    <2>14. FormSaved' /\ SetupTold'
      BY <1>3, <1>7, <2>1, NotTold DEF FormSaved, Resting, SetupTold
    <2> QED
      BY <2>5, <2>9, <2>10, <2>11, <2>12, <2>13, <2>14 DEF Types, Says
  <1> QED
    BY <1>6, <1>7

\* A save moves on whose answer will not come or has not come: what does not
\* depend on how the row is touched.
LEMMA NoAnswerStep ==
  ASSUME Types, Says, NEW k \in Posts, NoAnswer(k)
  PROVE  Types' /\ Says'
  <1> DEFINE q == [posts[k] EXCEPT !.lost = TRUE]
  <1>1. /\ ~posts[k].setup /\ ~posts[k].lost /\ posts[k].at \in {"sent", "loaded", "stored"}
        /\ Settled(k, FALSE) /\ doubt' = TRUE
        /\ UNCHANGED <<page, timer, server, events>>
    BY DEF NoAnswer
  <1>2. /\ q \in PostSet /\ q.at = posts[k].at /\ q.setup = posts[k].setup /\ q.body = posts[k].body
        /\ q.sure = posts[k].sure /\ q.lost /\ q.old = posts[k].old
    BY PostTypes DEF Types, PostSet
  <1>3. UNCHANGED <<row, status, told>> /\ timer' \in BOOLEAN /\ doubt' \in BOOLEAN
    BY <1>1 DEF server, Types, PageOK
  <1>4. /\ posts' = [posts EXCEPT ![k] = q]
        /\ mode' = IF mode = "saving" /\ k = Last THEN "editing" ELSE mode
    BY <1>1 DEF Settled, Last
  <1> HIDE DEF q
  <1>5. /\ posts' \in Seq(PostSet) /\ Last \in Nat /\ Last' = Last /\ Posts' = Posts /\ Posts = 1..Last
        /\ posts'[k] = q /\ \A j \in Posts \ {k} : posts'[j] = posts[j]
        /\ \A i, j \in Posts' : i < j /\ posts'[i].sure => posts'[j].sure
        /\ NoneLost' = \A j \in Posts : ~posts'[j].lost
    BY <1>2, <1>4, MovedPost
  <1>6. /\ \A j \in Posts : /\ posts'[j].at = posts[j].at /\ (Done(posts[j]) => Done(posts'[j]))
                            /\ posts'[j].setup = posts[j].setup /\ posts'[j].sure = posts[j].sure
    BY <1>1, <1>2, <1>5 DEF Done
  <1>7. ~NoneLost'
    BY <1>2, <1>5
  <1>8. PageOK' /\ Picked' /\ Awaited' = Awaited /\ Body' = Body
    BY <1>1, <1>3, <1>4, PageKept DEF Types, PageOK
  <1>9. ServerOK'
    BY <1>2, <1>3, <1>5 DEF Types, ServerOK
  <1>10. mode = "saving" => Last \in Posts
    BY <1>5 DEF Types, Chain
  <1>11. Chain'
    <2>1. mode' = "saving" => mode = "saving" /\ k # Last /\ posts'[Last] = posts[Last]
      BY <1>4, <1>5, <1>10
    <2>2. \A j \in Posts' : posts'[j].setup => ~posts'[j].lost
      BY <1>1, <1>2, <1>5 DEF Types, Chain
    <2>3. \A j \in Posts' : posts'[j].lost => posts'[j].at # "waiting"
      BY <1>1, <1>2, <1>5 DEF Types, Chain
    <2>4. \A j \in Posts' : posts'[j].setup /\ posts'[j].at # "over" =>
            mode' = "leaving" /\ j = Last' /\ posts'[j].at # "waiting"
      BY <1>4, <1>5, <1>6 DEF Types, Chain
    <2>5. \A i, j \in Posts' : i < j /\ posts'[j].at # "waiting" => Done(posts'[i])
      BY <1>5, <1>6 DEF Types, Chain
    <2>6. (mode' # "editing" => ~timer') /\ (status' = "active" => mode' = "gone") /\ Last' <= MaxPosts + 1
      BY <1>1, <1>3, <1>4, <1>5 DEF Types, Chain
    <2>7. mode' = "saving" => Last' \in 1..MaxPosts /\ ~posts'[Last'].setup /\ ~Done(posts'[Last'])
      BY <1>5, <2>1 DEF Types, Chain
    <2> QED
      BY <2>2, <2>3, <2>4, <2>5, <2>6, <2>7 DEF Chain
  <1>12. AllWhole' /\ SetupTold'
    BY <1>7 DEF AllWhole, SetupTold
  <1>13. ReadsStand'
    BY <1>2, <1>3, <1>5, <1>7 DEF Says, ReadsStand, Kept, Details
  <1>14. Sureness'
    BY <1>1, <1>5 DEF Sureness
  <1>15. FormSaved'
    <2> SUFFICES ASSUME Resting', Last > 0, ~Done(posts'[Last]), posts'[Last].sure
                 PROVE  posts'[Last].body = Body
      BY <1>1, <1>5, <1>8 DEF FormSaved
    <2>1. k # Last /\ posts'[Last] = posts[Last]
      BY <1>2, <1>5 DEF Done
    <2>2. Resting
      BY <1>1, <1>4, <1>8, <2>1 DEF Resting
    <2> QED
      BY <2>1, <2>2 DEF Says, FormSaved
  <1> QED
    BY <1>8, <1>9, <1>11, <1>12, <1>13, <1>14, <1>15 DEF Types, Says

\* The row is read, or it is no draft any more.
LEMMA LoadStep ==
  ASSUME Types, Says, NEW k \in Posts, Load(k)
  PROVE  Types' /\ Says'
  <1>1. posts[k].at = "sent" /\ UNCHANGED <<page, timer, server, events, doubt>>
    BY DEF Load
  <1>2. UNCHANGED <<row, status, told>> /\ timer' \in BOOLEAN /\ doubt' \in BOOLEAN
    BY <1>1 DEF server, Types, PageOK
  <1>3. \E q \in PostSet :
          /\ posts' = [posts EXCEPT ![k] = q]
          /\ q.setup = posts[k].setup /\ q.body = posts[k].body /\ q.sure = posts[k].sure
          /\ \/ status = "draft" /\ q.at = "loaded" /\ q.old = row /\ q.lost = posts[k].lost
             \/ status = "active" /\ q.lost /\ q.at \in {"sent", "over"} /\ ~q.setup
          /\ mode' = mode
    <2>1. CASE status = "draft"
      <3> DEFINE q == [posts[k] EXCEPT !.at = "loaded", !.old = row]
      <3>1. posts' = [posts EXCEPT ![k] = q] /\ mode' = mode
        <4>1. posts' = [posts EXCEPT ![k].at = "loaded", ![k].old = row] /\ mode' = mode
          BY <2>1 DEF Load
        <4> QED
          BY <4>1, PostTypes DEF Types, ServerOK
      <3>2. /\ q \in PostSet /\ q.setup = posts[k].setup /\ q.body = posts[k].body
            /\ q.sure = posts[k].sure /\ q.at = "loaded" /\ q.old = row /\ q.lost = posts[k].lost
        BY PostTypes DEF Types, PostSet, ServerOK
      <3> HIDE DEF q
      <3> QED
        BY <2>1, <3>1, <3>2
    <2>2. CASE status # "draft"
      <3>1. status = "active" /\ mode = "gone"
        BY <2>2 DEF Types, ServerOK, Chain
      <3>2. ~posts[k].setup
        BY <1>1, <3>1 DEF Types, Chain
      <3>3. CASE posts[k].lost
        <4> DEFINE q == [posts[k] EXCEPT !.at = "over"]
        <4>1. posts' = [posts EXCEPT ![k] = q] /\ mode' = mode
          BY <2>2, <3>2, <3>3 DEF Load
        <4>2. /\ q \in PostSet /\ q.setup = posts[k].setup /\ q.body = posts[k].body
              /\ q.sure = posts[k].sure /\ q.at = "over" /\ q.lost = posts[k].lost
          BY PostTypes DEF Types, PostSet
        <4> HIDE DEF q
        <4> QED
          BY <3>1, <3>2, <3>3, <4>1, <4>2
      <3>4. CASE ~posts[k].lost
        <4> DEFINE q == [posts[k] EXCEPT !.lost = TRUE]
        <4>1. posts' = [posts EXCEPT ![k] = q] /\ mode' = mode
          BY <2>2, <3>1, <3>2, <3>4 DEF Load, Settled
        <4>2. /\ q \in PostSet /\ q.setup = posts[k].setup /\ q.body = posts[k].body
              /\ q.sure = posts[k].sure /\ q.at = "sent" /\ q.lost
          BY <1>1, PostTypes DEF Types, PostSet
        <4> HIDE DEF q
        <4> QED
          BY <3>1, <3>2, <4>1, <4>2
      <3> QED
        BY <3>3, <3>4
    <2> QED
      BY <2>1, <2>2
  <1>4. PICK q \in PostSet :
          /\ posts' = [posts EXCEPT ![k] = q]
          /\ q.setup = posts[k].setup /\ q.body = posts[k].body /\ q.sure = posts[k].sure
          /\ \/ status = "draft" /\ q.at = "loaded" /\ q.old = row /\ q.lost = posts[k].lost
             \/ status = "active" /\ q.lost /\ q.at \in {"sent", "over"} /\ ~q.setup
          /\ mode' = mode
    BY <1>3
  <1>5. /\ posts' \in Seq(PostSet) /\ Last \in Nat /\ Last' = Last /\ Posts' = Posts /\ Posts = 1..Last
        /\ posts'[k] = q /\ \A j \in Posts \ {k} : posts'[j] = posts[j]
        /\ PostsWhole => PostsWhole'
        /\ \A i, j \in Posts' : i < j /\ posts'[i].sure => posts'[j].sure
        /\ NoneLost' => NoneLost
        /\ NoneLost' = \A j \in Posts : ~posts'[j].lost
        /\ \A j \in Posts : posts'[j].setup = posts[j].setup /\ posts'[j].body = posts[j].body
                            /\ posts'[j].sure = posts[j].sure
    BY ZenonT(60), <1>4, MovedPost
  <1>6. /\ \A j \in Posts : /\ (posts'[j].at = "waiting") = (posts[j].at = "waiting")
                            /\ (Done(posts[j]) => Done(posts'[j]))
                            /\ posts'[j].at = "over" => posts[j].at = "over" \/ posts'[j].lost
    BY <1>1, <1>4, <1>5 DEF Done
  <1>7. /\ PageOK' /\ Picked' /\ FieldWhole' = FieldWhole /\ Awaited' = Awaited /\ Body' = Body
        /\ (row = Kept(Body))' = (row = Kept(Body))
    BY <1>1, <1>2, <1>4, PageKept DEF Types, PageOK
  <1>8. ServerOK'
    BY <1>2, <1>4, <1>5 DEF Types, ServerOK
  <1>9. mode = "saving" => Last \in Posts /\ (status = "draft")
    BY <1>5 DEF Types, Chain, ServerOK
  <1>10. Chain'
    <2>1. \A j \in Posts' : posts'[j].setup => ~posts'[j].lost
      BY <1>4, <1>5 DEF Types, Chain
    <2>2. \A j \in Posts' : posts'[j].lost => posts'[j].at # "waiting"
      BY <1>4, <1>5 DEF Types, Chain
    <2>3. \A j \in Posts' : posts'[j].setup /\ posts'[j].at # "over" =>
            mode' = "leaving" /\ j = Last' /\ posts'[j].at # "waiting"
      BY <1>1, <1>4, <1>5, <1>6 DEF Types, Chain
    <2>4. \A i, j \in Posts' : i < j /\ posts'[j].at # "waiting" => Done(posts'[i])
      BY <1>5, <1>6 DEF Types, Chain
    <2>5. (mode' # "editing" => ~timer') /\ (status' = "active" => mode' = "gone") /\ Last' <= MaxPosts + 1
      BY <1>1, <1>2, <1>4, <1>5 DEF Types, Chain
    <2>6. mode' = "saving" => Last' \in 1..MaxPosts /\ ~posts'[Last'].setup /\ ~Done(posts'[Last'])
      BY <1>4, <1>5, <1>9 DEF Types, Chain, Done
    <2> QED
      BY <2>1, <2>2, <2>3, <2>4, <2>5, <2>6 DEF Chain
  <1>11. AllWhole'
    BY <1>2, <1>5, <1>7 DEF Says, AllWhole, Whole
  <1>12. ReadsStand'
    BY <1>2, <1>4, <1>5 DEF Says, ReadsStand, Kept, Details
  <1>13. Sureness'
    BY <1>1, <1>5, <1>6 DEF Says, Sureness
  <1>14. mode = "editing" => status = "draft"
    BY DEF Types, Chain, ServerOK
  <1>15. FormSaved'
    <2> SUFFICES ASSUME Resting
                 PROVE  /\ Last > 0 /\ ~Done(posts'[Last]) /\ posts'[Last].sure => posts'[Last].body = Body
                        /\ (\A j \in Posts : Done(posts'[j])) /\ ~doubt => row = Kept(Body)
      BY <1>1, <1>4, <1>5, <1>7 DEF FormSaved, Resting
    <2>1. \A j \in Posts : Done(posts'[j]) = Done(posts[j])
      BY <1>1, <1>4, <1>5, <1>14 DEF Resting, Done
    <2>2. Last > 0 => Last \in Posts
      BY <1>5
    <2> QED
      BY <1>5, <2>1, <2>2 DEF Says, FormSaved
  <1>16. SetupTold'
    BY <1>1, <1>2, <1>5 DEF Says, SetupTold
  <1> QED
    BY <1>7, <1>8, <1>10, <1>11, <1>12, <1>13, <1>15, <1>16 DEF Types, Says

LEMMA UnsurePost ==
  ASSUME NEW p \in PostSet, NEW q, q = [p EXCEPT !.sure = FALSE]
  PROVE  /\ q \in PostSet /\ q.sure = FALSE /\ q.setup = p.setup /\ q.body = p.body
         /\ q.lost = p.lost /\ q.at = p.at /\ q.old = p.old
  <1>1. q \in PostSet
    BY DEF PostSet
  <1>2. /\ q.sure = FALSE /\ q.setup = p.setup /\ q.body = p.body
        /\ q.lost = p.lost /\ q.at = p.at /\ q.old = p.old
    BY DEF PostSet
  <1> QED
    BY <1>1, <1>2

LEMMA FunctionSeq ==
  ASSUME NEW n \in Nat, NEW s \in [1..n -> PostSet]
  PROVE  s \in Seq(PostSet) /\ Len(s) = n
  OBVIOUS

\* A lost save is stored: no POST there is can be sure of the row any more.
LEMMA UnsureOver ==
  ASSUME posts \in Seq(PostSet), NEW k \in Posts,
         posts' = [Unsure EXCEPT ![k].at = "over", ![k].old = None]
  PROVE  /\ posts' \in Seq(PostSet) /\ Last \in Nat /\ Last' = Last /\ Posts' = Posts
         /\ \A j \in Posts : /\ posts'[j].sure = FALSE
                             /\ posts'[j].setup = posts[j].setup /\ posts'[j].body = posts[j].body
                             /\ posts'[j].lost = posts[j].lost
         /\ posts'[k].at = "over"
         /\ \A j \in Posts \ {k} : posts'[j].at = posts[j].at /\ posts'[j].old = posts[j].old
  <1>1. Len(posts) \in Nat /\ DOMAIN posts = 1..Len(posts) /\ \A j \in 1..Len(posts) : posts[j] \in PostSet
    OBVIOUS
  <1>2. Posts = 1..Len(posts)
    BY DEF Posts, Last
  <1>3. Unsure = [j \in 1..Len(posts) |-> [posts[j] EXCEPT !.sure = FALSE]]
    BY <1>1 DEF Unsure
  <1> DEFINE u == [posts[k] EXCEPT !.sure = FALSE]
             q == [u EXCEPT !.at = "over", !.old = None]
  <1>4. u \in PostSet /\ u.sure = FALSE /\ u.setup = posts[k].setup /\ u.body = posts[k].body
        /\ u.lost = posts[k].lost
    BY <1>1, <1>2 DEF PostSet
  <1>5. posts' = [Unsure EXCEPT ![k] = q]
    BY <1>1, <1>2, <1>3
  <1> HIDE DEF u
  <1>6. q \in PostSet /\ q.sure = FALSE /\ q.setup = posts[k].setup /\ q.body = posts[k].body
        /\ q.lost = posts[k].lost /\ q.at = "over"
    BY <1>4 DEF PostSet
  <1> HIDE DEF q
  <1>7. posts' = [j \in 1..Len(posts) |-> IF j = k THEN q ELSE [posts[j] EXCEPT !.sure = FALSE]]
    BY <1>2, <1>3, <1>5
  <1>8. ASSUME NEW j \in Posts, j # k
        PROVE  /\ posts'[j] \in PostSet /\ posts'[j].sure = FALSE
               /\ posts'[j].setup = posts[j].setup /\ posts'[j].body = posts[j].body
               /\ posts'[j].lost = posts[j].lost
               /\ posts'[j].at = posts[j].at /\ posts'[j].old = posts[j].old
    <2>1. posts[j] \in PostSet /\ posts'[j] = [posts[j] EXCEPT !.sure = FALSE]
      BY <1>1, <1>2, <1>7, <1>8
    <2> QED
      BY <2>1, UnsurePost
  <1>9. posts'[k] = q
    BY <1>2, <1>7
  <1>10. posts' \in [1..Len(posts) -> PostSet]
    <2>1. \A j \in 1..Len(posts) : posts'[j] \in PostSet
      BY <1>2, <1>6, <1>8, <1>9
    <2> QED
      BY <1>7, <2>1
  <1>11. posts' \in Seq(PostSet) /\ Len(posts') = Len(posts)
    BY <1>1, <1>10, FunctionSeq
  <1> QED
    BY <1>1, <1>6, <1>8, <1>9, <1>11 DEF Posts, Last

LEMMA StoreStep ==
  ASSUME Types, Says, NEW k \in Posts, Store(k)
  PROVE  Types' /\ Says'
  <1> DEFINE new == Details(posts[k].body.loc)
             old == posts[k].old
             now == [loc |-> Changed(old.loc, new, row.loc),
                     other |-> IF posts[k].body.other # old.other THEN posts[k].body.other ELSE row.other]
  <1>1. /\ posts[k].at = "loaded" /\ row' = now
        /\ doubt' = (doubt \/ posts[k].lost)
        /\ posts' = [(IF posts[k].lost THEN Unsure ELSE posts) EXCEPT
                       ![k].at = IF posts[k].lost THEN "over" ELSE "stored", ![k].old = None]
        /\ UNCHANGED <<page, timer, mode, status, told, events>>
    BY DEF Store
  <1>2. /\ old \in Bodies /\ posts[k].body \in Bodies /\ row \in Bodies
        /\ old.loc \in Locations /\ posts[k].body.loc \in Locations /\ row.loc \in Locations
        /\ old.other \in Nat /\ posts[k].body.other \in Nat /\ row.other \in Nat
    BY <1>1, PostTypes DEF Types, ServerOK, Bodies
  <1>3. new \in Locations /\ (Whole(posts[k].body.loc) => new = posts[k].body.loc)
    BY <1>2, DetailsIs
  <1>4. Changed(old.loc, new, row.loc) \in Locations
        /\ (old.loc = row.loc => Changed(old.loc, new, row.loc) = new)
    BY <1>2, <1>3, ChangedIs
  <1>5. row' \in Bodies /\ (old = row => row' = [loc |-> new, other |-> posts[k].body.other])
    BY <1>1, <1>2, <1>4 DEF Bodies
  <1>6. old = row => row' = Kept(posts[k].body)
    BY <1>5 DEF Kept
  <1>7. old = row /\ Whole(posts[k].body.loc) => Whole(row'.loc)
    BY <1>3, <1>5
  <1> HIDE DEF new, old, now
  <1>8. timer' \in BOOLEAN /\ doubt' \in BOOLEAN
    BY <1>1, PostTypes DEF Types, PageOK
  <1>9. /\ PageOK' /\ Picked' /\ FieldWhole' = FieldWhole /\ Awaited' = Awaited /\ Body' = Body
    BY <1>1, <1>8, PageKept DEF Types, PageOK
  <1>12. posts[k].at = "loaded" /\ UNCHANGED <<timer, mode, status>>
    BY <1>1
  <1>10. CASE posts[k].lost
    <2>1. posts' = [Unsure EXCEPT ![k].at = "over", ![k].old = None] /\ doubt' = TRUE
      BY <1>1, <1>10
    <2>2. /\ posts' \in Seq(PostSet) /\ Last \in Nat /\ Last' = Last /\ Posts' = Posts
          /\ \A j \in Posts : /\ posts'[j].sure = FALSE
                              /\ posts'[j].setup = posts[j].setup /\ posts'[j].body = posts[j].body
                              /\ posts'[j].lost = posts[j].lost
          /\ posts'[k].at = "over"
          /\ \A j \in Posts \ {k} : posts'[j].at = posts[j].at /\ posts'[j].old = posts[j].old
      BY <2>1, UnsureOver DEF Types, ServerOK
    <2>3. \A j \in Posts : /\ (posts'[j].at = "waiting") = (posts[j].at = "waiting")
                           /\ Done(posts'[j]) = Done(posts[j])
      <3> TAKE j \in Posts
      <3>1. CASE j = k
        BY <1>1, <1>10, <2>2, <3>1 DEF Done
      <3>2. CASE j # k
        BY <2>2, <3>2 DEF Done
      <3> QED
        BY <3>1, <3>2
    <2>4. ~NoneLost'
      <3>1. NoneLost' = \A j \in Posts' : ~posts'[j].lost
        BY <2>2 DEF NoneLost, Posts, Last
      <3> QED
        BY <1>10, <2>2, <3>1
    <2>5. ServerOK'
      BY ZenonT(60), <1>1, <1>5, <2>2 DEF Types, ServerOK
    <2>6. mode = "saving" => Last \in Posts
      BY <2>2 DEF Types, Chain, Posts
    <2>7. ~posts[k].setup
      BY <1>10 DEF Types, Chain
    <2>8. Chain'
      <3>1. \A j \in Posts' : posts'[j].setup => ~posts'[j].lost
        BY <1>12, <2>2, <2>3, <2>6, <2>7 DEF Types, Chain
      <3>2. \A j \in Posts' : posts'[j].lost => posts'[j].at # "waiting"
        BY <1>12, <2>2, <2>3, <2>6, <2>7 DEF Types, Chain
      <3>3. \A j \in Posts' : posts'[j].setup /\ posts'[j].at # "over" =>
              mode' = "leaving" /\ j = Last' /\ posts'[j].at # "waiting"
        BY <1>12, <2>2, <2>3, <2>6, <2>7 DEF Types, Chain
      <3>4. \A i, j \in Posts' : i < j /\ posts'[j].at # "waiting" => Done(posts'[i])
        BY <1>12, <2>2, <2>3, <2>6, <2>7 DEF Types, Chain
      <3>5. (mode' # "editing" => ~timer') /\ (status' = "active" => mode' = "gone") /\ Last' <= MaxPosts + 1
        BY <1>12, <2>2, <2>3, <2>6, <2>7 DEF Types, Chain
      <3>6. mode' = "saving" => Last' \in 1..MaxPosts /\ ~posts'[Last'].setup /\ ~Done(posts'[Last'])
        BY <1>12, <2>2, <2>3, <2>6, <2>7 DEF Types, Chain
      <3> QED
        BY <3>1, <3>2, <3>3, <3>4, <3>5, <3>6 DEF Chain
    <2>9. AllWhole' /\ SetupTold'
      BY <2>4 DEF AllWhole, SetupTold
    <2>10. ReadsStand'
      BY <2>2, <2>4 DEF ReadsStand
    <2>11. Sureness'
      BY <2>1, <2>2 DEF Sureness
    <2>12. Last > 0 => Last \in Posts
      BY <2>2 DEF Posts
    <2>13. FormSaved'
      BY <2>1, <2>2, <2>12 DEF FormSaved
    <2> QED
      BY <1>9, <2>5, <2>8, <2>9, <2>10, <2>11, <2>13 DEF Types, Says
  <1>11. CASE ~posts[k].lost
    <2> DEFINE q == [posts[k] EXCEPT !.at = "stored", !.old = None]
    <2>1. posts' = [posts EXCEPT ![k] = q]
      <3>1. posts' = [posts EXCEPT ![k].at = "stored", ![k].old = None]
        BY <1>1, <1>11
      <3> QED
        BY <3>1, PostTypes DEF Types, ServerOK
    <2>2. /\ q \in PostSet /\ q.at = "stored" /\ q.setup = posts[k].setup /\ q.body = posts[k].body
          /\ q.sure = posts[k].sure /\ q.lost = posts[k].lost
      BY PostTypes DEF Types, PostSet
    <2> HIDE DEF q
    <2>3. /\ posts' \in Seq(PostSet) /\ Last \in Nat /\ Last' = Last /\ Posts' = Posts /\ Posts = 1..Last
          /\ posts'[k] = q /\ \A j \in Posts \ {k} : posts'[j] = posts[j]
          /\ PostsWhole => PostsWhole'
          /\ \A i, j \in Posts' : i < j /\ posts'[i].sure => posts'[j].sure
          /\ NoneLost' => NoneLost
          /\ NoneLost = \A j \in Posts : ~posts[j].lost
      BY <2>1, <2>2, MovedPost
    <2>4. \A j \in Posts : /\ (posts'[j].at = "waiting") = (posts[j].at = "waiting")
                           /\ Done(posts'[j]) = Done(posts[j])
                           /\ posts'[j].setup = posts[j].setup /\ posts'[j].lost = posts[j].lost
                           /\ posts'[j].sure = posts[j].sure /\ posts'[j].body = posts[j].body
      <3> TAKE j \in Posts
      <3>1. CASE j = k
        BY <1>1, <2>2, <2>3, <3>1 DEF Done
      <3>2. CASE j # k
        BY <2>3, <3>2 DEF Done
      <3> QED
        BY <3>1, <3>2
    <2>5. doubt' = doubt
      BY <1>1, <1>11 DEF Types, PageOK
    <2>6. ServerOK'
      BY ZenonT(60), <1>1, <1>5, <2>2, <2>3 DEF Types, ServerOK
    <2>7. mode = "saving" => Last \in Posts
      BY <2>3 DEF Types, Chain
    <2>8. Chain'
      <3>1. \A j \in Posts' : posts'[j].setup => ~posts'[j].lost
        BY <1>12, <2>2, <2>3, <2>4, <2>7 DEF Types, Chain
      <3>2. \A j \in Posts' : posts'[j].lost => posts'[j].at # "waiting"
        BY <1>12, <2>2, <2>3, <2>4, <2>7 DEF Types, Chain
      <3>3. \A j \in Posts' : posts'[j].setup /\ posts'[j].at # "over" =>
              mode' = "leaving" /\ j = Last' /\ posts'[j].at # "waiting"
        BY <1>12, <2>2, <2>3, <2>4, <2>7 DEF Types, Chain
      <3>4. \A i, j \in Posts' : i < j /\ posts'[j].at # "waiting" => Done(posts'[i])
        BY <1>12, <2>2, <2>3, <2>4, <2>7 DEF Types, Chain
      <3>5. (mode' # "editing" => ~timer') /\ (status' = "active" => mode' = "gone") /\ Last' <= MaxPosts + 1
        BY <1>12, <2>2, <2>3, <2>4, <2>7 DEF Types, Chain
      <3>6. mode' = "saving" => Last' \in 1..MaxPosts /\ ~posts'[Last'].setup /\ ~Done(posts'[Last'])
        BY <1>12, <2>2, <2>3, <2>4, <2>7 DEF Types, Chain
      <3> QED
        BY <3>1, <3>2, <3>3, <3>4, <3>5, <3>6 DEF Chain
    <2>9. posts[k].sure \/ NoneLost => posts[k].old = row
      BY <1>1, <1>11 DEF Says, ReadsStand
    <2>10. AllWhole'
      <3> SUFFICES ASSUME NoneLost' PROVE Whole(row'.loc) /\ FieldWhole' /\ PostsWhole'
        BY DEF AllWhole, Whole
      <3>1. NoneLost
        BY <2>3
      <3>2. FieldWhole /\ PostsWhole
        BY <3>1 DEF Says, AllWhole
      <3>3. Whole(posts[k].body.loc)
        BY <3>2 DEF PostsWhole
      <3> QED
        BY <1>7, <1>9, <2>3, <2>9, <3>1, <3>2, <3>3 DEF old
    <2>11. ReadsStand'
      <3> SUFFICES ASSUME NEW j \in Posts, ~posts'[j].lost, posts'[j].sure \/ NoneLost'
                   PROVE  /\ posts'[j].at = "loaded" => posts'[j].old = row'
                          /\ posts'[j].at = "stored" => row' = Kept(posts'[j].body)
        BY <2>3 DEF ReadsStand, Kept, Details
      <3>1. CASE j = k
        BY <1>6, <2>2, <2>3, <2>9, <3>1 DEF old
      <3>2. CASE j # k
        <4>1. posts[j].at \notin {"waiting", "over"} => FALSE
          <5> SUFFICES ASSUME posts[j].at \notin {"waiting", "over"} PROVE FALSE
            OBVIOUS
          <5>1. CASE j < k
            <6>1. \A i, m \in Posts : i < m /\ posts[m].at # "waiting" => Done(posts[i])
              BY DEF Types, Chain
            <6>2. posts[k].at # "waiting"
              BY <1>1
            <6>3. Done(posts[j])
              BY <1>1, <5>1, <6>1, <6>2
            <6>4. ~posts[j].lost
              BY <2>4, <3>2
            <6> QED
              BY <6>3, <6>4 DEF Done
          <5>2. CASE k < j
            BY <1>1, <1>11, <5>2 DEF Types, Chain, Done
          <5> QED
            BY <2>3, <3>2, <5>1, <5>2
        <4> QED
          BY <2>3, <3>2, <4>1
      <3> QED
        BY <3>1, <3>2
    <2>12. Sureness'
      BY <2>3, <2>4, <2>5 DEF Says, Sureness
    <2>13. Last > 0 => Last \in Posts
      BY <2>3
    <2>14. FormSaved'
      <3> SUFFICES ASSUME Resting, Last > 0, ~Done(posts'[Last]), posts'[Last].sure
                   PROVE  posts'[Last].body = Body
        BY <1>1, <1>9, <1>11, <2>2, <2>3 DEF FormSaved, Resting, Done
      <3> QED
        BY <2>4, <2>13 DEF Says, FormSaved
    <2>15. SetupTold'
      BY <1>1, <2>3 DEF Says, SetupTold
    <2> QED
      BY <1>9, <2>6, <2>8, <2>10, <2>11, <2>12, <2>14, <2>15 DEF Types, Says
  <1> QED
    BY <1>10, <1>11

\* The end of a setup: its POST is the last, and all others are settled.
LEMMA SetupLast ==
  ASSUME Types, NEW k \in Posts, posts[k].setup, posts[k].at = "stored"
  PROVE  /\ mode = "leaving" /\ k = Last /\ status # "active" /\ ~posts[k].lost
         /\ \A j \in Posts \ {k} : Done(posts[j])
         /\ \A j \in Posts \ {k} : posts[j].setup => posts[j].at = "over"
  <1>1. mode = "leaving" /\ k = Last /\ ~posts[k].lost /\ status # "active"
    BY DEF Types, Chain
  <1>2. Last \in Nat /\ Posts = 1..Last
    BY PostTypes DEF Types, Posts
  <1>3. \A j \in Posts \ {k} : j < k
    BY <1>1, <1>2
  <1> QED
    BY <1>1, <1>3 DEF Types, Chain

LEMMA TellStep ==
  ASSUME Types, Says, NEW k \in Posts, Tell(k)
  PROVE  Types' /\ Says'
  <1> DEFINE q == [posts[k] EXCEPT !.at = "over"]
  <1>1. /\ posts[k].setup /\ posts[k].at = "stored"
        /\ told' = row /\ status' = "active" /\ mode' = "gone"
        /\ posts' = [posts EXCEPT ![k] = q]
        /\ UNCHANGED <<page, timer, row, events, doubt>>
    BY DEF Tell
  <1>2. /\ mode = "leaving" /\ k = Last /\ ~posts[k].lost
        /\ \A j \in Posts \ {k} : Done(posts[j])
        /\ \A j \in Posts \ {k} : posts[j].setup => posts[j].at = "over"
    BY <1>1, SetupLast
  <1>3. /\ q \in PostSet /\ q.at = "over" /\ q.setup = posts[k].setup /\ q.body = posts[k].body
        /\ q.sure = posts[k].sure /\ q.lost = posts[k].lost
    BY PostTypes DEF Types, PostSet
  <1> HIDE DEF q
  <1>4. /\ posts' \in Seq(PostSet) /\ Last \in Nat /\ Last' = Last /\ Posts' = Posts /\ Posts = 1..Last
        /\ posts'[k] = q /\ \A j \in Posts \ {k} : posts'[j] = posts[j]
        /\ PostsWhole => PostsWhole'
        /\ \A i, j \in Posts' : i < j /\ posts'[i].sure => posts'[j].sure
        /\ NoneLost' => NoneLost
        /\ NoneLost' = \A j \in Posts : ~posts'[j].lost
    BY <1>1, <1>3, MovedPost
  <1>5. \A j \in Posts : Done(posts'[j])
    BY <1>2, <1>3, <1>4 DEF Done
  <1>6. timer' \in BOOLEAN /\ doubt' \in BOOLEAN
    BY <1>1 DEF Types, PageOK
  <1>7. PageOK' /\ Picked' /\ FieldWhole' = FieldWhole
    BY <1>1, <1>6, PageKept DEF Types, PageOK
  <1>8. ServerOK'
    BY <1>1, <1>3, <1>4 DEF Types, ServerOK
  <1>9. Chain'
    <2>1. \A j \in Posts' : posts'[j].setup => ~posts'[j].lost /\ posts'[j].at = "over"
      BY <1>2, <1>3, <1>4 DEF Types, Chain
    <2>2. \A j \in Posts' : posts'[j].lost => posts'[j].at # "waiting"
      BY <1>3, <1>4 DEF Types, Chain
    <2>3. timer' = FALSE /\ Last' <= MaxPosts + 1
      BY <1>1, <1>2, <1>4 DEF Types, Chain
    <2> QED
      BY <1>1, <1>4, <1>5, <2>1, <2>2, <2>3 DEF Chain
  <1>10. AllWhole'
    BY <1>1, <1>4, <1>7 DEF Says, AllWhole, Whole
  <1>11. ReadsStand'
    <2> SUFFICES ASSUME NEW j \in Posts, ~posts'[j].lost PROVE posts'[j].at = "over"
      BY <1>4 DEF ReadsStand
    <2> QED
      BY <1>5 DEF Done
  <1>12. Sureness'
    BY <1>4, <1>5 DEF Sureness
  <1>13. FormSaved'
    BY <1>1 DEF FormSaved, Resting
  <1>14. SetupTold'
    <2> SUFFICES ASSUME NoneLost'
                 PROVE  /\ Last > 0 /\ \A j \in Posts : posts'[j].at = "over"
                        /\ row = posts'[Last].body
      BY <1>1, <1>4 DEF SetupTold
    <2>1. NoneLost /\ Last > 0
      BY <1>2, <1>4
    <2>2. \A j \in Posts : posts'[j].at = "over"
      BY <1>4, <1>5 DEF Done
    <2>3. row = Kept(posts[k].body)
      BY <1>1, <1>2, <2>1 DEF Says, ReadsStand
    <2>4. Whole(posts[k].body.loc)
      BY <2>1 DEF Says, AllWhole, PostsWhole
    <2>5. Kept(posts[k].body) = posts[k].body
      BY <2>4, KeptIs, PostTypes DEF Types
    <2> QED
      BY <1>2, <1>3, <1>4, <2>1, <2>2, <2>3, <2>5
  <1> QED
    BY <1>7, <1>8, <1>9, <1>10, <1>11, <1>12, <1>13, <1>14 DEF Types, Says

LEMMA NobodyStep ==
  ASSUME Types, Says, NEW k \in Posts, NobodySelected(k)
  PROVE  Types' /\ Says'
  <1> DEFINE q == [posts[k] EXCEPT !.at = "over"]
  <1>1. /\ posts[k].setup /\ posts[k].at = "stored"
        /\ posts' = [posts EXCEPT ![k] = q]
        /\ mode' = "editing" /\ timer' = FALSE /\ doubt' = ~NoneLost
        /\ field' = row.loc /\ committed' = Selected(row.loc) /\ chosen' = row.loc.place
        /\ other' = row.other
        /\ seq' = 0 /\ asked' = 0 /\ offered' = FALSE /\ details' = {}
        /\ UNCHANGED <<row, status, told, events>>
    BY DEF NobodySelected, server
  <1>2. /\ mode = "leaving" /\ k = Last /\ status # "active" /\ ~posts[k].lost
        /\ \A j \in Posts \ {k} : Done(posts[j])
        /\ \A j \in Posts \ {k} : posts[j].setup => posts[j].at = "over"
    BY <1>1, SetupLast
  <1>3. /\ q \in PostSet /\ q.at = "over" /\ q.setup = posts[k].setup /\ q.body = posts[k].body
        /\ q.sure = posts[k].sure /\ q.lost = posts[k].lost
    BY PostTypes DEF Types, PostSet
  <1> HIDE DEF q
  <1>4. /\ posts' \in Seq(PostSet) /\ Last \in Nat /\ Last' = Last /\ Posts' = Posts /\ Posts = 1..Last
        /\ posts'[k] = q /\ \A j \in Posts \ {k} : posts'[j] = posts[j]
        /\ PostsWhole => PostsWhole'
        /\ \A i, j \in Posts' : i < j /\ posts'[i].sure => posts'[j].sure
        /\ NoneLost' => NoneLost
    BY <1>1, <1>3, MovedPost
  <1>5. \A j \in Posts : Done(posts'[j])
    BY <1>2, <1>3, <1>4 DEF Done
  <1>6. /\ row \in Bodies /\ row.loc \in Locations /\ row.other \in Nat
        /\ row.loc.place \in Places \cup {None}
    BY DEF Types, ServerOK, Bodies, Locations
  <1>7. /\ Selected(row.loc) \in Locations /\ Selected(row.loc).place = row.loc.place
        /\ (Whole(row.loc) => Whole(Selected(row.loc)))
        /\ (row.loc.place # None => Selected(row.loc) = row.loc)
    BY <1>6, SelectedIs
  <1>8. doubt' \in BOOLEAN
    BY <1>1 DEF NoneLost
  <1>9. PageOK'
    <2>1. field' \in Locations /\ committed' \in Locations /\ chosen' \in Places \cup {None}
      BY <1>1, <1>6, <1>7
    <2>2. /\ seq' \in Nat /\ asked' \in Nat /\ events' \in Nat
          /\ asked' <= seq' /\ seq' <= events' /\ events' <= MaxEvents
      BY <1>1 DEF Types, PageOK
    <2>3. details' \subseteq [place : Places, seq : 1..seq']
      BY <1>1
    <2>4. other' \in Nat /\ offered' \in BOOLEAN /\ timer' \in BOOLEAN
          /\ mode' \in {"editing", "saving", "leaving", "gone"}
      BY <1>1, <1>6
    <2> QED
      BY <1>8, <2>1, <2>2, <2>3, <2>4 DEF PageOK
  <1>10. Picked'
    BY <1>1 DEF Picked
  <1>11. ServerOK'
    BY <1>1, <1>3, <1>4 DEF Types, ServerOK
  <1>12. Chain'
    <2>1. \A j \in Posts' : posts'[j].setup => ~posts'[j].lost /\ posts'[j].at = "over"
      BY <1>2, <1>3, <1>4 DEF Types, Chain
    <2>2. \A j \in Posts' : posts'[j].lost => posts'[j].at # "waiting"
      BY <1>3, <1>4 DEF Types, Chain
    <2>3. Last' <= MaxPosts + 1 /\ status' # "active"
      BY <1>1, <1>2, <1>4 DEF Types, Chain
    <2> QED
      BY <1>1, <1>4, <1>5, <2>1, <2>2, <2>3 DEF Chain
  <1>13. NoneLost => Whole(row.loc) /\ PostsWhole
    BY DEF Says, AllWhole
  <1>14. AllWhole'
    BY <1>1, <1>4, <1>7, <1>13 DEF AllWhole, FieldWhole, Whole
  <1>15. ReadsStand'
    <2> SUFFICES ASSUME NEW j \in Posts, ~posts'[j].lost PROVE posts'[j].at = "over"
      BY <1>4 DEF ReadsStand
    <2> QED
      BY <1>5 DEF Done
  <1>16. Sureness'
    BY <1>4, <1>5 DEF Sureness
  <1>17. FormSaved'
    <2>1. Last \in Posts
      BY <1>2
    <2>2. Whole(row.loc) => Body' = row
      <3> SUFFICES ASSUME Whole(row.loc) PROVE Body' = row
        OBVIOUS
      <3>1. Body' = [loc |-> row.loc, other |-> row.other]
        BY <1>1, <1>7 DEF Body, Whole, Nowhere
      <3> QED
        BY <1>6, <3>1 DEF Bodies
    <2>3. Whole(row.loc) => Kept(Body)' = row
      <3>1. Kept(Body)' = Kept(Body')
        BY DEF Kept, Details, Nowhere
      <3>2. Whole(row.loc) => Kept(row) = row
        BY <1>6, KeptIs
      <3> QED
        BY <2>2, <3>1, <3>2
    <2> QED
      BY <1>1, <1>4, <1>5, <1>13, <2>1, <2>3 DEF FormSaved
  <1>18. SetupTold'
    BY <1>1, <1>2 DEF SetupTold
  <1> QED
    BY <1>9, <1>10, <1>11, <1>12, <1>14, <1>15, <1>16, <1>17, <1>18 DEF Types, Says

-----------------------------------------------------------------------------
(* The invariant.                                                          *)

LEMMA InitSays == Init => Types /\ Says
  <1> SUFFICES ASSUME Init PROVE Types /\ Says
    OBVIOUS
  <1>1. Last = 0 /\ Posts = {}
    BY DEF Init, Last, Posts
  <1>2. Nowhere \in Locations /\ Nowhere.place = None /\ Whole(Nowhere)
    BY NowhereIs
  <1>3. PageOK
    <2>1. field \in Locations /\ committed \in Locations /\ chosen \in Places \cup {None}
      BY <1>2 DEF Init
    <2>2. /\ seq = 0 /\ asked = 0 /\ events = 0 /\ other = 0 /\ details = {} /\ mode = "editing"
          /\ offered = FALSE /\ timer = FALSE /\ doubt = FALSE
      BY DEF Init
    <2>3. MaxEvents \in Nat
      BY DraftFormAssumption
    <2>4. 0 <= MaxEvents
      BY <2>3
    <2>5. details \subseteq [place : Places, seq : 1..seq]
      BY <2>2
    <2>6. /\ seq \in Nat /\ asked \in Nat /\ events \in Nat /\ other \in Nat
          /\ asked <= seq /\ seq <= events /\ events <= MaxEvents
      BY <2>2, <2>4
    <2>7. /\ mode \in {"editing", "saving", "leaving", "gone"}
          /\ offered \in BOOLEAN /\ timer \in BOOLEAN /\ doubt \in BOOLEAN
      BY <2>2
    <2> QED
      BY <2>1, <2>5, <2>6, <2>7 DEF PageOK
  <1>4. ServerOK
    BY <1>1, <1>2 DEF Init, ServerOK, Bodies
  <1>5. Chain
    BY <1>1, DraftFormAssumption DEF Init, Chain
  <1>6. Picked /\ AllWhole /\ ReadsStand /\ Sureness /\ SetupTold
    BY <1>1, <1>2 DEF Init, Picked, AllWhole, FieldWhole, PostsWhole, ReadsStand, Sureness, SetupTold
  <1>7. FormSaved
    <2>1. Body = row /\ Whole(row.loc) /\ row \in Bodies
      BY <1>2 DEF Init, Body, Bodies
    <2>2. Kept(Body) = row
      BY <2>1, KeptIs
    <2> QED
      BY <1>1, <2>2 DEF FormSaved
  <1> QED
    BY <1>3, <1>4, <1>5, <1>6, <1>7 DEF Types, Says

LEMMA StutterSays == ASSUME Types, Says, UNCHANGED vars PROVE Types' /\ Says'
  <1>1. UNCHANGED <<field, committed, seq, asked, offered, details, other, chosen, timer, mode, posts,
                    row, status, told, events, doubt>>
    BY DEF vars, page, server
  <1>2. Last' = Last /\ Posts' = Posts /\ NoneLost' = NoneLost /\ Body' = Body /\ Awaited' = Awaited
    BY <1>1, BodySame DEF Last, Posts, NoneLost, Awaited
  <1>3. Types'
    BY <1>1, <1>2 DEF Types, PageOK, ServerOK, Chain, Done
  <1>4. Picked' /\ ReadsStand' /\ Sureness' /\ SetupTold'
    BY <1>1, <1>2 DEF Says, Picked, ReadsStand, Sureness, SetupTold, Kept, Details, Done
  <1>5. AllWhole'
    BY <1>1, <1>2 DEF Says, AllWhole, FieldWhole, PostsWhole, Whole
  <1>6. FormSaved'
    <2>1. Kept(Body)' = Kept(Body)
      BY <1>2 DEF Kept, Details, Nowhere
    <2> QED
      BY <1>1, <1>2, <2>1 DEF Says, FormSaved, Resting, Done
  <1> QED
    BY <1>3, <1>4, <1>5, <1>6 DEF Says

LEMMA StepSays == Types /\ Says /\ [Next]_vars => (Types /\ Says)'
  <1> SUFFICES ASSUME Types, Says, [Next]_vars PROVE Types' /\ Says'
    OBVIOUS
  <1>1. CASE UNCHANGED vars
    BY <1>1, StutterSays
  <1>2. CASE TimerFires \/ Submit \/ Offer \/ ClickOutside \/ Leave
    BY <1>2, TimerStep, OfferStep, ClickStep, LeaveStep
  <1>3. CASE \/ \E text \in {None, Free} : Type(text)
             \/ \E p \in Places : Pick(p)
             \/ \E immediate \in BOOLEAN : Edit(immediate)
    BY <1>3, TypeStep, PickStep, EditStep
  <1>4. CASE \E d \in details, l \in Locations : DetailsArrive(d, l)
    BY <1>4, DetailsStep
  <1>5. ASSUME NEW k \in DOMAIN posts,
               \/ Send(k) \/ Answer(k) \/ NoAnswer(k) \/ Load(k) \/ Store(k) \/ Tell(k)
               \/ NobodySelected(k)
        PROVE  Types' /\ Says'
    <2>1. k \in Posts
      BY PostTypes DEF Types
    <2> QED
      BY <1>5, <2>1, SendStep, AnswerStep, NoAnswerStep, LoadStep, StoreStep, TellStep, NobodyStep
  <1> QED
    BY <1>1, <1>2, <1>3, <1>4, <1>5 DEF Next

LEMMA TypesAndSays == Spec => [](Types /\ Says)
  <1> QED
    BY InitSays, StepSays, PTL DEF Spec

-----------------------------------------------------------------------------
(* The properties.                                                         *)

LEMMA TypesGiveTypeOK == Types => TypeOK
  <1> SUFFICES ASSUME Types PROVE TypeOK
    OBVIOUS
  <1>1. {field, committed, row.loc} \subseteq Locations
    BY DEF Types, PageOK, ServerOK, Bodies
  <1>2. /\ seq \in Nat /\ asked \in Nat /\ events \in Nat /\ MaxEvents \in Nat
        /\ asked <= seq /\ seq <= events /\ events <= MaxEvents
    BY DraftFormAssumption DEF Types, PageOK
  <1>3. seq \in 0..MaxEvents /\ asked \in 0..MaxEvents /\ 1..seq \subseteq 1..MaxEvents
    BY <1>2
  <1>4. details \subseteq [place : Places, seq : 1..MaxEvents]
    BY <1>3 DEF Types, PageOK
  <1>5. \A k \in DOMAIN posts : posts[k].at \in {"waiting", "sent", "loaded", "stored", "over"}
    BY PostTypes DEF Types
  <1>6. \A j, k \in DOMAIN posts : j < k /\ posts[k].at # "waiting" => posts[j].at = "over" \/ posts[j].lost
    BY PostTypes DEF Types, Chain, Done
  <1>7. Len(posts) <= MaxPosts + 1 /\ (mode # "editing" => ~timer)
    BY DEF Types, Chain, Last
  <1>8. /\ {offered, timer, doubt} \subseteq BOOLEAN /\ chosen \in Places \cup {None}
        /\ mode \in {"editing", "saving", "leaving", "gone"} /\ status \in {"draft", "active"}
    BY DEF Types, PageOK, ServerOK
  <1> QED
    BY <1>1, <1>3, <1>4, <1>5, <1>6, <1>7, <1>8 DEF TypeOK

\* The page, the POSTs and the row keep their types; the promise chain of the
\* autosave (hangout_draft_autosave.js) never has two saves under way whose
\* answers are both to come, and the timer never runs beside a setup.
THEOREM DraftTypes == Spec => []TypeOK
  <1> QED
    BY TypesAndSays, TypesGiveTypeOK, PTL

\* The place on the page is the one picked or restored last, whatever answers to
\* Place Details come late (location_autocomplete.js drops those of an earlier
\* sequence), with its own text and coordinates.
THEOREM PickIsKept == Spec => []PickStands
  <1>1. Types /\ Says => PickStands
    <2> SUFFICES ASSUME Types, Says, field.place # None PROVE
          /\ field.place = chosen
          /\ NoneLost => field.text \in {Label(chosen), Address(chosen)} /\ field.xy \in {chosen, None}
      BY DEF PickStands
    <2>1. field.place = chosen
      BY DEF Says, Picked
    <2> QED
      BY <2>1 DEF Says, AllWhole, FieldWhole, Whole
  <1> QED
    BY TypesAndSays, <1>1, PTL

\* Without a lost answer the row of the draft holds one place or nothing, however
\* the commits of its saves (web.py) write what differs from their loads.
THEOREM LocationIsWhole == Spec => []LocationWhole
  <1>1. Types /\ Says => LocationWhole
    BY DEF Says, AllWhole, Whole, LocationWhole
  <1> QED
    BY TypesAndSays, <1>1, PTL

\* With nothing under way and no answer lost after the last change, what the page
\* shows is what the row holds: the chain of saves drops no change.
THEOREM FormIsSaved == Spec => []SavedIsForm
  <1>1. Types /\ Says => SavedIsForm
    <2> SUFFICES ASSUME Types, Says, mode = "editing" /\ ~timer /\ ~Awaited /\ ~doubt,
                        \A k \in DOMAIN posts :
                          posts[k].at = "over" \/ (posts[k].lost /\ posts[k].at = "stored")
                 PROVE  /\ row = [loc |-> Details(Body.loc), other |-> other]
                        /\ NoneLost => row = Body
      BY DEF SavedIsForm
    <2>1. \A k \in Posts : Done(posts[k])
      BY PostTypes DEF Types, Done
    <2>2. row = Kept(Body)
      BY <2>1 DEF Says, FormSaved, Resting
    <2>3. Body.other = other
      BY DEF Body
    <2>4. NoneLost => Whole(Body.loc)
      BY BodyWhole DEF Types, Says, AllWhole
    <2>5. Body \in Bodies
      BY BodyType DEF Types
    <2>6. NoneLost => Kept(Body) = Body
      BY <2>4, <2>5, KeptIs
    <2> QED
      BY <2>2, <2>3, <2>6 DEF Kept
  <1> QED
    BY TypesAndSays, <1>1, PTL

\* The invitations of a setup (setup_hangout, web.py) carry the form as it was
\* submitted, and the row stays what they said: no save from before is left to
\* be stored.
THEOREM SetupTellsForm == Spec => []SetupSendsForm
  <1>1. Types /\ Says => SetupSendsForm
    BY DEF Says, SetupTold, SetupSendsForm, Last
  <1> QED
    BY TypesAndSays, <1>1, PTL

=============================================================================
