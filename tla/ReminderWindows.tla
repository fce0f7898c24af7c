--------------------------- MODULE ReminderWindows ---------------------------
(***************************************************************************)
(* What the follow-up sweep promises, with no workers, locks or ticks in   *)
(* it: an invite's clock opens windows that lie a delay apart, and each    *)
(* window is used for at most one text.  A window may be forfeited (a      *)
(* crash, an opted-out number), never used twice.                          *)
(***************************************************************************)
EXTENDS Integers

CONSTANTS Invites, MinDelay, NoClock,
          Times   \* the clock readings, a set of numbers

VARIABLES
  last,     \* the invite's clock: when it was last texted or last claimed
  open,     \* windows <<invite, time>> claimed and not used yet
  texted    \* for each invite, the windows that were used

wvars == <<last, open, texted>>

Init ==
  /\ last = [i \in Invites |-> NoClock]
  /\ open = {}
  /\ texted = [i \in Invites |-> {}]

\* A setup pass texts the invitees of S and restarts their clocks.
Invite(S, t) ==
  /\ \A i \in S : last[i] = NoClock \/ last[i] <= t
  /\ last' = [i \in Invites |-> IF i \in S THEN t ELSE last[i]]
  /\ UNCHANGED <<open, texted>>

OpenWindow(i, t) ==
  /\ last[i] # NoClock /\ last[i] + MinDelay <= t
  /\ last' = [last EXCEPT ![i] = t]
  /\ open' = open \cup {<<i, t>>}
  /\ UNCHANGED texted

UseWindow(i, t) ==
  /\ <<i, t>> \in open
  /\ open' = open \ {<<i, t>>}
  /\ texted' = [texted EXCEPT ![i] = @ \cup {t}]
  /\ UNCHANGED last

Forfeit(i, t) ==
  /\ <<i, t>> \in open
  /\ open' = open \ {<<i, t>>}
  /\ UNCHANGED <<last, texted>>

Next ==
  \/ \E S \in SUBSET Invites, t \in Times : Invite(S, t)
  \/ \E i \in Invites, t \in Times : OpenWindow(i, t) \/ UseWindow(i, t) \/ Forfeit(i, t)

Spec == Init /\ [][Next]_wvars
=============================================================================
