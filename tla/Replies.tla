------------------------------- MODULE Replies -------------------------------
(***************************************************************************)
(* What an inbound text means (app/messages.py).  A body is the sequence   *)
(* of its words, lower case; the code splits at blanks, commas and         *)
(* hyphens, and punctuation stays part of a word, so "stop!" is not        *)
(* "stop".  The code's comparisons of the whole text with a phrase of two  *)
(* words say nothing that the first two words do not say, so only its      *)
(* comparisons with a phrase of one word remain here.                      *)
(***************************************************************************)
EXTENDS Naturals, Sequences

OptOutWords == {"stop", "stopall", "unsubscribe", "cancel", "end", "quit"}
OptInWords  == {"start", "unstop", "yesstart"}
ConfirmWords == {"confirm", "yes", "y", "in", "attending", "coming"}
DeclineWords == {"no", "n", "decline", "can't", "cant", "out", "nope"} \cup OptOutWords
InfoWords   == {"info", "info2", "moreinfo"}
DetailWords == {"2", "two", "full", "list", "details"}

First(body) == IF body = <<>> THEN "" ELSE body[1]

\* Does the body begin with word v followed by one of W?
Begins(body, v, W) == Len(body) >= 2 /\ body[1] = v /\ body[2] \in W

\* is_opt_out: "stop forever" and "stop all" begin with "stop" already.
IsOptOut(body) == First(body) \in OptOutWords \/ body = <<"stopforever">>

\* is_opt_in
IsOptIn(body) ==
  \/ First(body) \in OptInWords
  \/ body = <<"optin">>
  \/ Begins(body, "opt", {"in"})

AsksInfo(body) == First(body) \in InfoWords \/ Begins(body, "more", {"info"})

AsksDetail(body) ==
  \/ First(body) \in {"info2", "moreinfo"}
  \/ Begins(body, "more", {"info"})
  \/ Begins(body, "info", DetailWords)

\* Seeded fault: the confirm words are looked at before the opt-in phrases,
\* anywhere in the text.
Intent_AnyWord(body) ==
  IF \E k \in 1..Len(body) : body[k] \in ConfirmWords THEN "confirm"
  ELSE IF IsOptIn(body) THEN "opt_in"
  ELSE IF AsksDetail(body) THEN "info2"
  ELSE IF AsksInfo(body) THEN "info"
  ELSE IF IsOptOut(body) \/ First(body) \in DeclineWords THEN "decline"
  ELSE "none"

\* parse_reply_intent: the first test that holds decides.
Intent(body) ==
  IF IsOptIn(body) THEN "opt_in"
  ELSE IF AsksInfo(body) /\ AsksDetail(body) THEN "info2"
  ELSE IF AsksInfo(body) THEN "info"
  ELSE IF First(body) \in ConfirmWords THEN "confirm"
  ELSE IF IsOptOut(body) \/ First(body) \in DeclineWords THEN "decline"
  ELSE "none"

-----------------------------------------------------------------------------
(* The keyword tables of docs/sms-and-rsvp.md, as the reference: a text means *)
(* what the longest phrase it begins with means.                              *)

Phrases == [
  opt_in  |-> {<<"start">>, <<"unstop">>, <<"yesstart">>, <<"opt", "in">>, <<"optin">>,
               <<"start", "forever">>},
  info2   |-> {<<"more", "info">>, <<"moreinfo">>, <<"info2">>}
                \cup {<<"info", w>> : w \in {"2", "two", "full", "list", "details"}},
  info    |-> {<<"info">>},
  confirm |-> {<<w>> : w \in {"confirm", "yes", "y", "in", "attending", "coming"}},
  decline |-> {<<w>> : w \in {"no", "n", "decline", "can't", "cant", "out", "nope", "stop",
                               "stopall", "unsubscribe", "cancel", "end", "quit"}}
                \cup {<<"stop", "forever">>, <<"stopforever">>, <<"stop", "all">>}]

Vocabulary ==
  UNION {{p[k] : k \in 1..Len(p)} : p \in UNION {Phrases[i] : i \in DOMAIN Phrases}}
    \cup {"stop!", "maybe", "please"}

Corpus == {<<>>} \cup {<<v>> : v \in Vocabulary} \cup {<<v, w>> : v, w \in Vocabulary}

BeginsWith(b, p) == Len(p) <= Len(b) /\ SubSeq(b, 1, Len(p)) = p

Documented(b) ==
  LET meanings(n) == {i \in DOMAIN Phrases : \E p \in Phrases[i] : Len(p) = n /\ BeginsWith(b, p)}
  IN  IF meanings(2) # {} THEN CHOOSE i \in meanings(2) : TRUE
      ELSE IF meanings(1) # {} THEN CHOOSE i \in meanings(1) : TRUE
      ELSE "none"
=============================================================================
