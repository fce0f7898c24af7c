-------------------------------- MODULE Phones --------------------------------
(***************************************************************************)
(* Phone numbers as app/sms.py reads and shows them, and as the script of  *)
(* the forms (app/static/phone_format.js) rewrites what is shown.  A text  *)
(* is whether it holds a plus sign, and its digits; spaces, brackets and   *)
(* dashes are left out, because every function here skips them.            *)
(***************************************************************************)
EXTENDS Naturals, Sequences

Typed(plus, digits) == [plus |-> plus, digits |-> digits]

Blank == Typed(FALSE, <<>>)

\* normalize_phone: a bare number of ten digits is American.
Normalized(t) ==
  IF t.digits = <<>> THEN Blank
  ELSE IF ~t.plus /\ Len(t.digits) = 10 THEN Typed(TRUE, <<1>> \o t.digits)
  ELSE Typed(TRUE, t.digits)

\* is_valid_phone, of a normalised number
Usable(t) == t.plus /\ Len(t.digits) \in 8..15

\* format_phone: ten digits are shown as an American number, with or without a
\* plus sign; everything else keeps its digits.
Displayed(t) ==
  IF t.digits = <<>> THEN Blank
  ELSE IF Len(t.digits) = 10 THEN Typed(TRUE, <<1>> \o t.digits)
  ELSE Typed(TRUE, t.digits)

\* digitsOnly
Cut(digits) == IF Len(digits) > 15 THEN SubSeq(digits, 1, 15) ELSE digits

\* Seeded fault: a leading 1 is not recognised as the country's.
Rewritten_Anew(t) ==
  LET d == Cut(t.digits) IN
  IF d = <<>> THEN Blank
  ELSE IF Len(d) <= 11 THEN Typed(TRUE, <<1>> \o d)
  ELSE Typed(TRUE, d)

\* formatPhone, which bindTelInput runs on every telephone field of a page when the
\* page is loaded: up to ten digits without a leading 1 are taken for an American
\* number that is still being typed.
Rewritten(t) ==
  LET d == Cut(t.digits) IN
  IF d = <<>> THEN Blank
  ELSE IF Len(d) <= 10 /\ d[1] # 1 THEN Typed(TRUE, <<1>> \o d)
  ELSE Typed(TRUE, d)

\* What a form that was filled with a number, and left as it was, sends.
SentBack(p) == Normalized(Rewritten(Displayed(p)))

\* The numbers that page and script take for American ones without their 1.
TakenForLocal(p) == Len(p.digits) = 10 \/ (Len(p.digits) < 10 /\ p.digits[1] # 1)

=============================================================================
