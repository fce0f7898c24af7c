------------------------- MODULE MCOrganizerSettings -------------------------
(***************************************************************************)
(* OrganizerSettings with two contacts, two clients and six texts: an      *)
(* American number typed in two ways, a British one, a Danish one of ten   *)
(* digits, a Swedish one of nine, and one that is too short.               *)
(***************************************************************************)
EXTENDS OrganizerSettings, TLC

CONSTANTS r1, r2, c1, c2

Local == <<4, 1, 6, 5, 5, 5, 0, 1, 4, 2>>
British == <<4, 4>> \o Local

\* Ten digits with the country's.
Danish == <<4, 5, 3, 1, 2, 3, 4, 5, 6, 7>>

Swedish == <<4, 6, 8, 1, 2, 3, 4, 5, 6>>

Few == {Typed(FALSE, Local), Typed(TRUE, <<1>> \o Local), Typed(TRUE, British),
        Typed(TRUE, Danish), Typed(TRUE, Swedish), Typed(FALSE, <<4, 1, 6>>)}

Alike == Permutations({r1, r2}) \cup Permutations({c1, c2})
=============================================================================
