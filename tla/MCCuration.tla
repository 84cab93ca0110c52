----------------------------- MODULE MCCuration -----------------------------
(***************************************************************************)
(* Instances of Curation for TLC.                                          *)
(***************************************************************************)
EXTENDS Curation, TLC

CONSTANTS p1, p2, full, footer

\* Both pages carry the footer; the bytes of one page's image cannot be used.
MCPages == {p1, p2}
MCImageCount == p1 :> 1 @@ p2 :> 1
MCUnusable == p1 :> {} @@ p2 :> {0}
MCTexts == {full, footer}
MCFooterOnly == {footer}

\* Nothing but text, image decisions and visual_refs of a superseded snapshot is read
\* again, and its other fields were checked while it was current.
Superseded(s) == <<s.version, s.text, s.image, {c.ref : c \in s.captures}>>
View ==
    <<version, status, cur, noise, render,
      [p \in Pages |-> [n \in DOMAIN row[p] |->
          IF n = cur[p] THEN row[p][n] ELSE Superseded(row[p][n])]]>>
=============================================================================
