---------------------------- MODULE MCMailArchive ---------------------------
(* Two mails of neighbouring days, which may arrive in either order, and a  *)
(* photo; the archive holds the older mail and the photo.                   *)
EXTENDS MailArchive, TLC

CONSTANTS m1, m2, p1
MCMails == {m1, m2}
MCPhotos == {p1}
MCDate == (m1 :> 1) @@ (m2 :> 2)
MCExported == {m1, p1}
=============================================================================
