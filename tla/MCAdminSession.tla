--------------------------- MODULE MCAdminSession ---------------------------
(* Two tabs, two logins, and three requests of which two may overlap. *)
EXTENDS AdminSession

CONSTANTS t1, t2
MCTabs == {t1, t2}
=============================================================================
