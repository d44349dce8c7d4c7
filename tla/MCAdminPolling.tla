--------------------------- MODULE MCAdminPolling ---------------------------
(* The pages with a timer; and the rules, on the tables of all pages. *)
EXTENDS MCAdminPages, AdminTables

\* All pages follow the rules that the theorems of AdminPageProofs suppose.
ASSUME TablesFollowRules ==
  \A p \in DOMAIN Tables :
     /\ FormRule(Tables[p]) /\ FlagRule(Tables[p]) /\ SubmitRule(Tables[p])
     /\ MarkRule(Tables[p]) /\ SlotRule(Tables[p]) /\ PatchRule(Tables[p])
     /\ ListRule(Tables[p]) /\ QueryRule(Tables[p]) /\ RefreshRule(Tables[p])
     /\ NeglectRule(Tables[p]) /\ FillRule(Tables[p]) /\ DetailRule(Tables[p])
=============================================================================
