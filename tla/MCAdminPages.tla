---------------------------- MODULE MCAdminPages ----------------------------
(* All pages that have a table, on two rows. *)
EXTENDS AdminPage, PagesSystem, PagesKnowledge, PagesAgent, PagesCapability, PagesOps

CONSTANTS r1, r2, Clicks

MCRows == {r1, r2}
RowSymmetry == Permutations(MCRows)

Tables ==
  [nest |-> nest, nest_policies |-> nest_policies, nest_audit |-> nest_audit,
   immune_addresses |-> immune_addresses, immune_audit |-> immune_audit, gland |-> gland,
   marrow |-> marrow, nerve |-> nerve, notifications |-> notifications, vital |-> vital,
   learn |-> learn, kgraph |-> kgraph, hippo |-> hippo, knowledge |-> knowledge,
   skills |-> skills, ai_groups |-> ai_groups, heredity |-> heredity, gene |-> gene, a2a |-> a2a,
   echo |-> echo, mirror |-> mirror, limb |-> limb, reflex |-> reflex, link |-> link,
   pipeline |-> pipeline, evolution |-> evolution, will |-> will,
   agent_nodes |-> agent_nodes, connectors |-> connectors, downloader |-> downloader,
   trajectory |-> trajectory, monitoring |-> monitoring]

\* All pages.  TLC evaluates the tables once and this definition at every use.
AllPages == LET all == Tables IN all

\* The pages with a timer.
Polling == {"notifications", "vital", "pipeline", "evolution", "downloader", "monitoring"}
PolledTables == [p \in Polling |-> Tables[p]]
PollingPages == LET polled == PolledTables IN polled

MCSends == [p \in DOMAIN Tables |-> Clicks]

\* While polls overlap, one click more on the two smallest pages.
PollingSends == [p \in Polling |-> IF p \in {"pipeline", "monitoring"} THEN Clicks ELSE 0]
=============================================================================
