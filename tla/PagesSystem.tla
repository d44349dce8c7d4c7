---------------------------- MODULE PagesSystem ----------------------------
(***************************************************************************)
(* Pages of the section "system" of the admin front end.  A page whose     *)
(* tabs share no state but the tab itself has one table per tab.  Each     *)
(* definition names the lines it stands for.                               *)
(***************************************************************************)
EXTENDS AdminVocabulary

-----------------------------------------------------------------------------
(* nest/page.tsx: tenants.  The pager of the tenants tab (504-517) is never *)
(* on display: totalTenants is the length of one page of the list, so       *)
(* totalPages is at most 1, and page stays 0.  The totals count tenants by  *)
(* status and tier; only creating and deleting loads them again.            *)

\* Mutant: the flag is lowered after a good answer only.
nest_fetchTenants_no_finally ==
  Reported([Fetch({"tenants"}, {"tierFilter", "statusFilter"})
            EXCEPT !.pre = [loading |-> "on"], !.ok = [loading |-> "off"]])

\* nest/page.tsx 126-144: fetchTenants
nest_fetchTenants ==
  Reported(Busy("loading", Fetch({"tenants"}, {"tierFilter", "statusFilter"})))
\* nest/page.tsx 146-151: fetchStats
nest_fetchStats == Fetch({"stats"}, {})
\* nest/page.tsx 157-164: fetchPolicies
nest_fetchPolicies == Fetch({"policies"}, {})
\* nest/page.tsx 168-178: fetchAudit
nest_fetchAudit == Fetch({"auditEntries"}, {"auditTenantFilter"})
\* nest/page.tsx 182-203: handleCreate
nest_handleCreate ==
  Reported(Then(Write({"tenants", "stats"}), [showCreate |-> "off", form |-> "blank"],
                {"fetchTenants", "fetchStats"}))
\* nest/page.tsx 205-225: handleUpdate
nest_handleUpdate ==
  Reported([Then(Write({"tenants", "stats"}), [editMode |-> "off", showDetail |-> "off"], {"fetchTenants"})
            EXCEPT !.arg = "selectedTenant", !.body = {"form"}])
\* Mutant: the list is not loaded again.
nest_handleDelete_no_reload ==
  Reported(Then(Write({"tenants", "stats"}), [showDetail |-> "off"], {"fetchStats"}))

\* nest/page.tsx 227-237: handleDelete
nest_handleDelete ==
  Reported(Then(Write({"tenants", "stats"}), [showDetail |-> "off"], {"fetchTenants", "fetchStats"}))
\* nest/page.tsx 239-249: handleSuspend
nest_handleSuspend ==
  Reported(Then(Write({"tenants", "stats"}), [selectedTenant |-> "patch"], {"fetchTenants"}))
\* nest/page.tsx 251-261: handleReactivate
nest_handleReactivate ==
  Reported(Then(Write({"tenants", "stats"}), [selectedTenant |-> "patch"], {"fetchTenants"}))
\* nest/page.tsx 263-275: handleUpdatePolicy
nest_handleUpdatePolicy ==
  Reported([Then(Write({"policies"}), [editingPolicy |-> "none"], {"fetchPolicies"})
            EXCEPT !.arg = "editingPolicy", !.body = {"policyForm"}])
\* Mutant: the tenant is assigned to the switch of the dialog.
nest_openDetail_swapped ==
  [Ask EXCEPT !.arg = "row",
     !.ok = [selectedTenant |-> "arg", form |-> "arg", showDetail |-> "arg", editMode |-> "off"],
     !.bad = [selectedTenant |-> "arg", showDetail |-> "on"]]

\* nest/page.tsx 279-297: openDetail
nest_openDetail ==
  [Ask EXCEPT !.arg = "row",
     !.ok = [selectedTenant |-> "arg", form |-> "arg", showDetail |-> "on", editMode |-> "off"],
     !.bad = [selectedTenant |-> "arg", showDetail |-> "on"]]
\* nest/page.tsx 329-338: error banner
nest_banner == Banner(Nothing)
\* nest/page.tsx 379-519: tenants tab
nest_tenantsTab ==
  Panel(Nothing,
        [setTier |-> Nothing, setStatus |-> Nothing, openCreate |-> Nothing, refresh |-> Nothing,
         openDetail |-> Nothing, handleSuspend |-> Nothing, handleReactivate |-> Nothing,
         handleDelete |-> Nothing])
\* nest/page.tsx 681-721: create dialog
nest_createDialog ==
  Dialog([showCreate |-> Open], [closeCreate |-> Nothing, handleCreate |-> Nothing])
\* nest/page.tsx 723-856: detail dialog
nest_detailDialog ==
  Dialog([showDetail |-> Open, selectedTenant |-> {"some", "mixed"}],
         [closeDetail |-> Nothing, edit |-> [editMode |-> Shut],
          suspendSelected |-> [editMode |-> Shut], reactivateSelected |-> [editMode |-> Shut],
          deleteSelected |-> [editMode |-> Shut],
          handleUpdate |-> [editMode |-> Open], stopEdit |-> [editMode |-> Open]])
\* nest/page.tsx 91-124: NestPage
nest ==
  [Page EXCEPT
   !.init = [loading |-> "on", error |-> "off", tierFilter |-> "a", statusFilter |-> "a",
             selectedTenant |-> "none", showDetail |-> "off", showCreate |-> "off",
             editMode |-> "off", form |-> "blank"],
   !.lists = {"tenants", "stats"}, !.flags = {"loading"},
   !.selections = {"selectedTenant"}, !.patched = {"selectedTenant"}, !.forms = {"form"},
   !.closure = {"tierFilter", "statusFilter", "selectedTenant"},
   !.effects = {Effect({"fetchTenants", "fetchStats"}, {"tierFilter", "statusFilter"}, Nothing)},
   !.unrefreshed = [handleUpdate |-> {"stats"}, handleSuspend |-> {"stats"},
                    suspendSelected |-> {"stats"}, handleReactivate |-> {"stats"},
                    reactivateSelected |-> {"stats"}],
   !.panels = {nest_banner, nest_tenantsTab, nest_createDialog, nest_detailDialog},
   !.ops = BannerOps @@
           [fetchTenants |-> nest_fetchTenants, fetchStats |-> nest_fetchStats,
            handleCreate |-> nest_handleCreate, handleUpdate |-> nest_handleUpdate,
            handleDelete |-> On("row", nest_handleDelete),
            deleteSelected |-> On("selectedTenant", nest_handleDelete),
            handleSuspend |-> On("row", nest_handleSuspend),
            suspendSelected |-> On("selectedTenant", nest_handleSuspend),
            handleReactivate |-> On("row", nest_handleReactivate),
            reactivateSelected |-> On("selectedTenant", nest_handleReactivate),
            openDetail |-> nest_openDetail, refresh |-> Both(<<{"fetchTenants", "fetchStats"}>>),
            setTier |-> Set([tierFilter |-> "flip"]), setStatus |-> Set([statusFilter |-> "flip"]),
            openCreate |-> Set([form |-> "blank", showCreate |-> "on"]),
            closeCreate |-> Set([showCreate |-> "off"]), edit |-> Set([editMode |-> "on"]),
            closeDetail |-> Set([showDetail |-> "off", editMode |-> "off"]),
            stopEdit |-> Set([editMode |-> "off"])]]

\* nest/page.tsx 521-620: policies tab
nest_policiesTab ==
  Panel([tab |-> {"here"}],
        [fetchPolicies |-> Nothing, editPolicy |-> [editingPolicy |-> {"other"}],
         handleUpdatePolicy |-> [editingPolicy |-> {"some"}],
         cancelPolicy |-> [editingPolicy |-> {"some"}]])
\* nest/page.tsx 166-166: effect of the policies tab
nest_policies ==
  [Page EXCEPT
   !.init = [tab |-> "away", error |-> "off", editingPolicy |-> "none", policyForm |-> "blank"],
   !.lists = {"policies"}, !.selections = {"editingPolicy"}, !.forms = {"policyForm"},
   !.effects = {Effect({"fetchPolicies"}, {"tab"}, [tab |-> {"here"}])},
   !.panels = {nest_banner, nest_policiesTab, Tabs},
   !.ops = TabOps @@ BannerOps @@
           [fetchPolicies |-> nest_fetchPolicies, handleUpdatePolicy |-> nest_handleUpdatePolicy,
            editPolicy |-> On("row", Set([editingPolicy |-> "arg", policyForm |-> "arg"])),
            cancelPolicy |-> Set([editingPolicy |-> "none"])]]

\* nest/page.tsx 622-679: audit tab
nest_auditTab == Panel([tab |-> {"here"}], [setAuditTenant |-> Nothing, fetchAudit |-> Nothing])
\* nest/page.tsx 180-180: effect of the audit tab
nest_audit ==
  [Page EXCEPT
   !.init = [tab |-> "away", error |-> "off", auditTenantFilter |-> "a"],
   !.lists = {"auditEntries"}, !.closure = {"auditTenantFilter"},
   !.effects = {Effect({"fetchAudit"}, {"tab", "auditTenantFilter"}, [tab |-> {"here"}])},
   !.panels = {nest_banner, nest_auditTab, Tabs},
   !.ops = TabOps @@ BannerOps @@
           [fetchAudit |-> nest_fetchAudit,
            setAuditTenant |-> Set([auditTenantFilter |-> "flip"])]]

-----------------------------------------------------------------------------
(* immune/page.tsx: the one effect (117-124) runs all six loads again      *)
(* whenever the filter of the audit tab changes.  Checking a text adds to   *)
(* the audit log, which it does not load; of the changes of addresses only  *)
(* adding one loads the totals.                                             *)

\* immune/page.tsx 65-70: fetchStats
immune_fetchStats == Fetch({"stats"}, {})
\* immune/page.tsx 72-79: fetchIpLists
immune_fetchIpLists == Reported(Fetch({"ipLists"}, {}))
\* immune/page.tsx 81-92: fetchAuditLog
immune_fetchAuditLog == Reported(Fetch({"auditLog"}, {"auditFilter"}))
\* immune/page.tsx 94-101: fetchThreats
immune_fetchThreats == Reported(Fetch({"threats"}, {}))
\* immune/page.tsx 103-108: fetchBlockedIps
immune_fetchBlockedIps == Fetch({"blockedIps"}, {})
\* immune/page.tsx 110-115: fetchRateStats
immune_fetchRateStats == Fetch({"rateStats"}, {})
\* immune/page.tsx 126-141: handleModerate
immune_handleModerate == Reported(Busy("moderateLoading", Write({"auditLog"})))
\* immune/page.tsx 143-160: handleAddIp
immune_handleAddIp ==
  Reported([Write({"ipLists", "stats"}) EXCEPT !.ok = [showAddIp |-> "off"],
                                               !.wait = <<{"fetchIpLists"}, {"fetchStats"}>>])
\* immune/page.tsx 162-169: handleRemoveIp
immune_handleRemoveIp ==
  Reported([Write({"ipLists", "stats"}) EXCEPT !.arg = "row", !.wait = <<{"fetchIpLists"}>>])
\* immune/page.tsx 171-183: handleBlockIp
immune_handleBlockIp ==
  Reported([Write({"blockedIps", "stats"}) EXCEPT !.arg = "row",
                                                  !.wait = <<{"fetchBlockedIps"}, {"fetchIpLists"}>>])
\* immune/page.tsx 185-193: handleUnblockIp
immune_handleUnblockIp == immune_handleBlockIp
\* immune/page.tsx 195-202: handleResetRateLimit
immune_handleResetRateLimit ==
  Reported([Write({"rateStats"}) EXCEPT !.wait = <<{"fetchRateStats"}>>])
\* immune/page.tsx 224-229: error banner
immune_banner == Banner(Nothing)
\* immune/page.tsx 317-378: IP tab
immune_ipTab ==
  Panel(Nothing, [openAddIp |-> Nothing, fetchIpLists |-> Nothing, handleRemoveIp |-> Nothing])
\* immune/page.tsx 380-441: intrusion tab
immune_intrusionTab == Panel(Nothing, [handleBlockIp |-> Nothing, handleUnblockIp |-> Nothing])
\* immune/page.tsx 542-576: dialog for a new address
immune_addIpDialog ==
  Dialog([showAddIp |-> Open], [closeAddIp |-> Nothing, handleAddIp |-> Nothing])
\* immune/page.tsx 443-496: audit tab
immune_auditTab == Panel(Nothing, [setAuditFilter |-> Nothing, fetchAuditLog |-> Nothing])
\* immune/page.tsx 268-315: moderation tab
immune_moderateTab == Panel(Nothing, [handleModerate |-> [moderateLoading |-> Shut]])
\* immune/page.tsx 498-540: rate limit tab
immune_rateTab == Panel(Nothing, [fetchRateStats |-> Nothing, handleResetRateLimit |-> Nothing])
\* immune/page.tsx 117-124: effect, with the lists of addresses
immune_addresses ==
  [Page EXCEPT
   !.init = [error |-> "off", showAddIp |-> "off", auditFilter |-> "a"],
   !.lists = {"ipLists", "stats", "blockedIps"},
   !.effects = {Effect({"fetchStats", "fetchIpLists", "fetchBlockedIps"}, {"auditFilter"}, Nothing)},
   !.unrefreshed = [handleRemoveIp |-> {"stats"}, handleBlockIp |-> {"stats"},
                    handleUnblockIp |-> {"stats"}],
   !.panels = {immune_banner, immune_ipTab, immune_intrusionTab, immune_addIpDialog,
               Panel(Nothing, [setAuditFilter |-> Nothing])},
   !.ops = BannerOps @@
           [fetchStats |-> immune_fetchStats, fetchIpLists |-> immune_fetchIpLists,
            fetchBlockedIps |-> immune_fetchBlockedIps, handleAddIp |-> immune_handleAddIp,
            handleRemoveIp |-> immune_handleRemoveIp, handleBlockIp |-> immune_handleBlockIp,
            handleUnblockIp |-> immune_handleUnblockIp, openAddIp |-> Set([showAddIp |-> "on"]),
            closeAddIp |-> Set([showAddIp |-> "off"]),
            setAuditFilter |-> Set([auditFilter |-> "flip"])]]
\* immune/page.tsx 38-63: ImmunePage, with the other lists
immune_audit ==
  [Page EXCEPT
   !.init = [error |-> "off", moderateLoading |-> "off", auditFilter |-> "a"],
   !.lists = {"auditLog", "threats", "rateStats"}, !.flags = {"moderateLoading"},
   !.closure = {"auditFilter"},
   !.effects = {Effect({"fetchAuditLog", "fetchThreats", "fetchRateStats"}, {"auditFilter"}, Nothing)},
   !.unrefreshed = [handleModerate |-> {"auditLog"}],
   !.panels = {immune_banner, immune_auditTab, immune_moderateTab, immune_rateTab,
               Panel(Nothing, [fetchThreats |-> Nothing])},
   !.ops = BannerOps @@
           [fetchAuditLog |-> immune_fetchAuditLog, fetchThreats |-> immune_fetchThreats,
            fetchRateStats |-> immune_fetchRateStats, handleModerate |-> immune_handleModerate,
            handleResetRateLimit |-> immune_handleResetRateLimit,
            setAuditFilter |-> Set([auditFilter |-> "flip"])]]

-----------------------------------------------------------------------------
(* gland/page.tsx: providers, keys and budget of the model router.  While   *)
(* loading is up the page shows nothing else (224).  A test changes what is *)
(* known of a provider and does not load the list.                          *)

\* gland/page.tsx 103-129: fetchData
gland_fetchData ==
  [Settled({"providers", "keys", "usage"})
     EXCEPT !.pre = [loading |-> "on", error |-> "off"], !.bad = [error |-> "on"],
            !.end = [loading |-> "off"]]
\* gland/page.tsx 133-147: handleTestProvider
gland_handleTestProvider ==
  [Write({"providers"}) EXCEPT !.arg = "row", !.pre = [testing |-> "arg"],
                               !.end = [testing |-> "none"]]
\* gland/page.tsx 149-178: handleAddProvider
gland_handleAddProvider ==
  Reported(Busy("addingProvider",
    Then(Write({"providers", "keys"}), [showAddProvider |-> "off"], {"fetchData"})))
\* gland/page.tsx 180-188: handleRemoveProvider
gland_handleRemoveProvider == Reported(On("row", Then(Write({"providers"}), Nothing, {"fetchData"})))
\* gland/page.tsx 190-206: handleAddKey
gland_handleAddKey ==
  Reported(Busy("addingKey", Then(Write({"keys"}), [showAddKey |-> "off"], {"fetchData"})))
\* gland/page.tsx 208-222: handleSetBudget
gland_handleSetBudget ==
  Reported(Busy("settingBudget", Then(Write({"usage"}), [showBudget |-> "off"], {"fetchData"})))
\* gland/page.tsx 260-332: budget bar and toolbar
gland_toolbar ==
  Panel([loading |-> Shut],
        [openBudget |-> Nothing, testAuto |-> [testing |-> {"none"}], fetchData |-> Nothing,
         openAddProvider |-> Nothing, openAddKey |-> Nothing])
\* gland/page.tsx 347-421: list of providers
gland_providers ==
  Panel([loading |-> Shut],
        [handleTestProvider |-> [testing |-> {"none"}], handleRemoveProvider |-> Nothing])
\* gland/page.tsx 525-532: error banner
gland_banner == Banner([loading |-> Shut])
\* gland/page.tsx 534-583: dialog for a provider
gland_addProviderDialog ==
  Dialog([loading |-> Shut, showAddProvider |-> Open],
         [closeAddProvider |-> Nothing, handleAddProvider |-> [addingProvider |-> Shut]])
\* gland/page.tsx 585-619: dialog for a key
gland_addKeyDialog ==
  Dialog([loading |-> Shut, showAddKey |-> Open],
         [closeAddKey |-> Nothing, handleAddKey |-> [addingKey |-> Shut]])
\* gland/page.tsx 621-648: dialog for the budget
gland_budgetDialog ==
  Dialog([loading |-> Shut, showBudget |-> Open],
         [closeBudget |-> Nothing, handleSetBudget |-> [settingBudget |-> Shut]])
\* gland/page.tsx 77-101: GlandPage
gland ==
  [Page EXCEPT
   !.init = [loading |-> "on", error |-> "off", testing |-> "none", showAddProvider |-> "off",
             addingProvider |-> "off", showAddKey |-> "off", addingKey |-> "off",
             showBudget |-> "off", settingBudget |-> "off"],
   !.lists = {"providers", "keys", "usage"},
   !.flags = {"loading", "addingProvider", "addingKey", "settingBudget"}, !.rowFlags = {"testing"},
   !.effects = {Effect({"fetchData"}, {}, Nothing)},
   !.unrefreshed = [handleTestProvider |-> {"providers"}, testAuto |-> {"providers"}],
   !.panels = {gland_toolbar, gland_providers, gland_banner, gland_addProviderDialog,
               gland_addKeyDialog, gland_budgetDialog},
   !.ops = BannerOps @@
           [fetchData |-> gland_fetchData, handleTestProvider |-> gland_handleTestProvider,
            testAuto |-> [gland_handleTestProvider EXCEPT !.arg = "none", !.pre = [testing |-> "auto"]],
            handleAddProvider |-> gland_handleAddProvider,
            handleRemoveProvider |-> gland_handleRemoveProvider,
            handleAddKey |-> gland_handleAddKey, handleSetBudget |-> gland_handleSetBudget,
            openBudget |-> Set([showBudget |-> "on"]), closeBudget |-> Set([showBudget |-> "off"]),
            openAddKey |-> Set([showAddKey |-> "on"]), closeAddKey |-> Set([showAddKey |-> "off"]),
            openAddProvider |-> Set([showAddProvider |-> "on"]),
            closeAddProvider |-> Set([showAddProvider |-> "off"])]]

-----------------------------------------------------------------------------
(* marrow/page.tsx: backups and their schedules. *)

\* marrow/page.tsx 113-129: fetchData
marrow_fetchData ==
  [Settled({"backups", "schedules"})
     EXCEPT !.pre = [loading |-> "on", error |-> "off"], !.bad = [error |-> "on"],
            !.end = [loading |-> "off"]]
\* marrow/page.tsx 135-158: handleCreateBackup
marrow_handleCreateBackup ==
  Reported(Busy("creating",
    [Then(Write({"backups"}), [showCreateBackup |-> "off"], {"fetchData"})
       EXCEPT !.refuse = [error |-> "on"]]))
\* marrow/page.tsx 160-175: handleRestore
marrow_handleRestore ==
  Reported([Ask EXCEPT !.arg = "row", !.pre = [restoring |-> "arg"],
                       !.ok = [restoring |-> "none"], !.go = {"fetchData"},
                       !.bad = [restoring |-> "none"]])
\* marrow/page.tsx 177-183: handleDeleteBackup
marrow_handleDeleteBackup == Reported(On("row", Then(Write({"backups"}), Nothing, {"fetchData"})))
\* marrow/page.tsx 187-213: handleCreateSchedule
marrow_handleCreateSchedule ==
  Reported(Busy("creatingSchedule",
    [Then(Write({"schedules"}), [showCreateSchedule |-> "off"], {"fetchData"})
       EXCEPT !.refuse = [error |-> "on"]]))
\* marrow/page.tsx 215-224: handleToggleSchedule
marrow_handleToggleSchedule == Reported(On("row", Then(Write({"schedules"}), Nothing, {"fetchData"})))
\* marrow/page.tsx 226-232: handleDeleteSchedule
marrow_handleDeleteSchedule == marrow_handleToggleSchedule
\* marrow/page.tsx 234-239: handleRunDue
marrow_handleRunDue == Reported(Then(Write({"backups", "schedules"}), Nothing, {"fetchData"}))
\* marrow/page.tsx 281-288: error banner
marrow_banner == Banner([loading |-> Shut])
\* marrow/page.tsx 290-315: toolbar
marrow_toolbar ==
  Panel([loading |-> Shut],
        [fetchData |-> Nothing, openCreateBackup |-> Nothing, openCreateSchedule |-> Nothing,
         handleRunDue |-> Nothing])
\* marrow/page.tsx 317-379: backups tab
marrow_backupsTab ==
  Panel([loading |-> Shut],
        [handleRestore |-> [restoring |-> {"other"}], handleDeleteBackup |-> Nothing])
\* marrow/page.tsx 381-437: schedules tab
marrow_schedulesTab ==
  Panel([loading |-> Shut], [handleToggleSchedule |-> Nothing, handleDeleteSchedule |-> Nothing])
\* marrow/page.tsx 471-508: dialog for a backup
marrow_backupDialog ==
  Dialog([loading |-> Shut, showCreateBackup |-> Open],
         [closeCreateBackup |-> Nothing, handleCreateBackup |-> [creating |-> Shut]])
\* marrow/page.tsx 510-555: dialog for a schedule
marrow_scheduleDialog ==
  Dialog([loading |-> Shut, showCreateSchedule |-> Open],
         [closeCreateSchedule |-> Nothing, handleCreateSchedule |-> [creatingSchedule |-> Shut]])
\* marrow/page.tsx 84-111: MarrowPage
marrow ==
  [Page EXCEPT
   !.init = [loading |-> "on", error |-> "off", showCreateBackup |-> "off", creating |-> "off",
             restoring |-> "none", showCreateSchedule |-> "off", creatingSchedule |-> "off"],
   !.lists = {"backups", "schedules"}, !.flags = {"loading", "creating", "creatingSchedule"},
   !.rowFlags = {"restoring"}, !.effects = {Effect({"fetchData"}, {}, Nothing)},
   !.panels = {marrow_banner, marrow_toolbar, marrow_backupsTab, marrow_schedulesTab,
               marrow_backupDialog, marrow_scheduleDialog},
   !.ops = BannerOps @@
           [fetchData |-> marrow_fetchData, handleCreateBackup |-> marrow_handleCreateBackup,
            handleRestore |-> marrow_handleRestore, handleDeleteBackup |-> marrow_handleDeleteBackup,
            handleCreateSchedule |-> marrow_handleCreateSchedule, handleRunDue |-> marrow_handleRunDue,
            handleToggleSchedule |-> marrow_handleToggleSchedule,
            handleDeleteSchedule |-> marrow_handleDeleteSchedule,
            openCreateBackup |-> Set([showCreateBackup |-> "on"]),
            closeCreateBackup |-> Set([showCreateBackup |-> "off"]),
            openCreateSchedule |-> Set([showCreateSchedule |-> "on"]),
            closeCreateSchedule |-> Set([showCreateSchedule |-> "off"])]]

-----------------------------------------------------------------------------
(* nerve/page.tsx: event bus.  Every change of the topic filter reloads all *)
(* four lists and takes the page away until they are there (205).           *)

\* nerve/page.tsx 108-124: fetchData
nerve_fetchData ==
  [Settled({"stats", "events", "subscriptions", "nodes"})
     EXCEPT !.reads = {"topicFilter"}, !.pre = [loading |-> "on", error |-> "off"],
            !.bad = [error |-> "on"], !.end = [loading |-> "off"]]
\* Mutant: the filter is missing from the dependencies.
nerve_effect_unwatched == Effect({"fetchData"}, {}, Nothing)

\* nerve/page.tsx 126-126: effect of the page
nerve_effect == Effect({"fetchData"}, {"topicFilter"}, Nothing)
\* nerve/page.tsx 130-145: handlePublish
nerve_handlePublish ==
  Reported(Busy("publishing", Then(Write({"events"}), [showPublish |-> "off"], {"fetchData"})))
\* nerve/page.tsx 147-159: handleSubscribe
nerve_handleSubscribe ==
  Reported([Then(Write({"subscriptions"}), [showSubscribe |-> "off"], {"fetchData"})
              EXCEPT !.refuse = [error |-> "on"]])
\* nerve/page.tsx 161-166: handleUnsubscribe
nerve_handleUnsubscribe == Reported(On("row", Then(Write({"subscriptions"}), Nothing, {"fetchData"})))
\* nerve/page.tsx 168-182: handleRegisterNode
nerve_handleRegisterNode ==
  Reported(Then(Write({"nodes"}), [showRegisterNode |-> "off"], {"fetchData"}))
\* nerve/page.tsx 184-190: handleRemoveNode
nerve_handleRemoveNode == Reported(On("row", Then(Write({"nodes"}), Nothing, {"fetchData"})))
\* nerve/page.tsx 192-201: handleHeartbeat
nerve_handleHeartbeat == nerve_handleRemoveNode
\* nerve/page.tsx 248-293: error banner and toolbar
nerve_toolbar ==
  Panel([loading |-> Shut],
        [setTopic |-> Nothing, fetchData |-> Nothing, openPublish |-> Nothing,
         openSubscribe |-> Nothing, openRegisterNode |-> Nothing, dismiss |-> [error |-> Open]])
\* nerve/page.tsx 340-373: subscriptions tab
nerve_subscriptionsTab == Panel([loading |-> Shut], [handleUnsubscribe |-> Nothing])
\* nerve/page.tsx 375-421: nodes tab
nerve_nodesTab == Panel([loading |-> Shut], [handleHeartbeat |-> Nothing, handleRemoveNode |-> Nothing])
\* nerve/page.tsx 423-453: dialog to publish
nerve_publishDialog ==
  Dialog([loading |-> Shut, showPublish |-> Open],
         [closePublish |-> Nothing, handlePublish |-> [publishing |-> Shut]])
\* nerve/page.tsx 455-485: dialog to subscribe
nerve_subscribeDialog ==
  Dialog([loading |-> Shut, showSubscribe |-> Open],
         [closeSubscribe |-> Nothing, handleSubscribe |-> Nothing])
\* nerve/page.tsx 487-523: dialog to register a node
nerve_registerDialog ==
  Dialog([loading |-> Shut, showRegisterNode |-> Open],
         [closeRegisterNode |-> Nothing, handleRegisterNode |-> Nothing])
\* nerve/page.tsx 82-106: NervePage
nerve ==
  [Page EXCEPT
   !.init = [loading |-> "on", error |-> "off", topicFilter |-> "a", showPublish |-> "off",
             publishing |-> "off", showSubscribe |-> "off", showRegisterNode |-> "off"],
   !.lists = {"stats", "events", "subscriptions", "nodes"}, !.flags = {"loading", "publishing"},
   !.closure = {"topicFilter"}, !.effects = {nerve_effect},
   !.panels = {nerve_toolbar, nerve_subscriptionsTab, nerve_nodesTab, nerve_publishDialog,
               nerve_subscribeDialog, nerve_registerDialog},
   !.ops = [fetchData |-> nerve_fetchData, handlePublish |-> nerve_handlePublish,
            handleSubscribe |-> nerve_handleSubscribe, handleUnsubscribe |-> nerve_handleUnsubscribe,
            handleRegisterNode |-> nerve_handleRegisterNode, handleRemoveNode |-> nerve_handleRemoveNode,
            handleHeartbeat |-> nerve_handleHeartbeat, dismiss |-> Set([error |-> "off"]),
            setTopic |-> Set([topicFilter |-> "flip"]),
            openPublish |-> Set([showPublish |-> "on"]), closePublish |-> Set([showPublish |-> "off"]),
            openSubscribe |-> Set([showSubscribe |-> "on"]),
            closeSubscribe |-> Set([showSubscribe |-> "off"]),
            openRegisterNode |-> Set([showRegisterNode |-> "on"]),
            closeRegisterNode |-> Set([showRegisterNode |-> "off"])]]

-----------------------------------------------------------------------------
(* notifications/page.tsx: reading and dismissing change the list on the    *)
(* page itself.  handleDismiss leaves the count of unread ones as it is,    *)
(* reading leaves the statistics.                                           *)
(* filters stands for level, source and unread-only, which are always read *)
(* and watched together.                                                   *)

\* notifications/page.tsx 72-87: fetchNotifications
notifications_fetchNotifications ==
  Reported(Busy("loading", Fetch({"notifications", "unreadCount"}, {"filters"})))
\* notifications/page.tsx 89-94: fetchStats
notifications_fetchStats == Fetch({"stats"}, {})
\* notifications/page.tsx 96-101: fetchForwardRules
notifications_fetchForwardRules == Fetch({"forwardRules"}, {})
\* notifications/page.tsx 106-114: polling of the unread count
notifications_poll == Fetch({"unreadCount"}, {})
\* notifications/page.tsx 116-122: handleMarkRead
notifications_handleMarkRead ==
  Reported([Write({"notifications", "unreadCount", "stats"})
              EXCEPT !.arg = "row", !.patch = {"notifications", "unreadCount"}])
\* notifications/page.tsx 124-130: handleMarkAllRead
notifications_handleMarkAllRead == On("none", notifications_handleMarkRead)
\* notifications/page.tsx 132-138: handleDismiss
notifications_handleDismiss ==
  Reported([Write({"notifications", "unreadCount", "stats"})
              EXCEPT !.arg = "row", !.patch = {"notifications"}, !.go = {"fetchStats"}])
\* notifications/page.tsx 140-148: handleClearAll
notifications_handleClearAll ==
  Reported([Write({"notifications", "unreadCount", "stats"})
              EXCEPT !.patch = {"notifications", "unreadCount"}, !.go = {"fetchStats"}])
\* notifications/page.tsx 150-156: handleTest
notifications_handleTest ==
  Reported(Then(Write({"notifications", "unreadCount", "stats"}), Nothing,
                {"fetchNotifications", "fetchStats"}))
\* notifications/page.tsx 158-163: handleTestForward
notifications_handleTestForward ==
  Reported(Then(Write({"notifications", "unreadCount", "stats"}), Nothing, {"fetchNotifications"}))
\* notifications/page.tsx 165-170: handleToggleForward
notifications_handleToggleForward ==
  Reported(Then(Write({"forwardRules"}), Nothing, {"fetchForwardRules"}))
\* notifications/page.tsx 172-191: handleForward
notifications_handleForward ==
  Reported(Busy("forwarding", On("forwardNotif", Then(Ask, [forwardNotif |-> "none"], {}))))
\* notifications/page.tsx 250-313: toolbar and error banner
notifications_toolbar ==
  Panel(Nothing,
        [setFilters |-> Nothing,
         fetchNotifications |-> Nothing, handleMarkAllRead |-> Nothing,
         openForwardRules |-> Nothing, openStats |-> Nothing, handleTest |-> Nothing,
         handleClearAll |-> Nothing, dismiss |-> [error |-> Open]])
\* notifications/page.tsx 315-377: list
notifications_list ==
  Panel(Nothing,
        [select |-> Nothing, handleMarkRead |-> Nothing, openForward |-> Nothing,
         handleDismiss |-> Nothing])
\* notifications/page.tsx 379-433: detail dialog
notifications_detailDialog == Dialog([selectedNotif |-> {"some"}], [unselect |-> Nothing])
\* notifications/page.tsx 435-488: dialog with the forward rules
notifications_rulesDialog ==
  Dialog([showForwardRules |-> Open],
         [closeForwardRules |-> Nothing, handleToggleForward |-> Nothing, handleTestForward |-> Nothing])
\* notifications/page.tsx 490-540: dialog with the statistics
notifications_statsDialog == Dialog([showStats |-> Open], [closeStats |-> Nothing])
\* notifications/page.tsx 542-584: forward dialog
notifications_forwardDialog ==
  Dialog([forwardNotif |-> {"some"}],
         [closeForward |-> Nothing, handleForward |-> [forwarding |-> Shut]])
\* notifications/page.tsx 45-70: NotificationsPage
notifications ==
  [Page EXCEPT
   !.init = [loading |-> "on", error |-> "off", filters |-> "a", showStats |-> "off", showForwardRules |-> "off",
             selectedNotif |-> "none", forwardNotif |-> "none", forwarding |-> "off"],
   !.lists = {"notifications", "unreadCount", "stats", "forwardRules"},
   !.flags = {"loading", "forwarding"},
   !.closure = {"filters"},
   !.effects = {Effect({"fetchNotifications", "fetchStats", "fetchForwardRules"},
                       {"filters"}, Nothing)},
   !.timers = {[run |-> "poll", when |-> Nothing]},
   !.unrefreshed = [handleMarkRead |-> {"stats"}, handleMarkAllRead |-> {"stats"},
                    handleDismiss |-> {"unreadCount"}, handleTestForward |-> {"stats"}],
   !.panels = {notifications_toolbar, notifications_list, notifications_detailDialog,
               notifications_rulesDialog, notifications_statsDialog, notifications_forwardDialog},
   !.ops = [fetchNotifications |-> notifications_fetchNotifications,
            fetchStats |-> notifications_fetchStats, poll |-> notifications_poll,
            fetchForwardRules |-> notifications_fetchForwardRules,
            handleMarkRead |-> notifications_handleMarkRead,
            handleMarkAllRead |-> notifications_handleMarkAllRead,
            handleDismiss |-> notifications_handleDismiss,
            handleClearAll |-> notifications_handleClearAll, handleTest |-> notifications_handleTest,
            handleTestForward |-> notifications_handleTestForward,
            handleToggleForward |-> notifications_handleToggleForward,
            handleForward |-> notifications_handleForward, dismiss |-> Set([error |-> "off"]),
            setFilters |-> Set([filters |-> "flip"]),
            openForwardRules |-> Set([showForwardRules |-> "on"]),
            closeForwardRules |-> Set([showForwardRules |-> "off"]),
            openStats |-> Set([showStats |-> "on"]), closeStats |-> Set([showStats |-> "off"]),
            select |-> On("row", Set([selectedNotif |-> "arg"])),
            unselect |-> Set([selectedNotif |-> "none"]),
            openForward |-> On("row", Set([forwardNotif |-> "arg"])),
            closeForward |-> Set([forwardNotif |-> "none"])]]

-----------------------------------------------------------------------------
(* vital/page.tsx: metrics of the system.  The page is away until the first *)
(* load is through (317).                                                   *)

\* vital/page.tsx 260-283: fetchData
vital_fetchData ==
  [Settled({"stats", "health", "alerts", "history", "summary"})
     EXCEPT !.reads = {"historyMinutes"}, !.pre = [loading |-> "on", error |-> "off"],
            !.ok = [lastRefresh |-> "on"], !.bad = [error |-> "on", lastRefresh |-> "on"],
            !.end = [loading |-> "off"]]
\* vital/page.tsx 287-291: effect with the timer
vital_refresh == [run |-> "fetchData", when |-> [autoRefresh |-> Open]]
\* vital/page.tsx 317-365: header
vital_header ==
  Panel([lastRefresh |-> Open],
        [watch |-> [autoRefresh |-> Shut], unwatch |-> [autoRefresh |-> Open],
         setHistoryMinutes |-> Nothing, fetchData |-> [loading |-> Shut], dismiss |-> [error |-> Open]])
\* vital/page.tsx 473-524: alerts
vital_alerts == Panel([lastRefresh |-> Open], [expandAlert |-> Nothing])
\* vital/page.tsx 246-258: VitalPage
vital ==
  [Page EXCEPT
   !.init = [loading |-> "on", error |-> "off", lastRefresh |-> "off", autoRefresh |-> "off",
             historyMinutes |-> "a", expandedAlert |-> "none"],
   !.lists = {"stats", "health", "alerts", "history", "summary"}, !.flags = {"loading"},
   !.closure = {"historyMinutes"}, !.effects = {Effect({"fetchData"}, {"historyMinutes"}, Nothing)},
   !.timers = {vital_refresh}, !.panels = {vital_header, vital_alerts},
   !.ops = [fetchData |-> vital_fetchData, watch |-> Set([autoRefresh |-> "on"]),
            unwatch |-> Set([autoRefresh |-> "off"]), dismiss |-> Set([error |-> "off"]),
            setHistoryMinutes |-> Set([historyMinutes |-> "flip"]),
            expandAlert |-> On("row", Set([expandedAlert |-> "arg"]))]]
=============================================================================
