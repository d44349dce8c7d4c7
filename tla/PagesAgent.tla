----------------------------- MODULE PagesAgent -----------------------------
(***************************************************************************)
(* Pages of the section "agents" of the admin front end, in the form of    *)
(* PagesSystem.                                                            *)
(***************************************************************************)
EXTENDS AdminVocabulary

-----------------------------------------------------------------------------
(* skills/page.tsx.  A rollback is two requests, an uninstall and an        *)
(* install; the list is loaded again behind the second one only.            *)

\* skills/page.tsx 411-506: fetchData
skills_fetchData ==
  [Settled({"skills", "feedbackStats", "intelInsights"})
     EXCEPT !.pre = [loading |-> "on", error |-> "off"], !.end = [loading |-> "off"]]
\* skills/page.tsx 510-525: handleInstall
skills_handleInstall ==
  Busy("installing", [Write({"skills"}) EXCEPT !.pre = [installResult |-> "off"],
                        !.ok = [installResult |-> "on"], !.go = {"fetchData"},
                        !.bad = [installResult |-> "on"]])
\* skills/page.tsx 527-535: handleUninstall
skills_handleUninstall == Reported(On("row", Then(Write({"skills"}), Nothing, {"fetchData"})))
\* skills/page.tsx 537-551: handleRollback
skills_handleRollback ==
  Reported([Write({"skills"}) EXCEPT !.arg = "row", !.wait = <<{"reinstall"}>>])
\* skills/page.tsx 542-547: the install of a rollback
skills_reinstall == Then(Write({"skills"}), Nothing, {"fetchData"})
\* skills/page.tsx 553-565: handleMigrate
skills_handleMigrate ==
  Reported(Busy("migrating", [Write({"skills"}) EXCEPT !.pre = [migrateResult |-> "off"],
                                !.ok = [migrateResult |-> "on"], !.go = {"fetchData"}]))
\* skills/page.tsx 668-730: toolbar and banners
skills_toolbar ==
  Panel([loading |-> Shut],
        [fetchData |-> Nothing, handleMigrate |-> [migrating |-> Shut], openInstall |-> Nothing,
         dismiss |-> [error |-> Open], dismissMigrate |-> [migrateResult |-> Open]])
\* skills/page.tsx 229-378: SkillCard, what a card offers
skills_SkillCard == [handleUninstall |-> Nothing, handleRollback |-> Nothing]
\* skills/page.tsx 732-757: list of skills
skills_list == Panel([loading |-> Shut], skills_SkillCard)
\* skills/page.tsx 766-805: install dialog; Enter in its name field calls the
\* handler whether or not it is busy
skills_installDialog ==
  Dialog([loading |-> Shut, showInstall |-> Open],
         [closeInstall |-> Nothing, handleInstall |-> Nothing])
\* skills/page.tsx 383-409: SkillsPage
skills ==
  [Page EXCEPT
   !.init = [loading |-> "on", error |-> "off", showInstall |-> "off", installing |-> "off",
             installResult |-> "off", migrating |-> "off", migrateResult |-> "off"],
   !.lists = {"skills", "feedbackStats", "intelInsights"},
   !.flags = {"loading", "installing", "migrating"},
   !.effects = {Effect({"fetchData"}, {}, Nothing)},
   !.unrefreshed = [handleRollback |-> {"skills"}],
   !.panels = {skills_toolbar, skills_list, skills_installDialog},
   !.ops = [fetchData |-> skills_fetchData, handleInstall |-> skills_handleInstall,
            handleUninstall |-> skills_handleUninstall, handleRollback |-> skills_handleRollback,
            reinstall |-> skills_reinstall, handleMigrate |-> skills_handleMigrate,
            openInstall |-> Set([showInstall |-> "on", installResult |-> "off"]),
            closeInstall |-> Set([showInstall |-> "off"]), dismiss |-> Set([error |-> "off"]),
            dismissMigrate |-> Set([migrateResult |-> "off"])]]

-----------------------------------------------------------------------------
(* ai-groups/page.tsx: groups of agents.  A group that is open takes the     *)
(* place of the list, a task that is open the place of its group.  The task *)
(* on display is a copy: carrying it out reloads the group and not the copy. *)

\* ai-groups/page.tsx 123-133: fetchGroups
ai_groups_fetchGroups == Reported(Busy("loading", Fetch({"groups"}, {})))
\* ai-groups/page.tsx 137-152: handleCreate
ai_groups_handleCreate ==
  Reported([Write({"groups"}) EXCEPT !.ok = [showCreate |-> "off"], !.wait = <<{"fetchGroups"}>>])
\* ai-groups/page.tsx 154-163: handleDelete
ai_groups_handleDelete ==
  Reported([Write({"groups"}) EXCEPT !.arg = "selectedGroup", !.ok = [selectedGroup |-> "none"],
                                     !.wait = <<{"fetchGroups"}>>])
\* ai-groups/page.tsx 165-172: fetchGroupDetail
ai_groups_fetchGroupDetail == Reported(On("row", Then(Ask, [selectedGroup |-> "arg"], {})))
\* ai-groups/page.tsx 174-189: handleAddAgent
ai_groups_handleAddAgent ==
  Reported([Write({"groups"}) EXCEPT !.arg = "selectedGroup", !.ok = [showAddAgent |-> "off"],
                                     !.wait = <<{"fetchGroupDetail"}, {"fetchGroups"}>>])
\* ai-groups/page.tsx 191-200: handleRemoveAgent
ai_groups_handleRemoveAgent == [ai_groups_handleAddAgent EXCEPT !.ok = Nothing]
\* ai-groups/page.tsx 202-218: handleSubmitTask
ai_groups_handleSubmitTask ==
  Reported([Write({"groups"}) EXCEPT !.arg = "selectedGroup", !.ok = [showSubmitTask |-> "off"],
                                     !.wait = <<{"fetchGroupDetail"}>>])
\* ai-groups/page.tsx 220-232: handleExecuteTask
ai_groups_handleExecuteTask ==
  Reported([Ask EXCEPT !.arg = "selectedGroup", !.wait = <<{"fetchGroupDetail"}>>])
\* ai-groups/page.tsx 234-246: handleVerifyTask, which leaves the task (299, 303)
ai_groups_handleVerifyTask == [ai_groups_handleExecuteTask EXCEPT !.pre = [selectedTask |-> "none"]]
\* ai-groups/page.tsx 248-257: fetchDiscussion
ai_groups_fetchDiscussion ==
  Reported(On("selectedTask", Then(Ask, [discussionMessages |-> "arg", showDiscussion |-> "on"], {})))
\* ai-groups/page.tsx 269-353: task
ai_groups_taskView ==
  Panel([selectedTask |-> {"some"}, selectedGroup |-> {"some"}],
        [closeTask |-> Nothing, handleExecuteTask |-> Nothing, handleVerifyTask |-> Nothing,
         fetchDiscussion |-> Nothing])
\* ai-groups/page.tsx 355-383: discussion of a task
ai_groups_discussionDialog ==
  Dialog([selectedTask |-> {"some"}, selectedGroup |-> {"some"}, showDiscussion |-> Open],
         [closeDiscussion |-> Nothing])
\* ai-groups/page.tsx 389-505: group
ai_groups_groupView ==
  Panel([selectedTask |-> {"none"}, selectedGroup |-> {"some"}],
        [back |-> Nothing, openSubmitTask |-> Nothing, handleDelete |-> Nothing,
         openAddAgent |-> Nothing, handleRemoveAgent |-> Nothing, openTask |-> Nothing])
\* ai-groups/page.tsx 507-545: dialog for an agent
ai_groups_addAgentDialog ==
  Dialog([selectedTask |-> {"none"}, selectedGroup |-> {"some"}, showAddAgent |-> Open],
         [closeAddAgent |-> Nothing, handleAddAgent |-> Nothing])
\* ai-groups/page.tsx 547-578: dialog for a task
ai_groups_submitDialog ==
  Dialog([selectedTask |-> {"none"}, selectedGroup |-> {"some"}, showSubmitTask |-> Open],
         [closeSubmitTask |-> Nothing, handleSubmitTask |-> Nothing])
\* ai-groups/page.tsx 584-630: banner and toolbar of the list
ai_groups_toolbar ==
  Panel([selectedGroup |-> {"none"}, loading |-> Shut],
        [fetchGroups |-> Nothing, openCreate |-> Nothing, dismiss |-> [error |-> Open]])
\* ai-groups/page.tsx 632-680: list of groups
ai_groups_grid == Panel([selectedGroup |-> {"none"}, loading |-> Shut], [fetchGroupDetail |-> Nothing])
\* ai-groups/page.tsx 682-737: dialog for a group
ai_groups_createDialog ==
  Dialog([selectedGroup |-> {"none"}, loading |-> Shut, showCreate |-> Open],
         [closeCreate |-> Nothing, handleCreate |-> Nothing])
\* ai-groups/page.tsx 94-121: AIGroupsPage
ai_groups ==
  [Page EXCEPT
   !.init = [loading |-> "on", error |-> "off", showCreate |-> "off", selectedGroup |-> "none",
             selectedTask |-> "none", discussionMessages |-> "none", showDiscussion |-> "off",
             showAddAgent |-> "off", showSubmitTask |-> "off"],
   !.lists = {"groups"}, !.flags = {"loading"},
   !.details = {Detail("discussionMessages", "selectedTask", [showDiscussion |-> Open])},
   !.effects = {Effect({"fetchGroups"}, {}, Nothing)},
   !.unrefreshed = [handleSubmitTask |-> {"groups"}],
   !.panels = {ai_groups_taskView, ai_groups_discussionDialog, ai_groups_groupView,
               ai_groups_addAgentDialog, ai_groups_submitDialog, ai_groups_toolbar,
               ai_groups_grid, ai_groups_createDialog},
   !.ops = [fetchGroups |-> ai_groups_fetchGroups, handleCreate |-> ai_groups_handleCreate,
            handleDelete |-> ai_groups_handleDelete, fetchGroupDetail |-> ai_groups_fetchGroupDetail,
            handleAddAgent |-> ai_groups_handleAddAgent,
            handleRemoveAgent |-> ai_groups_handleRemoveAgent,
            handleSubmitTask |-> ai_groups_handleSubmitTask,
            handleExecuteTask |-> ai_groups_handleExecuteTask,
            handleVerifyTask |-> ai_groups_handleVerifyTask,
            fetchDiscussion |-> ai_groups_fetchDiscussion,
            openTask |-> On("row", Set([selectedTask |-> "arg"])),
            closeTask |-> Set([selectedTask |-> "none"]),
            closeDiscussion |-> Set([showDiscussion |-> "off"]),
            back |-> Set([selectedGroup |-> "none"]), dismiss |-> Set([error |-> "off"]),
            openAddAgent |-> Set([showAddAgent |-> "on"]),
            closeAddAgent |-> Set([showAddAgent |-> "off"]),
            openSubmitTask |-> Set([showSubmitTask |-> "on"]),
            closeSubmitTask |-> Set([showSubmitTask |-> "off"]),
            openCreate |-> Set([showCreate |-> "on"]), closeCreate |-> Set([showCreate |-> "off"])]]

-----------------------------------------------------------------------------
(* heredity/page.tsx: versions and migrations of the components.  A list    *)
(* whose request fails is shown as empty.  The details of a component are   *)
(* loaded once and kept; fetchSchemaDiff (468-475) is called by nothing.    *)

\* heredity/page.tsx 381-402: fetchAll
heredity_fetchAll ==
  [Emptied({"components", "migrations", "changelog"})
     EXCEPT !.pre = [loading |-> "on", error |-> "off"], !.bad = [error |-> "on"],
            !.end = [loading |-> "off"]]
\* heredity/page.tsx 406-423: toggleComp of a component whose details are not there
heredity_expandComp ==
  Reported([Ask EXCEPT !.arg = "row", !.pre = [expandedComp |-> "arg", loadingDetail |-> "arg"],
                       !.end = [loadingDetail |-> "none"]])
\* heredity/page.tsx 406-412: toggleComp of one whose details are there
heredity_reexpandComp == On("row", Set([expandedComp |-> "arg"]))
\* heredity/page.tsx 407-410: toggleComp of the one that is open
heredity_collapseComp == Set([expandedComp |-> "none"])
\* heredity/page.tsx 425-435: executeMigration
heredity_executeMigration ==
  Reported([Write({"migrations"}) EXCEPT !.arg = "row", !.pre = [executingMigration |-> "arg"],
              !.go = {"fetchAll"}, !.end = [executingMigration |-> "none"]])
\* heredity/page.tsx 437-448: rollbackMigration
heredity_rollbackMigration == heredity_executeMigration
\* heredity/page.tsx 450-466: createMigration
heredity_createMigration ==
  Reported(Busy("creatingMigration",
    Then(Write({"migrations"}), [showNewMigration |-> "off"], {"fetchAll"})))
\* heredity/page.tsx 113-222: ComponentCard
heredity_ComponentCard ==
  [expandComp |-> [expandedComp |-> {"other"}], reexpandComp |-> [expandedComp |-> {"other"}],
   collapseComp |-> [expandedComp |-> {"some"}]]
\* heredity/page.tsx 226-279: MigrationCard
heredity_MigrationCard ==
  [executeMigration |-> [executingMigration |-> {"other"}],
   rollbackMigration |-> [executingMigration |-> {"other"}]]
\* heredity/page.tsx 515-541: toolbar and banner
heredity_toolbar ==
  Panel([loading |-> Shut],
        [fetchAll |-> Nothing, openNewMigration |-> Nothing, dismiss |-> [error |-> Open]])
\* heredity/page.tsx 556-576: components tab
heredity_componentsTab == Panel([loading |-> Shut], heredity_ComponentCard)
\* heredity/page.tsx 578-597: migrations tab
heredity_migrationsTab == Panel([loading |-> Shut], heredity_MigrationCard)
\* heredity/page.tsx 641-706: dialog for a migration
heredity_newDialog ==
  Dialog([loading |-> Shut, showNewMigration |-> Open],
         [closeNewMigration |-> Nothing, createMigration |-> [creatingMigration |-> Shut]])
\* heredity/page.tsx 362-379: HeredityPage
heredity ==
  [Page EXCEPT
   !.init = [loading |-> "on", error |-> "off", expandedComp |-> "none", loadingDetail |-> "none",
             executingMigration |-> "none", showNewMigration |-> "off", creatingMigration |-> "off"],
   !.lists = {"components", "migrations", "changelog"}, !.flags = {"loading", "creatingMigration"},
   !.rowFlags = {"loadingDetail", "executingMigration"},
   !.effects = {Effect({"fetchAll"}, {}, Nothing)},
   !.panels = {heredity_toolbar, heredity_componentsTab, heredity_migrationsTab, heredity_newDialog},
   !.ops = [fetchAll |-> heredity_fetchAll, expandComp |-> heredity_expandComp,
            reexpandComp |-> heredity_reexpandComp, collapseComp |-> heredity_collapseComp,
            executeMigration |-> heredity_executeMigration,
            rollbackMigration |-> heredity_rollbackMigration,
            createMigration |-> heredity_createMigration, dismiss |-> Set([error |-> "off"]),
            openNewMigration |-> Set([showNewMigration |-> "on"]),
            closeNewMigration |-> Set([showNewMigration |-> "off"])]]

-----------------------------------------------------------------------------
(* gene/page.tsx: templates.  filters stands for category and tag.  The     *)
(* totals are not loaded again after a deletion, and nothing is after an    *)
(* instantiation, which counts as a use of the template.                    *)

\* gene/page.tsx 92-114: fetchAll
gene_fetchAll == Reported(Busy("loading", Fetch({"templates", "stats"}, {"filters"})))
\* gene/page.tsx 118-140: handleCreate
gene_handleCreate ==
  Reported([Then(Write({"templates", "stats"}), [showCreateDialog |-> "off"], {"fetchAll"})
              EXCEPT !.pre = [error |-> "off"], !.refuse = [error |-> "on"]])
\* gene/page.tsx 142-149: handleDelete
gene_handleDelete ==
  Reported([Write({"templates", "stats"}) EXCEPT !.patch = {"templates"},
              !.ok = [selectedTemplate |-> "drop"], !.shut = [showDetail |-> "selectedTemplate"]])
\* gene/page.tsx 151-164: handleClone
gene_handleClone ==
  Reported(On("selectedTemplate",
    [Then(Write({"templates", "stats"}), [showCloneDialog |-> "off", cloneName |-> "blank"], {"fetchAll"})
       EXCEPT !.body = {"cloneName"}]))
\* gene/page.tsx 166-177: handleInstantiate
gene_handleInstantiate ==
  Reported(On("selectedTemplate",
    [Write({"templates", "stats"}) EXCEPT !.pre = [instantiateResult |-> "none"],
                                          !.ok = [instantiateResult |-> "arg"]]))
\* gene/page.tsx 179-190: handleExport
gene_handleExport == Reported(Ask)
\* gene/page.tsx 192-203: handleExportAll
gene_handleExportAll == Reported(Ask)
\* gene/page.tsx 205-220: handleImport
gene_handleImport ==
  Reported([Then(Write({"templates", "stats"}), [showImportDialog |-> "off"], {"fetchAll"})
              EXCEPT !.refuse = [error |-> "on"]])
\* gene/page.tsx 257-308: toolbar and banner
gene_toolbar ==
  Panel([loading |-> Shut],
        [setFilters |-> Nothing, fetchAll |-> Nothing, openCreate |-> Nothing, openImport |-> Nothing,
         handleExportAll |-> Nothing, dismiss |-> [error |-> Open]])
\* gene/page.tsx 310-389: list of templates
gene_grid ==
  Panel([loading |-> Shut],
        [select |-> Nothing, clone |-> Nothing, instantiate |-> Nothing, handleExport |-> Nothing,
         handleDelete |-> Nothing])
\* gene/page.tsx 391-506: detail panel
gene_detailDialog ==
  Dialog([loading |-> Shut, showDetail |-> Open, selectedTemplate |-> {"some"}],
         [closeDetail |-> Nothing, instantiateSelected |-> Nothing, cloneSelected |-> Nothing,
          exportSelected |-> Nothing, deleteSelected |-> Nothing])
\* gene/page.tsx 508-566: dialog for a template
gene_createDialog ==
  Dialog([loading |-> Shut, showCreateDialog |-> Open], [closeCreate |-> Nothing, handleCreate |-> Nothing])
\* gene/page.tsx 568-594: clone dialog
gene_cloneDialog ==
  Over(Dialog([loading |-> Shut, showCloneDialog |-> Open, selectedTemplate |-> {"some"}],
              [closeClone |-> Nothing, handleClone |-> Nothing]))
\* gene/page.tsx 596-645: dialog for an instance
gene_instantiateDialog ==
  Over(Dialog([loading |-> Shut, showInstantiateDialog |-> Open, selectedTemplate |-> {"some"}],
              [closeInstantiate |-> Nothing, handleInstantiate |-> Nothing]))
\* gene/page.tsx 647-677: import dialog
gene_importDialog ==
  Dialog([loading |-> Shut, showImportDialog |-> Open], [closeImport |-> Nothing, handleImport |-> Nothing])
\* gene/page.tsx 61-90: GenePage
gene ==
  [Page EXCEPT
   !.init = [loading |-> "on", error |-> "off", filters |-> "a", selectedTemplate |-> "none",
             showDetail |-> "off", showCreateDialog |-> "off", showCloneDialog |-> "off",
             cloneName |-> "blank", showInstantiateDialog |-> "off", instantiateResult |-> "none",
             showImportDialog |-> "off"],
   !.lists = {"templates", "stats"}, !.flags = {"loading"}, !.forms = {"cloneName"},
   !.selections = {"selectedTemplate"},
   !.details = {Detail("instantiateResult", "selectedTemplate",
                       [showInstantiateDialog |-> Open, instantiateResult |-> {"some"}])},
   !.closure = {"filters", "selectedTemplate"}, !.effects = {Effect({"fetchAll"}, {"filters"}, Nothing)},
   !.unrefreshed = [handleDelete |-> {"stats"}, deleteSelected |-> {"stats"},
                    handleInstantiate |-> {"templates", "stats"}],
   !.panels = {gene_toolbar, gene_grid, gene_detailDialog, gene_createDialog, gene_cloneDialog,
               gene_instantiateDialog, gene_importDialog},
   !.ops = [fetchAll |-> gene_fetchAll, handleCreate |-> gene_handleCreate,
            handleDelete |-> On("row", gene_handleDelete),
            deleteSelected |-> On("selectedTemplate", gene_handleDelete),
            handleClone |-> gene_handleClone, handleInstantiate |-> gene_handleInstantiate,
            handleExport |-> On("row", gene_handleExport),
            exportSelected |-> On("selectedTemplate", gene_handleExport),
            handleExportAll |-> gene_handleExportAll, handleImport |-> gene_handleImport,
            setFilters |-> Set([filters |-> "flip"]), dismiss |-> Set([error |-> "off"]),
            select |-> On("row", Set([selectedTemplate |-> "arg", showDetail |-> "on"])),
            closeDetail |-> Set([showDetail |-> "off"]),
            clone |-> On("row", Set([selectedTemplate |-> "arg", cloneName |-> "arg",
                                     showCloneDialog |-> "on"])),
            cloneSelected |-> On("selectedTemplate",
                                 Set([cloneName |-> "arg", showCloneDialog |-> "on"])),
            closeClone |-> Set([showCloneDialog |-> "off"]),
            instantiate |-> On("row", Set([selectedTemplate |-> "arg", instantiateResult |-> "none",
                                           showInstantiateDialog |-> "on"])),
            instantiateSelected |-> Set([instantiateResult |-> "none", showInstantiateDialog |-> "on"]),
            closeInstantiate |-> Set([showInstantiateDialog |-> "off"]),
            openCreate |-> Set([showCreateDialog |-> "on"]),
            closeCreate |-> Set([showCreateDialog |-> "off"]),
            openImport |-> Set([showImportDialog |-> "on"]),
            closeImport |-> Set([showImportDialog |-> "off"])]]

-----------------------------------------------------------------------------
(* a2a/page.tsx: agent card and tasks of the A2A endpoint.  The tasks are   *)
(* those of the answers seen by this page; they are never loaded.           *)

\* a2a/page.tsx 475-485: fetchCard
a2a_fetchCard == Reported(Fetch({"card"}, {}))
\* a2a/page.tsx 487-492: fetchData
a2a_fetchData ==
  [Both(<<{"fetchCard"}>>) EXCEPT !.pre = [loading |-> "on", error |-> "off"],
                                  !.after = [loading |-> "off"]]
\* a2a/page.tsx 496-518: handleCancelTask
a2a_handleCancelTask == Reported([Write({"tasks"}) EXCEPT !.arg = "row", !.patch = {"tasks"}])
\* a2a/page.tsx 520-538: handleRPCResult, which changes the task in the list
a2a_handleRPCResult == {"tasks"}
\* a2a/page.tsx 301-343: RPCPanel.handleSend
a2a_handleSend == Busy("sending", [Write({"tasks"}) EXCEPT !.patch = a2a_handleRPCResult])
\* a2a/page.tsx 208-286: TaskDetail
a2a_TaskDetail == [handleCancelTask |-> Nothing]
\* a2a/page.tsx 345-401: RPCPanel
a2a_RPCPanel == [handleSend |-> [sending |-> Shut]]
\* a2a/page.tsx 554-561: error banner
a2a_banner == Banner([loading |-> Shut])
\* a2a/page.tsx 591-618: tab bar
a2a_toolbar ==
  Panel([loading |-> Shut],
        [fetchData |-> Nothing, showTester |-> [tab |-> {"tasks"}], showTasks |-> [tab |-> {"tester"}]])
\* a2a/page.tsx 623-669: tasks tab
a2a_tasksTab == Panel([loading |-> Shut, tab |-> {"tasks"}], a2a_TaskDetail)
\* a2a/page.tsx 671-677: tester tab
a2a_testerTab == Panel([loading |-> Shut, tab |-> {"tester"}], a2a_RPCPanel)
\* a2a/page.tsx 465-473: A2APage; sending is the panel's own and starts lowered
\* each time the tab is shown
a2a ==
  [Page EXCEPT
   !.init = [loading |-> "on", error |-> "off", tab |-> "tasks", sending |-> "off"],
   !.lists = {"card", "tasks"}, !.flags = {"loading"},
   !.effects = {Effect({"fetchData"}, {}, Nothing)},
   !.panels = {a2a_banner, a2a_toolbar, a2a_tasksTab, a2a_testerTab},
   !.ops = BannerOps @@
           [fetchCard |-> a2a_fetchCard, fetchData |-> a2a_fetchData,
            handleCancelTask |-> a2a_handleCancelTask, handleSend |-> a2a_handleSend,
            showTester |-> Set([tab |-> "tester"]),
            showTasks |-> Set([tab |-> "tasks", sending |-> "off"])]]
=============================================================================
