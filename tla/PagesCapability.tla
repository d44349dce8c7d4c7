-------------------------- MODULE PagesCapability --------------------------
(***************************************************************************)
(* Pages of the sections "capabilities" and "automation" of the admin      *)
(* front end, in the form of PagesSystem.                                  *)
(***************************************************************************)
EXTENDS AdminVocabulary

-----------------------------------------------------------------------------
(* echo/page.tsx: channels and templates.  The dialogs are components with  *)
(* a busy flag of their own, which starts lowered each time one is opened:  *)
(* saving and sending are lowered on closing.  Sending does not load the    *)
(* history.                                                                 *)

\* echo/page.tsx 473-492: fetchAll
echo_fetchAll ==
  [Settled({"channels", "templates", "history", "stats"})
     EXCEPT !.pre = [loading |-> "on", error |-> "off"], !.end = [loading |-> "off"]]
\* echo/page.tsx 516-523: handleDeleteTemplate
echo_handleDeleteTemplate ==
  Reported([Write({"templates", "stats"}) EXCEPT !.arg = "row", !.patch = {"templates"}])
\* echo/page.tsx 608-617: onToggle of a channel
echo_toggleChannel == On("row", Then(Write({"channels", "stats"}), Nothing, {"fetchAll"}))
\* echo/page.tsx 274-288: ConfigureDialog.handleSave
echo_handleSave ==
  Busy("saving", On("configuringChannel",
    Then(Write({"channels", "stats"}), [configuringChannel |-> "none"], {"fetchAll"})))
\* echo/page.tsx 354-369: SendDialog.handleSend
echo_handleSend == Busy("sending", Write({"history", "stats"}))
\* echo/page.tsx 553-584: tab bar
echo_toolbar == Panel([loading |-> Shut], [openSend |-> Nothing, fetchAll |-> Nothing])
\* echo/page.tsx 106-169: ChannelCard
echo_ChannelCard == [configure |-> Nothing, toggleChannel |-> Nothing]
\* echo/page.tsx 173-260: TemplateCard
echo_TemplateCard == [openSend |-> Nothing, handleDeleteTemplate |-> Nothing]
\* echo/page.tsx 586-630: channels tab
echo_channelsTab == Panel([loading |-> Shut], echo_ChannelCard)
\* echo/page.tsx 632-676: templates tab
echo_templatesTab == Panel([loading |-> Shut], echo_TemplateCard)
\* echo/page.tsx 739-748: error banner
echo_banner == Banner([loading |-> Shut])
\* echo/page.tsx 264-339: ConfigureDialog
echo_configureDialog ==
  Dialog([loading |-> Shut, configuringChannel |-> {"some"}],
         [closeConfigure |-> Nothing, handleSave |-> [saving |-> Shut]])
\* echo/page.tsx 343-442: SendDialog
echo_sendDialog ==
  Dialog([loading |-> Shut, showSend |-> Open],
         [closeSend |-> Nothing, handleSend |-> [sending |-> Shut]])
\* echo/page.tsx 446-471: EchoPage
echo ==
  [Page EXCEPT
   !.init = [loading |-> "on", error |-> "off", configuringChannel |-> "none", saving |-> "off",
             showSend |-> "off", sending |-> "off"],
   !.lists = {"channels", "templates", "history", "stats"}, !.flags = {"loading"},
   !.effects = {Effect({"fetchAll"}, {}, Nothing)},
   !.unrefreshed = [handleSend |-> {"history", "stats"}, handleDeleteTemplate |-> {"stats"}],
   !.panels = {echo_toolbar, echo_channelsTab, echo_templatesTab, echo_banner,
               echo_configureDialog, echo_sendDialog},
   !.ops = BannerOps @@
           [fetchAll |-> echo_fetchAll, handleDeleteTemplate |-> echo_handleDeleteTemplate,
            toggleChannel |-> echo_toggleChannel, handleSave |-> echo_handleSave,
            handleSend |-> echo_handleSend,
            configure |-> On("row", Set([configuringChannel |-> "arg"])),
            closeConfigure |-> Set([configuringChannel |-> "none", saving |-> "off"]),
            openSend |-> Set([showSend |-> "on"]),
            closeSend |-> Set([showSend |-> "off", sending |-> "off"])]]

-----------------------------------------------------------------------------
(* mirror/page.tsx: sandboxes and their templates.  The totals are not      *)
(* loaded again when a sandbox is paused or resumed, or a template changed, *)
(* nor is the use count of a template when it is instantiated.              *)

\* mirror/page.tsx 93-98: fetchStats
mirror_fetchStats == Fetch({"stats"}, {})
\* mirror/page.tsx 100-110: fetchSandboxes
mirror_fetchSandboxes == Reported(Busy("loading", Fetch({"sandboxes"}, {})))
\* mirror/page.tsx 112-119: fetchTemplates
mirror_fetchTemplates == Reported(Fetch({"templates"}, {}))
\* Mutant: the flag is lowered before the reloads that the handler awaits.
mirror_handleCreateSandbox_early ==
  Reported(Busy("creating", [Write({"sandboxes", "stats"})
                               EXCEPT !.ok = [showCreate |-> "off", creating |-> "off"],
                                      !.wait = <<{"fetchSandboxes"}, {"fetchStats"}>>]))

\* mirror/page.tsx 129-152: handleCreateSandbox
mirror_handleCreateSandbox ==
  Reported(Busy("creating", [Write({"sandboxes", "stats"}) EXCEPT !.ok = [showCreate |-> "off"],
                               !.wait = <<{"fetchSandboxes"}, {"fetchStats"}>>]))
\* mirror/page.tsx 154-164: handleDestroy
mirror_handleDestroy ==
  Reported([Write({"sandboxes", "stats"}) EXCEPT !.arg = "row", !.patch = {"sandboxes"},
              !.ok = [selected |-> "drop"], !.wait = <<{"fetchStats"}>>])
\* mirror/page.tsx 166-173: handlePause
mirror_handlePause ==
  Reported([Write({"sandboxes", "stats"}) EXCEPT !.arg = "row", !.wait = <<{"fetchSandboxes"}>>])
\* mirror/page.tsx 175-182: handleResume
mirror_handleResume == mirror_handlePause
\* mirror/page.tsx 184-195: handleSnapshot
mirror_handleSnapshot ==
  Reported([Write({"sandboxes"}) EXCEPT !.arg = "row", !.wait = <<{"fetchSandboxes"}>>])
\* mirror/page.tsx 197-207: loadLogs
mirror_loadLogs == Reported(Busy("loadingLogs", On("row", Then(Ask, [logs |-> "arg"], {}))))
\* mirror/page.tsx 209-212: selectSandbox
mirror_selectSandbox ==
  [Both(<<{"loadLogs"}>>) EXCEPT !.arg = "row", !.pre = [selected |-> "arg"]]
\* mirror/page.tsx 214-224: handleCleanup
mirror_handleCleanup ==
  Reported([Write({"sandboxes", "stats"}) EXCEPT !.wait = <<{"fetchSandboxes"}, {"fetchStats"}>>])
\* mirror/page.tsx 228-254: handleCreateTemplate
mirror_handleCreateTemplate ==
  Reported([Write({"templates", "stats"}) EXCEPT !.ok = [showCreateTpl |-> "off"],
                                                 !.wait = <<{"fetchTemplates"}>>])
\* mirror/page.tsx 256-277: handleInstantiate
mirror_handleInstantiate ==
  Reported([Write({"sandboxes", "stats", "templates"})
       EXCEPT !.arg = "showInstantiate", !.body = {"instForm"},
              !.ok = [showInstantiate |-> "none", instForm |-> "blank"],
              !.wait = <<{"fetchSandboxes"}, {"fetchStats"}>>])
\* mirror/page.tsx 279-287: handleDeleteTemplate
mirror_handleDeleteTemplate ==
  Reported([Write({"templates", "stats"}) EXCEPT !.arg = "row", !.patch = {"templates"}])
\* mirror/page.tsx 338-344: error banner
mirror_banner == Banner(Nothing)
\* mirror/page.tsx 391-426: toolbar of the sandboxes tab
mirror_toolbar ==
  Panel([tab |-> {"sandboxes"}],
        [fetchSandboxes |-> Nothing, handleCleanup |-> Nothing, openCreate |-> Nothing,
         showTemplates |-> Nothing])
\* mirror/page.tsx 428-492: list of sandboxes
mirror_list ==
  Panel([tab |-> {"sandboxes"}, loading |-> Shut],
        [selectSandbox |-> Nothing, handlePause |-> Nothing, handleResume |-> Nothing,
         handleSnapshot |-> Nothing, handleDestroy |-> Nothing])
\* mirror/page.tsx 494-552: detail panel
mirror_detail == Panel([tab |-> {"sandboxes"}, selected |-> {"some"}], [unselect |-> Nothing])
\* mirror/page.tsx 555-616: templates tab
mirror_templatesTab ==
  Panel([tab |-> {"templates"}],
        [openCreateTpl |-> Nothing, handleDeleteTemplate |-> Nothing, openInstantiate |-> Nothing,
         showSandboxes |-> Nothing])
\* mirror/page.tsx 618-653: dialog for a sandbox
mirror_createDialog ==
  Dialog([showCreate |-> Open], [closeCreate |-> Nothing, handleCreateSandbox |-> [creating |-> Shut]])
\* mirror/page.tsx 655-697: dialog for a template
mirror_templateDialog ==
  Dialog([showCreateTpl |-> Open], [closeCreateTpl |-> Nothing, handleCreateTemplate |-> Nothing])
\* mirror/page.tsx 699-726: dialog for a sandbox made from a template
mirror_instantiateDialog ==
  Dialog([showInstantiate |-> {"some"}], [closeInstantiate |-> Nothing, handleInstantiate |-> Nothing])
\* mirror/page.tsx 56-91: MirrorPage
mirror ==
  [Page EXCEPT
   !.init = [loading |-> "on", error |-> "off", tab |-> "sandboxes", selected |-> "none",
             logs |-> "none", loadingLogs |-> "off", showCreate |-> "off", creating |-> "off",
             showCreateTpl |-> "off", showInstantiate |-> "none", instForm |-> "blank"],
   !.lists = {"sandboxes", "templates", "stats"}, !.flags = {"loading", "loadingLogs", "creating"},
   !.forms = {"instForm"}, !.closure = {"selected"},
   !.details = {Detail("logs", "selected", Nothing)},
   !.effects = {Effect({"fetchStats", "fetchSandboxes", "fetchTemplates"}, {}, Nothing)},
   !.unrefreshed = [handlePause |-> {"stats"}, handleResume |-> {"stats"},
                    handleCreateTemplate |-> {"stats"}, handleDeleteTemplate |-> {"stats"},
                    handleInstantiate |-> {"templates"}],
   !.panels = {mirror_banner, mirror_toolbar, mirror_list, mirror_detail, mirror_templatesTab,
               mirror_createDialog, mirror_templateDialog, mirror_instantiateDialog},
   !.ops = BannerOps @@
           [fetchStats |-> mirror_fetchStats, fetchSandboxes |-> mirror_fetchSandboxes,
            fetchTemplates |-> mirror_fetchTemplates, loadLogs |-> mirror_loadLogs,
            handleCreateSandbox |-> mirror_handleCreateSandbox, handleDestroy |-> mirror_handleDestroy,
            handlePause |-> mirror_handlePause, handleResume |-> mirror_handleResume,
            handleSnapshot |-> mirror_handleSnapshot, selectSandbox |-> mirror_selectSandbox,
            handleCleanup |-> mirror_handleCleanup, handleInstantiate |-> mirror_handleInstantiate,
            handleCreateTemplate |-> mirror_handleCreateTemplate,
            handleDeleteTemplate |-> mirror_handleDeleteTemplate,
            showTemplates |-> Set([tab |-> "templates"]), showSandboxes |-> Set([tab |-> "sandboxes"]),
            unselect |-> Set([selected |-> "none"]), openCreate |-> Set([showCreate |-> "on"]),
            closeCreate |-> Set([showCreate |-> "off"]),
            openCreateTpl |-> Set([showCreateTpl |-> "on"]),
            closeCreateTpl |-> Set([showCreateTpl |-> "off"]),
            openInstantiate |-> On("row", Set([showInstantiate |-> "arg", instForm |-> "arg"])),
            closeInstantiate |-> Set([showInstantiate |-> "none"])]]

-----------------------------------------------------------------------------
(* limb/page.tsx: automation tasks.  The tasks tab is away while tasks load *)
(* (261).  The history, to which an execution adds, is loaded on entering   *)
(* its tab.                                                                 *)

\* limb/page.tsx 99-109: fetchTasks
limb_fetchTasks == Reported(Busy("loading", Fetch({"tasks"}, {"statusFilter"})))
\* limb/page.tsx 111-116: fetchTemplates
limb_fetchTemplates == Reported(Fetch({"templates"}, {}))
\* limb/page.tsx 118-123: fetchHistory
limb_fetchHistory == Reported(Fetch({"history"}, {}))
\* limb/page.tsx 125-130: fetchWindows
limb_fetchWindows == Reported(Fetch({"windows"}, {}))
\* limb/page.tsx 134-152: handleCreateTask
limb_handleCreateTask ==
  Reported([Write({"tasks"}) EXCEPT !.refuse = [error |-> "on"], !.ok = [showCreateTask |-> "off"],
                                    !.wait = <<{"fetchTasks"}>>])
\* Mutant: the mark is taken off before the reload that the handler awaits.
limb_handleExecuteTask_early ==
  Reported([Write({"tasks", "history"})
              EXCEPT !.arg = "row", !.pre = [executing |-> "arg"], !.ok = [executing |-> "none"],
                     !.wait = <<{"fetchTasks"}>>, !.end = [executing |-> "none"]])

\* limb/page.tsx 154-161: handleExecuteTask
limb_handleExecuteTask ==
  Reported([Write({"tasks", "history"})
              EXCEPT !.arg = "row", !.pre = [executing |-> "arg"],
                     !.wait = <<{"fetchTasks"}>>, !.end = [executing |-> "none"]])
\* limb/page.tsx 163-168: handleCancelTask
limb_handleCancelTask == Reported([Write({"tasks"}) EXCEPT !.arg = "row", !.wait = <<{"fetchTasks"}>>])
\* limb/page.tsx 170-176: handleDeleteTask
limb_handleDeleteTask == limb_handleCancelTask
\* limb/page.tsx 178-196: handleCreateTemplate
limb_handleCreateTemplate ==
  Reported([Write({"templates"}) EXCEPT !.refuse = [error |-> "on"], !.ok = [showCreateTemplate |-> "off"],
                                        !.wait = <<{"fetchTemplates"}>>])
\* limb/page.tsx 198-208: handleInstantiateTemplate
limb_handleInstantiateTemplate ==
  Reported([Write({"tasks"}) EXCEPT !.arg = "row", !.wait = <<{"fetchTasks"}>>, !.after = [tab |-> "tasks"]])
\* limb/page.tsx 210-216: handleDeleteTemplate
limb_handleDeleteTemplate ==
  Reported([Write({"templates"}) EXCEPT !.arg = "row", !.wait = <<{"fetchTemplates"}>>])
\* limb/page.tsx 218-223: handleScreenshot
limb_handleScreenshot == Reported(Ask)
\* limb/page.tsx 225-232: handleOCR
limb_handleOCR == Reported(Busy("ocrLoading", Ask))
\* limb/page.tsx 234-241: handleClick
limb_handleClick == Reported(Ask)
\* limb/page.tsx 243-251: handleType
limb_handleType == Reported(Ask)
\* limb/page.tsx 285-305: tab bar and banner
limb_tabs == [showTasks |-> Nothing, showTemplates |-> Nothing, showHistory |-> Nothing,
              showTools |-> Nothing, dismiss |-> [error |-> Open]]
\* limb/page.tsx 307-330: toolbar of the tasks
limb_tasksToolbar ==
  Panel([loading |-> Shut, tab |-> {"tasks"}],
        [setStatusFilter |-> Nothing, fetchTasks |-> Nothing, openCreateTask |-> Nothing])
\* limb/page.tsx 339-385: tasks tab
limb_tasksTab ==
  Panel([loading |-> Shut, tab |-> {"tasks"}],
        [selectTask |-> Nothing, handleExecuteTask |-> [executing |-> {"other"}],
         handleCancelTask |-> Nothing, handleDeleteTask |-> Nothing])
\* limb/page.tsx 387-427: templates tab, with the button of 332-337
limb_templatesTab ==
  Panel([tab |-> {"templates"}],
        [openCreateTemplate |-> Nothing, handleInstantiateTemplate |-> Nothing,
         handleDeleteTemplate |-> Nothing])
\* limb/page.tsx 451-528: tools tab
limb_toolsTab ==
  Panel([tab |-> {"tools"}],
        [handleScreenshot |-> Nothing, handleOCR |-> [ocrLoading |-> Shut], handleClick |-> Nothing,
         handleType |-> Nothing, fetchWindows |-> Nothing])
\* limb/page.tsx 530-569: dialog for a task
limb_createTaskDialog ==
  Dialog([loading |-> Shut, showCreateTask |-> Open],
         [closeCreateTask |-> Nothing, handleCreateTask |-> Nothing])
\* limb/page.tsx 571-608: dialog for a template
limb_createTemplateDialog ==
  [closeCreateTemplate |-> [showCreateTemplate |-> Open],
   handleCreateTemplate |-> [showCreateTemplate |-> Open]]
\* limb/page.tsx 610-643: details of a task
limb_taskDialog == Dialog([loading |-> Shut, selectedTask |-> {"some"}], [closeTask |-> Nothing])
\* limb/page.tsx 65-97: LimbPage
limb ==
  [Page EXCEPT
   !.init = [tab |-> "tasks", loading |-> "on", error |-> "off", statusFilter |-> "a",
             showCreateTask |-> "off", showCreateTemplate |-> "off", selectedTask |-> "none",
             executing |-> "none", ocrLoading |-> "off"],
   !.lists = {"tasks", "templates", "history", "windows"}, !.flags = {"loading", "ocrLoading"},
   !.rowFlags = {"executing"}, !.closure = {"statusFilter"},
   !.effects = {Effect({"fetchTasks"}, {"statusFilter"}, Nothing)},
   !.unrefreshed = [handleExecuteTask |-> {"history"}],
   !.panels = {Panel([loading |-> Shut], limb_tabs),
               Panel([tab |-> {"templates", "history", "tools"}], limb_tabs),
               limb_tasksToolbar, limb_tasksTab, limb_templatesTab, limb_toolsTab,
               limb_createTaskDialog, limb_taskDialog,
               Dialog([showCreateTemplate |-> Open, loading |-> Shut], limb_createTemplateDialog),
               Dialog([showCreateTemplate |-> Open, tab |-> {"templates"}], limb_createTemplateDialog)},
   !.ops = [fetchTasks |-> limb_fetchTasks, fetchTemplates |-> limb_fetchTemplates,
            fetchWindows |-> limb_fetchWindows, handleCreateTask |-> limb_handleCreateTask,
            handleExecuteTask |-> limb_handleExecuteTask, handleCancelTask |-> limb_handleCancelTask,
            handleDeleteTask |-> limb_handleDeleteTask,
            handleCreateTemplate |-> limb_handleCreateTemplate,
            handleInstantiateTemplate |-> limb_handleInstantiateTemplate,
            handleDeleteTemplate |-> limb_handleDeleteTemplate,
            handleScreenshot |-> limb_handleScreenshot, handleOCR |-> limb_handleOCR,
            handleClick |-> limb_handleClick, handleType |-> limb_handleType,
            showTasks |-> Set([tab |-> "tasks"]),
            showTemplates |-> [limb_fetchTemplates EXCEPT !.pre = [tab |-> "templates"]],
            showHistory |-> [limb_fetchHistory EXCEPT !.pre = [tab |-> "history"]],
            showTools |-> [limb_fetchWindows EXCEPT !.pre = [tab |-> "tools"]],
            dismiss |-> Set([error |-> "off"]), setStatusFilter |-> Set([statusFilter |-> "flip"]),
            openCreateTask |-> Set([showCreateTask |-> "on"]),
            closeCreateTask |-> Set([showCreateTask |-> "off"]),
            selectTask |-> On("row", Set([selectedTask |-> "arg"])),
            closeTask |-> Set([selectedTask |-> "none"]),
            openCreateTemplate |-> Set([showCreateTemplate |-> "on"]),
            closeCreateTemplate |-> Set([showCreateTemplate |-> "off"])]]

-----------------------------------------------------------------------------
(* reflex/page.tsx: the response cache.  Rows are edited in the list, so    *)
(* another row can be opened while a save is in progress; its answer closes *)
(* whatever is open (221).  A lookup counts as a hit of the entry it finds. *)

\* reflex/page.tsx 119-143: fetchAll
reflex_fetchAll ==
  Reported(Busy("loading", [Settled({"entries", "stats", "config"})
                              EXCEPT !.pre = [error |-> "off"], !.blank = {"entries"}]))
\* reflex/page.tsx 147-162: handleLookup
reflex_handleLookup ==
  Reported(Busy("looking", [Write({"entries", "stats"})
                              EXCEPT !.pre = [lookupResult |-> "off"], !.ok = [lookupResult |-> "on"]]))
\* reflex/page.tsx 164-187: handleCreate
reflex_handleCreate ==
  Reported(Busy("creating", Then(Write({"entries", "stats"}), [showCreate |-> "off"], {"fetchAll"})))
\* reflex/page.tsx 189-197: handleDelete
reflex_handleDelete ==
  Reported([Write({"entries", "stats"}) EXCEPT !.arg = "row", !.patch = {"entries"}])
\* reflex/page.tsx 199-207: startEdit
reflex_startEdit == On("row", Set([editingId |-> "arg", editForm |-> "arg"]))
\* reflex/page.tsx 209-226: saveEdit
reflex_saveEdit ==
  Reported(On("editingId", [Then(Write({"entries", "stats"}), [editingId |-> "none"], {"fetchAll"})
                              EXCEPT !.body = {"editForm"}]))
\* reflex/page.tsx 228-235: handleCleanup
reflex_handleCleanup == Reported(Then(Write({"entries", "stats"}), Nothing, {"fetchAll"}))
\* reflex/page.tsx 237-249: saveConfig
reflex_saveConfig == Reported(Then(Write({"config", "stats"}), [editingConfig |-> "off"], {"fetchAll"}))
\* reflex/page.tsx 290-342: toolbar, banner and tabs
reflex_toolbar ==
  Panel([loading |-> Shut],
        [fetchAll |-> Nothing, handleCleanup |-> Nothing, openCreate |-> Nothing,
         showCache |-> Nothing, showLookup |-> Nothing, showConfig |-> Nothing, dismiss |-> [error |-> Open]])
\* reflex/page.tsx 344-434: list of entries
reflex_cacheTab ==
  Panel([loading |-> Shut, tab |-> {"cache"}],
        [startEdit |-> [editingId |-> {"other"}], handleDelete |-> [editingId |-> {"other"}],
         cancelEdit |-> [editingId |-> {"some"}], saveEdit |-> [editingId |-> {"some"}]])
\* reflex/page.tsx 436-502: lookup, where Enter bypasses the button
reflex_lookupTab == Panel([loading |-> Shut, tab |-> {"lookup"}], [handleLookup |-> Nothing])
\* reflex/page.tsx 504-557: configuration
reflex_configTab ==
  Panel([loading |-> Shut, tab |-> {"config"}],
        [editConfig |-> [editingConfig |-> Shut], cancelConfig |-> [editingConfig |-> Open],
         saveConfig |-> [editingConfig |-> Open]])
\* reflex/page.tsx 559-621: dialog for an entry
reflex_createDialog ==
  Dialog([loading |-> Shut, showCreate |-> Open],
         [closeCreate |-> Nothing, handleCreate |-> [creating |-> Shut]])
\* reflex/page.tsx 91-117: ReflexPage
reflex ==
  [Page EXCEPT
   !.init = [loading |-> "on", error |-> "off", tab |-> "cache", looking |-> "off", lookupResult |-> "off",
             showCreate |-> "off", creating |-> "off", editingId |-> "none", editForm |-> "blank",
             editingConfig |-> "off"],
   !.lists = {"entries", "stats", "config"}, !.flags = {"loading", "looking", "creating"},
   !.selections = {"editingId"}, !.forms = {"editForm"},
   !.effects = {Effect({"fetchAll"}, {}, Nothing)},
   !.unrefreshed = [handleDelete |-> {"stats"}, handleLookup |-> {"entries", "stats"}],
   !.panels = {reflex_toolbar, reflex_cacheTab, reflex_lookupTab, reflex_configTab, reflex_createDialog},
   !.ops = [fetchAll |-> reflex_fetchAll, handleLookup |-> reflex_handleLookup,
            handleCreate |-> reflex_handleCreate, handleDelete |-> reflex_handleDelete,
            startEdit |-> reflex_startEdit, saveEdit |-> reflex_saveEdit,
            cancelEdit |-> Set([editingId |-> "none"]), handleCleanup |-> reflex_handleCleanup,
            saveConfig |-> reflex_saveConfig, editConfig |-> Set([editingConfig |-> "on"]),
            cancelConfig |-> Set([editingConfig |-> "off"]), dismiss |-> Set([error |-> "off"]),
            showCache |-> Set([tab |-> "cache"]), showLookup |-> Set([tab |-> "lookup"]),
            showConfig |-> Set([tab |-> "config"]), openCreate |-> Set([showCreate |-> "on"]),
            closeCreate |-> Set([showCreate |-> "off"])]]

-----------------------------------------------------------------------------
(* link/page.tsx: connectors.  One form serves creating and editing, and    *)
(* the answer to either clears it, whatever dialog is open by then; a blank *)
(* form cannot be saved.  The totals are loaded with the filter only; the   *)
(* counters of a connector, which a call to it changes, are not loaded.     *)

\* link/page.tsx 85-98: fetchConnectors
link_fetchConnectors == Reported(Busy("loading", Fetch({"connectors"}, {"typeFilter"})))
\* link/page.tsx 100-105: fetchEvents
link_fetchEvents == Fetch({"events"}, {})
\* link/page.tsx 107-112: fetchStats
link_fetchStats == Fetch({"stats"}, {})
\* link/page.tsx 194-197: resetForm
link_resetForm == [form |-> "blank"]
\* link/page.tsx 116-135: handleCreate
link_handleCreate ==
  Reported([Write({"connectors", "stats"}) EXCEPT !.ok = [showCreate |-> "off"] @@ link_resetForm,
                                                  !.wait = <<{"fetchConnectors"}>>])
\* link/page.tsx 137-154: handleUpdate
link_handleUpdate ==
  Reported(On("editConnector", [Write({"connectors"})
    EXCEPT !.ok = [editConnector |-> "none"] @@ link_resetForm, !.wait = <<{"fetchConnectors"}>>,
           !.body = {"form"}]))
\* link/page.tsx 156-162: handleDelete
link_handleDelete ==
  Reported([Write({"connectors", "stats"}) EXCEPT !.arg = "row", !.wait = <<{"fetchConnectors"}>>])
\* link/page.tsx 164-176: handleTest
link_handleTest ==
  [Write({"connectors"}) EXCEPT !.arg = "row", !.pre = [sending |-> "arg"],
     !.ok = [testResult |-> "on"], !.bad = [testResult |-> "on"], !.end = [sending |-> "none"]]
\* link/page.tsx 178-192: handleSend
link_handleSend ==
  Reported(On("showSendDialog", [Write({"connectors"})
    EXCEPT !.pre = [sending |-> "arg"], !.ok = [showSendDialog |-> "none"],
           !.wait = <<{"fetchEvents"}>>, !.end = [sending |-> "none"]]))
\* link/page.tsx 199-208: openEdit
link_openEdit == Set([form |-> "arg", editConnector |-> "arg"])
\* link/page.tsx 247-293: tabs, banner and toolbar
link_toolbar ==
  Panel([loading |-> Shut],
        [showConnectors |-> Nothing, showEvents |-> Nothing, dismiss |-> [error |-> Open],
         setTypeFilter |-> [tab |-> {"connectors"}], refresh |-> Nothing,
         openCreate |-> [tab |-> {"connectors"}], closeResult |-> [testResult |-> Open]])
\* link/page.tsx 295-371: list of connectors
link_list ==
  Panel([loading |-> Shut, tab |-> {"connectors"}],
        [showDetail |-> Nothing, handleTest |-> [sending |-> {"other"}], openSend |-> Nothing,
         openEdit |-> Nothing, handleDelete |-> Nothing])
\* link/page.tsx 405-478: the dialog for a new connector
link_createDialog ==
  Dialog([loading |-> Shut, showCreate |-> Open, editConnector |-> {"none"}],
         [closeForm |-> Nothing, type |-> Nothing, handleCreate |-> [form |-> {"typed"}]])
\* link/page.tsx 405-478: the same dialog for an existing one
link_editDialog ==
  Dialog([loading |-> Shut, editConnector |-> {"some"}],
         [closeForm |-> Nothing, handleUpdate |-> [form |-> {"some"}]])
\* link/page.tsx 480-504: dialog to send an event
link_sendDialog ==
  Dialog([loading |-> Shut, showSendDialog |-> {"some"}],
         [closeSend |-> Nothing, handleSend |-> [sending |-> {"other"}]])
\* link/page.tsx 506-565: detail dialog
link_detailDialog ==
  Dialog([loading |-> Shut, detailConnector |-> {"some"}],
         [closeDetail |-> Nothing, editDetail |-> Nothing])
\* link/page.tsx 62-83: LinkPage
link ==
  [Page EXCEPT
   !.init = [loading |-> "on", error |-> "off", typeFilter |-> "a", tab |-> "connectors",
             showCreate |-> "off", editConnector |-> "none", form |-> "blank",
             detailConnector |-> "none", testResult |-> "off", sending |-> "none",
             showSendDialog |-> "none"],
   !.lists = {"connectors", "events", "stats"}, !.flags = {"loading"}, !.rowFlags = {"sending"},
   !.selections = {"editConnector"}, !.forms = {"form"}, !.closure = {"typeFilter"},
   !.effects = {Effect({"fetchConnectors", "fetchStats"}, {"typeFilter"}, Nothing)},
   !.unrefreshed = [handleCreate |-> {"stats"}, handleDelete |-> {"stats"},
                    handleTest |-> {"connectors"}, handleSend |-> {"connectors"}],
   !.panels = {link_toolbar, link_list, link_createDialog, link_editDialog, link_sendDialog,
               link_detailDialog},
   !.ops = [fetchConnectors |-> link_fetchConnectors, fetchEvents |-> link_fetchEvents,
            fetchStats |-> link_fetchStats, handleCreate |-> link_handleCreate,
            handleUpdate |-> link_handleUpdate, handleDelete |-> link_handleDelete,
            handleTest |-> link_handleTest, handleSend |-> link_handleSend,
            refresh |-> Both(<<{"fetchConnectors", "fetchStats", "fetchEvents"}>>),
            showConnectors |-> Set([tab |-> "connectors"]),
            showEvents |-> [link_fetchEvents EXCEPT !.pre = [tab |-> "events"]],
            dismiss |-> Set([error |-> "off"]), closeResult |-> Set([testResult |-> "off"]),
            setTypeFilter |-> Set([typeFilter |-> "flip"]),
            openCreate |-> Set([showCreate |-> "on"] @@ link_resetForm),
            type |-> Set([form |-> "typed"]),
            closeForm |-> Set([showCreate |-> "off", editConnector |-> "none"]),
            showDetail |-> On("row", Set([detailConnector |-> "arg"])),
            closeDetail |-> Set([detailConnector |-> "none"]),
            openEdit |-> On("row", link_openEdit),
            editDetail |-> On("detailConnector",
                              Set([detailConnector |-> "none"] @@ link_openEdit.ok)),
            openSend |-> On("row", Set([showSendDialog |-> "arg"])),
            closeSend |-> Set([showSendDialog |-> "none"])]]

-----------------------------------------------------------------------------
(* pipeline/page.tsx: runs of the processing pipeline.  The timer runs      *)
(* while a run on display is unfinished, which the data decides, and each   *)
(* of its loads takes the page away (251).                                  *)

\* pipeline/page.tsx 173-184: fetchHistory
pipeline_fetchHistory == Reported(Busy("loading", Fetch({"history"}, {})))
\* pipeline/page.tsx 189-194: effect with the timer
pipeline_refresh == [run |-> "fetchHistory", when |-> Nothing]
\* pipeline/page.tsx 196-229: handleUpload
pipeline_handleUpload ==
  Reported(Busy("uploading", [Write({"history"}) EXCEPT !.pre = [uploadResult |-> "off"],
    !.ok = [uploadResult |-> "on", showUpload |-> "off", uploadFile |-> "blank"],
    !.wait = <<{"fetchHistory"}>>]))
\* pipeline/page.tsx 275-338: banner and toolbar
pipeline_toolbar ==
  Panel([loading |-> Shut],
        [closeResult |-> [uploadResult |-> Open], fetchHistory |-> Nothing, openUpload |-> Nothing,
         dismiss |-> [error |-> Open]])
\* pipeline/page.tsx 340-393: list of runs
pipeline_list == Panel([loading |-> Shut], [select |-> Nothing])
\* pipeline/page.tsx 395-455: detail dialog; showDetail is up exactly with a selection
pipeline_detailDialog == Dialog([loading |-> Shut, selectedPipeline |-> {"some"}], [closeDetail |-> Nothing])
\* pipeline/page.tsx 457-582: upload dialog
pipeline_uploadDialog ==
  Dialog([loading |-> Shut, showUpload |-> Open],
         [pickFile |-> Nothing, dropFile |-> [uploadFile |-> {"filled"}], closeUpload |-> Nothing,
          handleUpload |-> [uploadFile |-> {"filled"}, uploading |-> Shut]])
\* pipeline/page.tsx 151-171: PipelinePage
pipeline ==
  [Page EXCEPT
   !.init = [loading |-> "on", error |-> "off", selectedPipeline |-> "none", showUpload |-> "off",
             uploadFile |-> "blank", uploading |-> "off", uploadResult |-> "off"],
   !.lists = {"history"}, !.flags = {"loading", "uploading"},
   !.effects = {Effect({"fetchHistory"}, {}, Nothing)}, !.timers = {pipeline_refresh},
   !.panels = {pipeline_toolbar, pipeline_list, pipeline_detailDialog, pipeline_uploadDialog},
   !.ops = [fetchHistory |-> pipeline_fetchHistory, handleUpload |-> pipeline_handleUpload,
            closeResult |-> Set([uploadResult |-> "off"]), dismiss |-> Set([error |-> "off"]),
            select |-> On("row", Set([selectedPipeline |-> "arg"])),
            closeDetail |-> Set([selectedPipeline |-> "none"]),
            openUpload |-> Set([showUpload |-> "on"]), closeUpload |-> Set([showUpload |-> "off"]),
            pickFile |-> Set([uploadFile |-> "filled"]), dropFile |-> Set([uploadFile |-> "blank"])]]

-----------------------------------------------------------------------------
(* evolution/page.tsx: what five sources say about the evolution cycle.     *)

\* evolution/page.tsx 294-376: fetchData
evolution_fetchData ==
  [Settled({"feedbackStats", "engineStatus", "intelSummary", "trajectorySessions", "skills", "insights"})
     EXCEPT !.pre = [loading |-> "on", error |-> "off"], !.end = [loading |-> "off"]]
\* evolution/page.tsx 381-385: effect with the timer
evolution_refresh == [run |-> "fetchData", when |-> Nothing]
\* evolution/page.tsx 579-626: toolbar and history of iterations
evolution_history == Panel([loading |-> Shut], [fetchData |-> Nothing, onToggle |-> Nothing])
\* evolution/page.tsx 628-637: error banner
evolution_banner == Banner([loading |-> Shut])
\* evolution/page.tsx 190-204: IterationRow
evolution_IterationRow == On("row", Set([expandedId |-> "arg"]))
\* evolution/page.tsx 276-292: EvolutionPage
evolution ==
  [Page EXCEPT
   !.init = [loading |-> "on", error |-> "off", expandedId |-> "none"],
   !.lists = {"feedbackStats", "engineStatus", "intelSummary", "trajectorySessions", "skills", "insights"},
   !.flags = {"loading"}, !.effects = {Effect({"fetchData"}, {}, Nothing)}, !.timers = {evolution_refresh},
   !.panels = {evolution_history, evolution_banner},
   !.ops = BannerOps @@ [fetchData |-> evolution_fetchData, onToggle |-> evolution_IterationRow]]

-----------------------------------------------------------------------------
(* will/page.tsx: workflows and their executions.                           *)

\* will/page.tsx 344-362: fetchData
will_fetchData ==
  Busy("loading", Settled({"workflows", "executions", "stats", "actionTypes"}))
\* will/page.tsx 366-373: handleExecute
will_handleExecute == Reported(On("row", Then(Write({"executions", "stats"}), Nothing, {"fetchData"})))
\* will/page.tsx 375-383: handleDelete
will_handleDelete == Reported(On("row", Then(Write({"workflows", "stats"}), Nothing, {"fetchData"})))
\* will/page.tsx 275-290: CreateDialog.handleCreate, with onCreated of 533
will_handleCreate ==
  Busy("saving", Then(Write({"workflows", "stats"}), [showCreate |-> "off"], {"fetchData"}))
\* will/page.tsx 112-127: WorkflowCard, closed
will_WorkflowCard == [onToggle |-> [expandedId |-> {"other"}]]
\* will/page.tsx 158-230: WorkflowCard, expanded
will_WorkflowCardOpen ==
  [handleExecute |-> Nothing, handleDelete |-> Nothing, collapse |-> Nothing]
\* will/page.tsx 269-327: CreateDialog, whose flag starts lowered each time
will_CreateDialog ==
  Dialog([loading |-> Shut, showCreate |-> Open],
         [closeCreate |-> Nothing, handleCreate |-> [saving |-> Shut]])
\* will/page.tsx 415-459: tabs, toolbar and banner
will_toolbar ==
  Panel([loading |-> Shut],
        [showWorkflows |-> Nothing, showExecutions |-> Nothing, showActions |-> Nothing,
         openCreate |-> [tab |-> {"workflows"}], fetchData |-> Nothing, dismiss |-> [error |-> Open]])
\* will/page.tsx 461-481: list of workflows
will_workflowsTab ==
  Panel([loading |-> Shut, tab |-> {"workflows"}], will_WorkflowCard)
\* will/page.tsx 332-342: WillPage
will ==
  [Page EXCEPT
   !.init = [loading |-> "on", error |-> "off", tab |-> "workflows", expandedId |-> "none",
             showCreate |-> "off", saving |-> "off"],
   !.lists = {"workflows", "executions", "stats", "actionTypes"}, !.flags = {"loading"},
   !.effects = {Effect({"fetchData"}, {}, Nothing)},
   !.panels = {will_toolbar, will_workflowsTab, will_CreateDialog,
               Panel([loading |-> Shut, tab |-> {"workflows"}, expandedId |-> {"some"}],
                     will_WorkflowCardOpen)},
   !.ops = [fetchData |-> will_fetchData, handleExecute |-> [will_handleExecute EXCEPT !.arg = "expandedId"],
            handleDelete |-> [will_handleDelete EXCEPT !.arg = "expandedId"],
            handleCreate |-> will_handleCreate,
            onToggle |-> On("row", Set([expandedId |-> "arg"])), collapse |-> Set([expandedId |-> "none"]),
            showWorkflows |-> Set([tab |-> "workflows"]), showExecutions |-> Set([tab |-> "executions"]),
            showActions |-> Set([tab |-> "actions"]), dismiss |-> Set([error |-> "off"]),
            openCreate |-> Set([showCreate |-> "on", saving |-> "off"]),
            closeCreate |-> Set([showCreate |-> "off"])]]
=============================================================================
