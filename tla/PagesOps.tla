------------------------------ MODULE PagesOps ------------------------------
(***************************************************************************)
(* Pages of the sections for operations and connected systems of the admin *)
(* front end, in the form of PagesSystem.                                  *)
(***************************************************************************)
EXTENDS AdminVocabulary

-----------------------------------------------------------------------------
(* agent-nodes/page.tsx.  Every change of the status filter takes the page  *)
(* away until nodes and totals are there (245).                             *)

\* agent-nodes/page.tsx 96-104: fetchNodes
nodes_fetchNodes == Reported(Fetch({"nodes"}, {"statusFilter"}))
\* agent-nodes/page.tsx 106-111: fetchStats
nodes_fetchStats == Fetch({"stats"}, {})
\* agent-nodes/page.tsx 113-118: fetchData
nodes_fetchData ==
  [Both(<<{"fetchNodes", "fetchStats"}>>)
     EXCEPT !.pre = [loading |-> "on", error |-> "off"], !.after = [loading |-> "off"]]
\* agent-nodes/page.tsx 124-150: handleRegister
nodes_handleRegister ==
  Reported(Busy("registering", [Write({"nodes", "stats"})
    EXCEPT !.pre = [registerResult |-> "off"], !.ok = [registerResult |-> "on"], !.go = {"fetchData"}]))
\* agent-nodes/page.tsx 152-160: handleDelete
nodes_handleDelete == Reported(On("row", Then(Write({"nodes", "stats"}), Nothing, {"fetchData"})))
\* agent-nodes/page.tsx 162-183: handleReport
nodes_handleReport ==
  Reported(Busy("reporting", Then(Ask, [showReport |-> "off", reportForm |-> "blank"], {})))
\* agent-nodes/page.tsx 185-203: handleRemember
nodes_handleRemember == Reported(Busy("remembering", Ask))
\* agent-nodes/page.tsx 205-221: handleRecall
nodes_handleRecall ==
  Reported(Busy("recalling", [Ask EXCEPT !.pre = [recallResults |-> "off"],
                                         !.ok = [recallResults |-> "on"]]))
\* agent-nodes/page.tsx 249-305: banner, totals and tab bar
nodes_toolbar == Panel([loading |-> Shut], [fetchData |-> Nothing, dismiss |-> [error |-> Open]])
\* agent-nodes/page.tsx 307-441: nodes tab
nodes_nodesTab ==
  Panel([loading |-> Shut],
        [setStatusFilter |-> Nothing, openReport |-> Nothing, reportNode |-> Nothing,
         handleDelete |-> Nothing])
\* agent-nodes/page.tsx 443-542: memory tab; Enter in the query field calls the
\* handler whether or not it is busy
nodes_memoryTab ==
  Panel([loading |-> Shut],
        [handleRemember |-> [remembering |-> Shut], handleRecall |-> Nothing])
\* agent-nodes/page.tsx 544-626: register tab
nodes_registerTab == Panel([loading |-> Shut], [handleRegister |-> [registering |-> Shut]])
\* agent-nodes/page.tsx 628-683: report dialog
nodes_reportDialog ==
  Dialog([loading |-> Shut, showReport |-> Open],
         [closeReport |-> Nothing, handleReport |-> [reporting |-> Shut]])
\* agent-nodes/page.tsx 61-92: AgentNodesPage
agent_nodes ==
  [Page EXCEPT
   !.init = [loading |-> "on", error |-> "off", statusFilter |-> "a", registering |-> "off",
             registerResult |-> "off", showReport |-> "off", reportForm |-> "blank",
             reporting |-> "off", remembering |-> "off", recalling |-> "off", recallResults |-> "off"],
   !.lists = {"nodes", "stats"},
   !.flags = {"loading", "registering", "reporting", "remembering", "recalling"},
   !.closure = {"statusFilter"}, !.effects = {Effect({"fetchData"}, {"statusFilter"}, Nothing)},
   !.panels = {nodes_toolbar, nodes_nodesTab, nodes_memoryTab, nodes_registerTab, nodes_reportDialog},
   !.ops = [fetchNodes |-> nodes_fetchNodes, fetchStats |-> nodes_fetchStats,
            fetchData |-> nodes_fetchData, handleRegister |-> nodes_handleRegister,
            handleDelete |-> nodes_handleDelete, handleReport |-> nodes_handleReport,
            handleRemember |-> nodes_handleRemember, handleRecall |-> nodes_handleRecall,
            setStatusFilter |-> Set([statusFilter |-> "flip"]), dismiss |-> Set([error |-> "off"]),
            openReport |-> Set([showReport |-> "on"]), closeReport |-> Set([showReport |-> "off"]),
            reportNode |-> On("row", Set([reportForm |-> "arg", showReport |-> "on"]))]]

-----------------------------------------------------------------------------
(* connectors/page.tsx: discovery and the three adapters, a tab each.  The  *)
(* button for the tables of a database is not disabled while a query runs,  *)
(* and lowers the flag of both.                                             *)

\* connectors/page.tsx 89-94: fetchAdapters
connectors_fetchAdapters == Fetch({"adapters"}, {})
\* connectors/page.tsx 96-100: fetchInit
connectors_fetchInit ==
  [Both(<<{"fetchAdapters"}>>) EXCEPT !.pre = [loading |-> "on"], !.after = [loading |-> "off"]]
\* connectors/page.tsx 106-117: handleScan
connectors_handleScan ==
  Reported(Busy("scanning", [Ask EXCEPT !.pre = [error |-> "off"], !.ok = [scanResult |-> "on"]]))
\* connectors/page.tsx 119-141: handleRestConfigure
connectors_handleRestConfigure ==
  Reported(Busy("restLoading", [Write({"adapters"}) EXCEPT !.pre = [error |-> "off"],
                                                           !.go = {"fetchAdapters"}]))
\* connectors/page.tsx 143-164: handleRestProbe
connectors_handleRestProbe ==
  Reported(Busy("restLoading", [Ask EXCEPT !.pre = [probeResult |-> "off"], !.ok = [probeResult |-> "on"]]))
\* connectors/page.tsx 166-188: handleRestRequest
connectors_handleRestRequest ==
  Reported(Busy("restLoading", [Ask EXCEPT !.pre = [restResponse |-> "off"], !.ok = [restResponse |-> "on"]]))
\* connectors/page.tsx 190-209: handleDbConfigure
connectors_handleDbConfigure ==
  Reported(Busy("dbLoading", [Write({"adapters"}) EXCEPT !.pre = [error |-> "off"],
                                                         !.go = {"fetchAdapters"}]))
\* connectors/page.tsx 211-227: handleDbQuery
connectors_handleDbQuery ==
  Reported(Busy("dbLoading", [Ask EXCEPT !.pre = [dbResult |-> "off"], !.ok = [dbResult |-> "on"]]))
\* connectors/page.tsx 229-240: handleDbTables
connectors_handleDbTables ==
  Reported(Busy("dbLoading", [Ask EXCEPT !.pre = [dbTables |-> "off"], !.ok = [dbTables |-> "on"]]))
\* connectors/page.tsx 242-254: handleDbDescribe
connectors_handleDbDescribe ==
  Reported(On("row", [Ask EXCEPT !.pre = [dbDescribe |-> "none"], !.ok = [dbDescribe |-> "arg"]]))
\* connectors/page.tsx 256-274: handleFsConfigure
connectors_handleFsConfigure ==
  Reported(Busy("fsLoading", [Write({"adapters"}) EXCEPT !.pre = [error |-> "off"],
                                                         !.go = {"fetchAdapters"}]))
\* connectors/page.tsx 276-287: handleFsList
connectors_handleFsList ==
  Reported(Busy("fsLoading", [Ask EXCEPT !.pre = [fsResult |-> "off"], !.ok = [fsResult |-> "on"]]))
\* connectors/page.tsx 289-304: handleFsRead
connectors_handleFsRead == connectors_handleFsList
\* connectors/page.tsx 306-322: handleFsSearch
connectors_handleFsSearch == connectors_handleFsList
\* connectors/page.tsx 326-387: banner and tab bar
connectors_toolbar ==
  Panel([loading |-> Shut],
        [dismiss |-> [error |-> Open], showDiscovery |-> Nothing, showRest |-> Nothing,
         showDatabase |-> Nothing, showFilesystem |-> Nothing, handleScan |-> [scanning |-> Shut]])
\* connectors/page.tsx 475-552: REST tab
connectors_restTab ==
  Panel([loading |-> Shut, tab |-> {"rest"}],
        [handleRestConfigure |-> [restLoading |-> Shut], handleRestProbe |-> [restLoading |-> Shut],
         handleRestRequest |-> [restLoading |-> Shut]])
\* connectors/page.tsx 554-634: database tab
connectors_databaseTab ==
  Panel([loading |-> Shut, tab |-> {"database"}],
        [handleDbConfigure |-> [dbLoading |-> Shut], handleDbQuery |-> [dbLoading |-> Shut],
         handleDbTables |-> Nothing, handleDbDescribe |-> [dbTables |-> Open]])
\* connectors/page.tsx 636-700: file system tab
connectors_filesystemTab ==
  Panel([loading |-> Shut, tab |-> {"filesystem"}],
        [handleFsConfigure |-> [fsLoading |-> Shut], handleFsList |-> [fsLoading |-> Shut],
         handleFsRead |-> [fsLoading |-> Shut], handleFsSearch |-> [fsLoading |-> Shut]])
\* connectors/page.tsx 53-85: ConnectorsPage
connectors ==
  [Page EXCEPT
   !.init = [tab |-> "discovery", loading |-> "on", error |-> "off", scanning |-> "off", scanResult |-> "off",
             restLoading |-> "off", probeResult |-> "off", restResponse |-> "off",
             dbLoading |-> "off", dbResult |-> "off", dbTables |-> "off", dbDescribe |-> "none",
             fsLoading |-> "off", fsResult |-> "off"],
   !.lists = {"adapters"}, !.flags = {"loading", "scanning", "restLoading", "dbLoading", "fsLoading"},
   !.effects = {Effect({"fetchInit"}, {}, Nothing)},
   !.panels = {connectors_toolbar, connectors_restTab, connectors_databaseTab, connectors_filesystemTab},
   !.ops = [fetchAdapters |-> connectors_fetchAdapters, fetchInit |-> connectors_fetchInit,
            handleScan |-> connectors_handleScan,
            handleRestConfigure |-> connectors_handleRestConfigure,
            handleRestProbe |-> connectors_handleRestProbe,
            handleRestRequest |-> connectors_handleRestRequest,
            handleDbConfigure |-> connectors_handleDbConfigure,
            handleDbQuery |-> connectors_handleDbQuery, handleDbTables |-> connectors_handleDbTables,
            handleDbDescribe |-> connectors_handleDbDescribe,
            handleFsConfigure |-> connectors_handleFsConfigure,
            handleFsList |-> connectors_handleFsList, handleFsRead |-> connectors_handleFsRead,
            handleFsSearch |-> connectors_handleFsSearch, dismiss |-> Set([error |-> "off"]),
            showDiscovery |-> Set([tab |-> "discovery"]), showRest |-> Set([tab |-> "rest"]),
            showDatabase |-> Set([tab |-> "database"]), showFilesystem |-> Set([tab |-> "filesystem"])]]

-----------------------------------------------------------------------------
(* downloader/page.tsx: downloads, plugins, cache and configuration, a tab  *)
(* each.  The timer runs while a task on display is active, which the data  *)
(* decides: it may tick at any time.                                        *)

\* downloader/page.tsx 138-148: fetchPlugins
downloader_fetchPlugins == Busy("pluginsLoading", Fetch({"plugins"}, {}))
\* downloader/page.tsx 150-160: fetchTasks
downloader_fetchTasks == Busy("tasksLoading", Fetch({"tasks"}, {}))
\* downloader/page.tsx 162-173: fetchCache
downloader_fetchCache == Busy("cacheLoading", Fetch({"cacheFiles"}, {}))
\* downloader/page.tsx 175-185: fetchConfig
downloader_fetchConfig == Busy("configLoading", Fetch({"config"}, {}))
\* downloader/page.tsx 187-191: fetchAll
downloader_fetchAll ==
  [Both(<<{"fetchPlugins", "fetchTasks", "fetchCache", "fetchConfig"}>>)
     EXCEPT !.pre = [loading |-> "on"], !.after = [loading |-> "off"]]
\* downloader/page.tsx 196-210: effect with the timer
downloader_refresh == [run |-> "fetchTasks", when |-> Nothing]
\* downloader/page.tsx 214-232: handleStartDownload
downloader_handleStartDownload ==
  Reported(Busy("downloading", Then(Write({"tasks"}), [showNewDownload |-> "off"], {"fetchTasks"})))
\* downloader/page.tsx 234-241: handlePause
downloader_handlePause == Reported(On("row", Then(Write({"tasks"}), Nothing, {"fetchTasks"})))
\* downloader/page.tsx 243-250: handleResume
downloader_handleResume == downloader_handlePause
\* downloader/page.tsx 252-260: handleCancel
downloader_handleCancel == downloader_handlePause
\* downloader/page.tsx 262-269: handleInstallPlugin
downloader_handleInstallPlugin ==
  Reported(On("row", Then(Write({"plugins"}), Nothing, {"fetchPlugins"})))
\* downloader/page.tsx 271-278: handleUpdatePlugin
downloader_handleUpdatePlugin == downloader_handleInstallPlugin
\* downloader/page.tsx 280-287: handleUpdateAll
downloader_handleUpdateAll == Reported(Then(Write({"plugins"}), Nothing, {"fetchPlugins"}))
\* downloader/page.tsx 289-297: handleDeleteCacheFile
downloader_handleDeleteCacheFile ==
  Reported(On("row", Then(Write({"cacheFiles"}), Nothing, {"fetchCache"})))
\* downloader/page.tsx 299-307: handleClearCache
downloader_handleClearCache == Reported(Then(Write({"cacheFiles"}), Nothing, {"fetchCache"}))
\* downloader/page.tsx 309-322: handleSetConfig
downloader_handleSetConfig ==
  Reported(Then(Write({"config"}), [editConfig |-> "blank"], {"fetchConfig"}))
\* downloader/page.tsx 334-400: banner and tab bar
downloader_toolbar ==
  Panel([loading |-> Shut],
        [dismiss |-> [error |-> Open], showTasks |-> Nothing, showPlugins |-> Nothing,
         showCache |-> Nothing, showConfig |-> Nothing, openNewDownload |-> Nothing, fetchAll |-> Nothing])
\* downloader/page.tsx 402-489: tasks tab
downloader_tasksTab ==
  Panel([loading |-> Shut, tab |-> {"tasks"}],
        [handlePause |-> Nothing, handleResume |-> Nothing, handleCancel |-> Nothing])
\* downloader/page.tsx 491-559: plugins tab
downloader_pluginsTab ==
  Panel([loading |-> Shut, tab |-> {"plugins"}],
        [handleUpdateAll |-> Nothing, handleInstallPlugin |-> [pluginsLoading |-> Shut],
         handleUpdatePlugin |-> [pluginsLoading |-> Shut]])
\* downloader/page.tsx 561-603: cache tab
downloader_cacheTab ==
  Panel([loading |-> Shut, tab |-> {"cache"}],
        [handleClearCache |-> Nothing, handleDeleteCacheFile |-> [cacheLoading |-> Shut]])
\* downloader/page.tsx 605-660: configuration tab
downloader_configTab ==
  Panel([loading |-> Shut, tab |-> {"config"}],
        [edit |-> Nothing, handleSetConfig |-> [editConfig |-> {"filled"}]])
\* downloader/page.tsx 662-702: dialog for a download
downloader_newDialog ==
  Dialog([loading |-> Shut, showNewDownload |-> Open],
         [closeNewDownload |-> Nothing, handleStartDownload |-> [downloading |-> Shut]])
\* downloader/page.tsx 104-134: DownloaderPage
downloader ==
  [Page EXCEPT
   !.init = [tab |-> "tasks", loading |-> "on", error |-> "off", pluginsLoading |-> "off",
             tasksLoading |-> "off", cacheLoading |-> "off", configLoading |-> "off",
             editConfig |-> "blank", showNewDownload |-> "off", downloading |-> "off"],
   !.lists = {"plugins", "tasks", "cacheFiles", "config"},
   !.flags = {"loading", "pluginsLoading", "tasksLoading", "cacheLoading", "configLoading", "downloading"},
   !.effects = {Effect({"fetchAll"}, {}, Nothing)}, !.timers = {downloader_refresh},
   !.panels = {downloader_toolbar, downloader_tasksTab, downloader_pluginsTab, downloader_cacheTab,
               downloader_configTab, downloader_newDialog},
   !.ops = [fetchPlugins |-> downloader_fetchPlugins, fetchTasks |-> downloader_fetchTasks,
            fetchCache |-> downloader_fetchCache, fetchConfig |-> downloader_fetchConfig,
            fetchAll |-> downloader_fetchAll, handleStartDownload |-> downloader_handleStartDownload,
            handlePause |-> downloader_handlePause, handleResume |-> downloader_handleResume,
            handleCancel |-> downloader_handleCancel,
            handleInstallPlugin |-> downloader_handleInstallPlugin,
            handleUpdatePlugin |-> downloader_handleUpdatePlugin,
            handleUpdateAll |-> downloader_handleUpdateAll,
            handleDeleteCacheFile |-> downloader_handleDeleteCacheFile,
            handleClearCache |-> downloader_handleClearCache,
            handleSetConfig |-> downloader_handleSetConfig, edit |-> Set([editConfig |-> "filled"]),
            dismiss |-> Set([error |-> "off"]), showTasks |-> Set([tab |-> "tasks"]),
            showPlugins |-> Set([tab |-> "plugins"]), showCache |-> Set([tab |-> "cache"]),
            showConfig |-> Set([tab |-> "config"]), openNewDownload |-> Set([showNewDownload |-> "on"]),
            closeNewDownload |-> Set([showNewDownload |-> "off"])]]

-----------------------------------------------------------------------------
(* trajectory/page.tsx: recorded sessions.  filters stands for the status   *)
(* filter and the page number.  While a session loads its dialog is a line  *)
(* of text in the page, so another session can be opened.                   *)

\* trajectory/page.tsx 534-550: fetchSessions
trajectory_fetchSessions ==
  Reported(Busy("loading", [Fetch({"sessions", "stats"}, {"filters"})
                              EXCEPT !.some = {"stats"}, !.blank = {"stats"}]))
\* trajectory/page.tsx 554-570: doCreate
trajectory_doCreate ==
  Reported(Then(Write({"sessions", "stats"}), [showCreate |-> "off"], {"fetchSessions"}))
\* trajectory/page.tsx 572-580: doDelete
trajectory_doDelete == Reported(On("row", Then(Write({"sessions", "stats"}), Nothing, {"fetchSessions"})))
\* trajectory/page.tsx 582-589: doEnd
trajectory_doEnd == trajectory_doDelete
\* trajectory/page.tsx 141-156: AnalyticsView.fetchAll; the data is gone with
\* the view
trajectory_fetchAll == Ask
\* trajectory/page.tsx 305-318: SearchView.doSearch
trajectory_doSearch == Busy("searching", Ask)
\* Mutant: the events that were loaded are not stored.
trajectory_openSession_unstored ==
  Busy("sessionLoading", [Ask EXCEPT !.arg = "row", !.pre = [detailSession |-> "arg"]])

\* trajectory/page.tsx 399-412: effect of SessionEvents, with the click of 717
trajectory_openSession ==
  Busy("sessionLoading", [Ask EXCEPT !.arg = "row", !.pre = [detailSession |-> "arg"],
                                     !.ok = [events |-> "arg"]])
\* trajectory/page.tsx 414-425: SessionEvents.doFork; the new session is not shown
trajectory_doFork == On("detailSession", [Write({"sessions", "stats"}) EXCEPT !.body = {"events"}])
\* trajectory/page.tsx 643-659: tab bar
trajectory_tabs ==
  Panel(Nothing, [showSessions |-> Nothing, showAnalytics |-> Nothing, showSearch |-> Nothing,
                  dismiss |-> [error |-> Open]])
\* trajectory/page.tsx 668-701: toolbar of the sessions
trajectory_toolbar ==
  Panel([tab |-> {"sessions"}], [setFilters |-> Nothing, openCreate |-> Nothing, fetchSessions |-> Nothing])
\* trajectory/page.tsx 703-789: list of sessions and pager
trajectory_list ==
  Panel([tab |-> {"sessions"}, loading |-> Shut],
        [openSession |-> [detailSession |-> {"other"}], doEnd |-> Nothing, doDelete |-> Nothing])
\* trajectory/page.tsx 320-353: SearchView, where Enter bypasses the button
trajectory_SearchView == Panel([tab |-> {"search"}], [doSearch |-> Nothing])
\* trajectory/page.tsx 429-514: SessionEvents
trajectory_SessionEvents ==
  Dialog([detailSession |-> {"some"}, sessionLoading |-> Shut],
         [closeSession |-> Nothing, doFork |-> [events |-> {"some"}]])
\* trajectory/page.tsx 791-838: dialog for a session
trajectory_createDialog == Dialog([showCreate |-> Open], [closeCreate |-> Nothing, doCreate |-> Nothing])
\* trajectory/page.tsx 519-532: TrajectoryPage
trajectory ==
  [Page EXCEPT
   !.init = [loading |-> "on", error |-> "off", tab |-> "sessions", filters |-> "a",
             detailSession |-> "none", sessionLoading |-> "off", events |-> "none",
             showCreate |-> "off", searching |-> "off"],
   !.lists = {"sessions", "stats"}, !.flags = {"loading", "sessionLoading"}, !.forms = {"events"},
   !.closure = {"filters"}, !.details = {Detail("events", "detailSession", Nothing)},
   !.effects = {Effect({"fetchSessions"}, {"filters"}, Nothing),
                Effect({"fetchAll"}, {"tab"}, [tab |-> {"analytics"}])},
   !.unrefreshed = [doFork |-> {"sessions", "stats"}],
   !.panels = {trajectory_tabs, trajectory_toolbar, trajectory_list, trajectory_SearchView,
               trajectory_SessionEvents, trajectory_createDialog},
   !.ops = [fetchSessions |-> trajectory_fetchSessions, fetchAll |-> trajectory_fetchAll,
            doSearch |-> trajectory_doSearch, openSession |-> trajectory_openSession,
            doFork |-> trajectory_doFork, doCreate |-> trajectory_doCreate,
            doDelete |-> trajectory_doDelete, doEnd |-> trajectory_doEnd,
            setFilters |-> Set([filters |-> "flip"]), dismiss |-> Set([error |-> "off"]),
            showSessions |-> Set([tab |-> "sessions", searching |-> "off"]),
            showAnalytics |-> Set([tab |-> "analytics", searching |-> "off"]),
            showSearch |-> Set([tab |-> "search"]),
            openCreate |-> Set([showCreate |-> "on"]), closeCreate |-> Set([showCreate |-> "off"]),
            closeSession |-> Set([detailSession |-> "none", events |-> "none"])]]

-----------------------------------------------------------------------------
(* monitoring/page.tsx: health of the organs.                               *)

\* monitoring/page.tsx 137-156: fetchData
monitoring_fetchData == Reported(Busy("loading", Fetch({"data"}, {})))
\* monitoring/page.tsx 158-163: fetchStats
monitoring_fetchStats == Fetch({"stats"}, {})
\* monitoring/page.tsx 167-171: effect with the timer
monitoring_refresh == [run |-> "fetchData", when |-> [autoRefresh |-> Open]]
\* monitoring/page.tsx 173-183: fetchOrganDetail
monitoring_fetchOrganDetail ==
  Reported(Busy("organLoading", On("row", Then(Ask, [selectedOrgan |-> "arg"], {}))))
\* monitoring/page.tsx 185-196: fetchConfigDiff
monitoring_fetchConfigDiff == Reported(Busy("configLoading", Then(Ask, [showConfigDiff |-> "on"], {})))
\* monitoring/page.tsx 198-207: fetchMetrics
monitoring_fetchMetrics == Reported(Then(Ask, [showMetrics |-> "on"], {}))
\* monitoring/page.tsx 371-432: toolbar and banner
monitoring_toolbar ==
  Panel(Nothing,
        [watch |-> [autoRefresh |-> Shut], unwatch |-> [autoRefresh |-> Open],
         fetchData |-> [loading |-> Shut], fetchConfigDiff |-> [configLoading |-> Shut],
         fetchMetrics |-> Nothing, dismiss |-> [error |-> Open]])
\* monitoring/page.tsx 434-477: organs
monitoring_organs == Panel(Nothing, [fetchOrganDetail |-> Nothing])
\* monitoring/page.tsx 479-526: dialog for an organ
monitoring_organDialog == Dialog([selectedOrgan |-> {"some"}], [closeOrgan |-> Nothing])
\* monitoring/page.tsx 528-566: dialog with the changes of the configuration
monitoring_configDialog == Dialog([showConfigDiff |-> Open], [closeConfigDiff |-> Nothing])
\* monitoring/page.tsx 568-588: dialog with the metrics
monitoring_metricsDialog == Dialog([showMetrics |-> Open], [closeMetrics |-> Nothing])
\* monitoring/page.tsx 108-135: MonitoringPage
monitoring ==
  [Page EXCEPT
   !.init = [loading |-> "on", error |-> "off", autoRefresh |-> "off", selectedOrgan |-> "none",
             organLoading |-> "off", showConfigDiff |-> "off", configLoading |-> "off",
             showMetrics |-> "off"],
   !.lists = {"data", "stats"}, !.flags = {"loading", "organLoading", "configLoading"},
   !.effects = {Effect({"fetchData", "fetchStats"}, {}, Nothing)}, !.timers = {monitoring_refresh},
   !.panels = {monitoring_toolbar, monitoring_organs, monitoring_organDialog, monitoring_configDialog,
               monitoring_metricsDialog},
   !.ops = [fetchData |-> monitoring_fetchData, fetchStats |-> monitoring_fetchStats,
            fetchOrganDetail |-> monitoring_fetchOrganDetail,
            fetchConfigDiff |-> monitoring_fetchConfigDiff, fetchMetrics |-> monitoring_fetchMetrics,
            watch |-> Set([autoRefresh |-> "on"]), unwatch |-> Set([autoRefresh |-> "off"]),
            dismiss |-> Set([error |-> "off"]), closeOrgan |-> Set([selectedOrgan |-> "none"]),
            closeConfigDiff |-> Set([showConfigDiff |-> "off"]),
            closeMetrics |-> Set([showMetrics |-> "off"])]]
=============================================================================
