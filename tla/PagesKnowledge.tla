--------------------------- MODULE PagesKnowledge ---------------------------
(***************************************************************************)
(* Pages of the sections "knowledge" and "memory" of the admin front end,  *)
(* in the form of PagesSystem.                                             *)
(***************************************************************************)
EXTENDS AdminVocabulary

-----------------------------------------------------------------------------
(* learn/page.tsx: courses.  The course that is open, or its quiz, takes    *)
(* the place of the list.  A chapter is on display only inside its course,  *)
(* so editChapter keeps the course that the chapter in the dialog is of.    *)

\* learn/page.tsx 92-104: fetchCourses
learn_fetchCourses == Reported(Busy("loading", Fetch({"courses"}, {"statusFilter"})))
\* learn/page.tsx 106-113: fetchStats
learn_fetchStats == Fetch({"stats"}, {})
\* learn/page.tsx 117-127: fetchCourseDetail
learn_fetchCourseDetail ==
  Reported(Busy("detailLoading", On("row", Then(Ask, [selectedCourse |-> "arg"], {}))))
\* learn/page.tsx 129-153: handleCreate
learn_handleCreate ==
  Reported(Busy("creating",
    [Then(Write({"courses", "stats"}), [showCreate |-> "off"], {"fetchCourses", "fetchStats"})
       EXCEPT !.refuse = [error |-> "on"]]))
\* learn/page.tsx 155-178: handleGenerate (the row is the course that is made)
learn_handleGenerate ==
  Reported(Busy("generating",
    [Then(Write({"courses", "stats"}), [showGenerate |-> "off"],
          {"fetchCourses", "fetchStats", "fetchCourseDetail"})
       EXCEPT !.refuse = [error |-> "on"], !.arg = "row"]))
\* learn/page.tsx 180-190: handleDeleteCourse
learn_handleDeleteCourse ==
  Reported(Then(Write({"courses", "stats"}), [selectedCourse |-> "drop"],
                {"fetchCourses", "fetchStats"}))
\* learn/page.tsx 192-204: handleUpdateStatus
learn_handleUpdateStatus ==
  Reported([Write({"courses", "stats"}) EXCEPT !.arg = "selectedCourse", !.go = {"fetchCourses"},
                                               !.goif = [fetchCourseDetail |-> "selectedCourse"]])
\* learn/page.tsx 206-224: handleAddChapter
learn_handleAddChapter ==
  Reported(Busy("addingChapter", On("selectedCourse",
    Then(Write({"courses", "stats"}), [showAddChapter |-> "off"],
         {"fetchCourseDetail", "fetchStats"}))))
\* learn/page.tsx 226-244: handleUpdateChapter
learn_handleUpdateChapter ==
  Reported([Write({"courses", "stats"}) EXCEPT !.arg = "selectedCourse", !.body = {"editChapter"},
              !.ok = [showEditChapter |-> "off", editChapter |-> "none"], !.go = {"fetchCourseDetail"}])
\* learn/page.tsx 246-256: handleDeleteChapter
learn_handleDeleteChapter ==
  Reported(On("selectedCourse",
    Then(Write({"courses", "stats"}), Nothing, {"fetchCourseDetail", "fetchStats"})))
\* learn/page.tsx 258-272: handleMarkChapter
learn_handleMarkChapter ==
  Reported(On("selectedCourse",
    Then(Write({"courses", "stats"}), Nothing, {"fetchCourseDetail", "fetchCourses", "fetchStats"})))
\* learn/page.tsx 274-279: openQuiz
learn_openQuiz == Set([showQuiz |-> "on"])
\* learn/page.tsx 313-401: quiz of a chapter
learn_quizView == Panel([showQuiz |-> Open], [closeQuiz |-> Nothing])
\* learn/page.tsx 404-532: course
learn_courseView ==
  Panel([selectedCourse |-> {"some"}, showQuiz |-> Shut],
        [back |-> Nothing, handleUpdateStatus |-> Nothing, deleteSelected |-> Nothing,
         openAddChapter |-> Nothing, handleMarkChapter |-> Nothing, openQuiz |-> Nothing,
         edit |-> Nothing, handleDeleteChapter |-> Nothing])
\* learn/page.tsx 534-560: dialog for a new chapter
learn_addChapterDialog ==
  Dialog([selectedCourse |-> {"some"}, showQuiz |-> Shut, showAddChapter |-> Open],
         [closeAddChapter |-> Nothing, handleAddChapter |-> [addingChapter |-> Shut]])
\* learn/page.tsx 562-592: dialog for a chapter that exists
learn_editChapterDialog ==
  Dialog([selectedCourse |-> {"some"}, showQuiz |-> Shut, showEditChapter |-> Open,
          editChapter |-> {"some"}],
         [closeEdit |-> Nothing, handleUpdateChapter |-> Nothing])
\* learn/page.tsx 620-660: toolbar and error banner of the list
learn_toolbar ==
  Panel([selectedCourse |-> {"none"}, showQuiz |-> Shut],
        [setStatusFilter |-> Nothing, refresh |-> Nothing, openGenerate |-> Nothing,
         openCreate |-> Nothing, dismiss |-> [error |-> Open]])
\* learn/page.tsx 662-722: list of courses
learn_grid ==
  Panel([selectedCourse |-> {"none"}, showQuiz |-> Shut],
        [fetchCourseDetail |-> Nothing, handleDeleteCourse |-> Nothing])
\* learn/page.tsx 724-764: dialog for a new course
learn_createDialog ==
  Dialog([selectedCourse |-> {"none"}, showQuiz |-> Shut, showCreate |-> Open],
         [closeCreate |-> Nothing, handleCreate |-> [creating |-> Shut]])
\* learn/page.tsx 766-807: dialog for a generated course; Enter in its topic
\* field calls the handler whether or not it is busy
learn_generateDialog ==
  Dialog([selectedCourse |-> {"none"}, showQuiz |-> Shut, showGenerate |-> Open],
         [closeGenerate |-> Nothing, handleGenerate |-> Nothing])
\* learn/page.tsx 53-90: LearnPage
learn ==
  [Page EXCEPT
   !.init = [loading |-> "on", error |-> "off", statusFilter |-> "a", selectedCourse |-> "none",
             detailLoading |-> "off", showCreate |-> "off", creating |-> "off",
             showGenerate |-> "off", generating |-> "off", showAddChapter |-> "off",
             addingChapter |-> "off", showEditChapter |-> "off", editChapter |-> "none",
             showQuiz |-> "off"],
   !.lists = {"courses", "stats"},
   !.flags = {"loading", "detailLoading", "creating", "generating", "addingChapter"},
   !.selections = {"selectedCourse"}, !.closure = {"statusFilter", "selectedCourse"},
   !.effects = {Effect({"fetchCourses", "fetchStats"}, {"statusFilter"}, Nothing)},
   !.unrefreshed = [handleAddChapter |-> {"courses"}, handleDeleteChapter |-> {"courses"},
                    handleUpdateStatus |-> {"stats"}, handleUpdateChapter |-> {"courses", "stats"}],
   !.panels = {learn_quizView, learn_courseView, learn_addChapterDialog, learn_editChapterDialog,
               learn_toolbar, learn_grid, learn_createDialog, learn_generateDialog},
   !.ops = [fetchCourses |-> learn_fetchCourses, fetchStats |-> learn_fetchStats,
            fetchCourseDetail |-> learn_fetchCourseDetail, handleCreate |-> learn_handleCreate,
            handleGenerate |-> learn_handleGenerate,
            handleDeleteCourse |-> On("row", learn_handleDeleteCourse),
            deleteSelected |-> On("selectedCourse", learn_handleDeleteCourse),
            handleUpdateStatus |-> learn_handleUpdateStatus,
            handleAddChapter |-> learn_handleAddChapter,
            handleUpdateChapter |-> learn_handleUpdateChapter,
            handleDeleteChapter |-> learn_handleDeleteChapter,
            handleMarkChapter |-> learn_handleMarkChapter, openQuiz |-> learn_openQuiz,
            refresh |-> Both(<<{"fetchCourses", "fetchStats"}>>), dismiss |-> Set([error |-> "off"]),
            back |-> Set([selectedCourse |-> "none"]), closeQuiz |-> Set([showQuiz |-> "off"]),
            edit |-> On("selectedCourse", Set([editChapter |-> "arg", showEditChapter |-> "on"])),
            closeEdit |-> Set([showEditChapter |-> "off"]),
            openAddChapter |-> Set([showAddChapter |-> "on"]),
            closeAddChapter |-> Set([showAddChapter |-> "off"]),
            setStatusFilter |-> Set([statusFilter |-> "flip"]),
            openCreate |-> Set([showCreate |-> "on"]), closeCreate |-> Set([showCreate |-> "off"]),
            openGenerate |-> Set([showGenerate |-> "on"]),
            closeGenerate |-> Set([showGenerate |-> "off"])]]

-----------------------------------------------------------------------------
(* knowledge-graph/page.tsx.  The canvas of ForceGraph is taken away with   *)
(* the page while it loads, and with it the node under the mouse.  The      *)
(* layout and the drawing (97-245) hold no state a request depends on.      *)

\* knowledge-graph/page.tsx 370-386: fetchAll
kgraph_fetchAll ==
  Reported([Busy("loading", Fetch({"graphData", "entities"}, {"depth"}))
              EXCEPT !.pre = [loading |-> "on", dragging |-> "none"]])
\* knowledge-graph/page.tsx 390-398: fetchEntityDetail
kgraph_fetchEntityDetail ==
  Reported(On("row", Then(Ask, [selectedEntity |-> "arg", showDetail |-> "on"], {})))
\* knowledge-graph/page.tsx 400-417: handleCreateRelation
kgraph_handleCreateRelation ==
  Reported(Busy("creating", [Write({"graphData", "entities"})
                               EXCEPT !.ok = [showCreateRelation |-> "off"], !.wait = <<{"fetchAll"}>>]))
\* knowledge-graph/page.tsx 248-264: ForceGraph.handleMouseDown on a node
kgraph_handleMouseDown == On("row", Set([dragging |-> "arg"]))
\* knowledge-graph/page.tsx 284-291: ForceGraph.handleMouseUp; a node that was
\* dragged is opened like one that was clicked
kgraph_handleMouseUp == [kgraph_fetchEntityDetail EXCEPT !.arg = "dragging", !.pre = [dragging |-> "none"]]
\* knowledge-graph/page.tsx 324-349: canvas of ForceGraph
kgraph_canvas ==
  [handleMouseDown |-> [dragging |-> {"none"}], handleMouseUp |-> [dragging |-> {"some"}]]
\* knowledge-graph/page.tsx 430-524: banner, totals and toolbar
kgraph_toolbar ==
  Panel([loading |-> Shut],
        [setDepth |-> Nothing, openRelation |-> Nothing, fetchAll |-> Nothing,
         dismiss |-> [error |-> Open]])
\* knowledge-graph/page.tsx 526-593: graph or list
kgraph_content == Panel([loading |-> Shut], kgraph_canvas @@ [fetchEntityDetail |-> Nothing])
\* knowledge-graph/page.tsx 595-652: detail dialog
kgraph_detailDialog ==
  Dialog([loading |-> Shut, showDetail |-> Open, selectedEntity |-> {"some"}], [closeDetail |-> Nothing])
\* knowledge-graph/page.tsx 654-718: dialog for a relation
kgraph_relationDialog ==
  Dialog([loading |-> Shut, showCreateRelation |-> Open],
         [closeRelation |-> Nothing, handleCreateRelation |-> [creating |-> Shut]])
\* knowledge-graph/page.tsx 354-368: KnowledgeGraphPage
kgraph ==
  [Page EXCEPT
   !.init = [loading |-> "on", error |-> "off", depth |-> "a", selectedEntity |-> "none",
             showDetail |-> "off", showCreateRelation |-> "off", creating |-> "off",
             dragging |-> "none"],
   !.lists = {"graphData", "entities"}, !.flags = {"loading", "creating"}, !.closure = {"depth"},
   !.effects = {Effect({"fetchAll"}, {"depth"}, Nothing)},
   !.panels = {kgraph_toolbar, kgraph_content, kgraph_detailDialog, kgraph_relationDialog},
   !.ops = [fetchAll |-> kgraph_fetchAll, fetchEntityDetail |-> kgraph_fetchEntityDetail,
            handleCreateRelation |-> kgraph_handleCreateRelation,
            handleMouseDown |-> kgraph_handleMouseDown, handleMouseUp |-> kgraph_handleMouseUp,
            setDepth |-> Set([depth |-> "flip"]), dismiss |-> Set([error |-> "off"]),
            openRelation |-> Set([showCreateRelation |-> "on"]),
            closeRelation |-> Set([showCreateRelation |-> "off"]),
            closeDetail |-> Set([showDetail |-> "off"])]]

-----------------------------------------------------------------------------
(* hippo/page.tsx: memories and sessions.  filters stands for search and    *)
(* includeArchived.  Only running the decay loads the totals again.         *)

\* hippo/page.tsx 72-86: fetchMemories
hippo_fetchMemories == Reported(Busy("loading", Fetch({"memories"}, {"filters"})))
\* hippo/page.tsx 88-95: fetchSessions
hippo_fetchSessions == Reported(Fetch({"sessions"}, {}))
\* hippo/page.tsx 97-102: fetchDecayConfig
hippo_fetchDecayConfig == Fetch({"decayConfig"}, {})
\* hippo/page.tsx 104-109: fetchStats
hippo_fetchStats == Fetch({"stats"}, {})
\* hippo/page.tsx 115-136: handleCreateMemory
hippo_handleCreateMemory ==
  Reported(Busy("saving", [Write({"memories", "stats"}) EXCEPT !.ok = [showCreateMem |-> "off"],
                                                               !.wait = <<{"fetchMemories"}>>]))
\* hippo/page.tsx 138-146: handleDeleteMemory
hippo_handleDeleteMemory ==
  Reported([Write({"memories", "stats"}) EXCEPT !.arg = "row", !.wait = <<{"fetchMemories"}>>])
\* hippo/page.tsx 148-164: handleCreateSession
hippo_handleCreateSession ==
  Reported(Busy("saving", [Write({"sessions", "stats"}) EXCEPT !.ok = [showCreateSess |-> "off"],
                                                               !.wait = <<{"fetchSessions"}>>]))
\* hippo/page.tsx 166-173: handleArchiveSession
hippo_handleArchiveSession ==
  Reported([Write({"sessions", "stats"}) EXCEPT !.arg = "row", !.wait = <<{"fetchSessions"}>>])
\* hippo/page.tsx 175-184: handleDeleteSession
hippo_handleDeleteSession ==
  Reported([Write({"sessions", "memories", "stats"})
              EXCEPT !.arg = "row", !.wait = <<{"fetchSessions"}, {"fetchMemories"}>>])
\* hippo/page.tsx 186-195: handleRunDecay
hippo_handleRunDecay ==
  Reported([Write({"memories", "stats"}) EXCEPT !.wait = <<{"fetchMemories"}, {"fetchStats"}>>])
\* hippo/page.tsx 197-209: handleSimulate
hippo_handleSimulate == Reported(Ask)
\* hippo/page.tsx 211-219: handleLifecycleCheck
hippo_handleLifecycleCheck ==
  Reported([Write({"sessions", "stats"}) EXCEPT !.wait = <<{"fetchSessions"}>>])
\* hippo/page.tsx 242-280: banner and tab bar
hippo_toolbar ==
  Panel(Nothing, [showMemories |-> Nothing, showSessions |-> Nothing, showDecay |-> Nothing,
                  dismiss |-> [error |-> Open]])
\* hippo/page.tsx 282-350: memories tab
hippo_memoriesTab ==
  Panel([tab |-> {"memories"}],
        [setFilters |-> Nothing, fetchMemories |-> Nothing, openCreateMem |-> Nothing,
         select |-> Nothing, handleDeleteMemory |-> Nothing])
\* hippo/page.tsx 352-402: sessions tab
hippo_sessionsTab ==
  Panel([tab |-> {"sessions"}],
        [fetchSessions |-> Nothing, openCreateSess |-> Nothing, handleLifecycleCheck |-> Nothing,
         handleArchiveSession |-> Nothing, handleDeleteSession |-> Nothing])
\* hippo/page.tsx 404-483: decay tab
hippo_decayTab == Panel([tab |-> {"decay"}], [handleRunDecay |-> Nothing, openSimulate |-> Nothing])
\* hippo/page.tsx 485-515: detail dialog; showMemDetail is up exactly with a selection
hippo_detailDialog == Dialog([selectedMem |-> {"some"}], [closeMem |-> Nothing])
\* hippo/page.tsx 517-553: dialog for a memory
hippo_createMemDialog ==
  Dialog([showCreateMem |-> Open], [closeCreateMem |-> Nothing, handleCreateMemory |-> [saving |-> Shut]])
\* hippo/page.tsx 555-581: dialog for a session
hippo_createSessDialog ==
  Dialog([showCreateSess |-> Open], [closeCreateSess |-> Nothing, handleCreateSession |-> [saving |-> Shut]])
\* hippo/page.tsx 583-614: dialog of the simulation
hippo_simulateDialog ==
  Dialog([showSimulate |-> Open], [closeSimulate |-> Nothing, handleSimulate |-> Nothing])
\* hippo/page.tsx 43-70: HippoPage
hippo ==
  [Page EXCEPT
   !.init = [loading |-> "on", error |-> "off", tab |-> "memories", filters |-> "a", saving |-> "off",
             showCreateMem |-> "off", showCreateSess |-> "off", selectedMem |-> "none",
             showSimulate |-> "off"],
   !.lists = {"memories", "sessions", "decayConfig", "stats"}, !.flags = {"loading", "saving"},
   !.closure = {"filters"},
   !.effects = {Effect({"fetchMemories", "fetchSessions", "fetchDecayConfig", "fetchStats"},
                       {"filters"}, Nothing)},
   !.unrefreshed = [handleCreateMemory |-> {"stats"}, handleDeleteMemory |-> {"stats"},
                    handleDeleteSession |-> {"stats"}, handleCreateSession |-> {"stats"},
                    handleArchiveSession |-> {"stats"}, handleLifecycleCheck |-> {"stats"}],
   !.panels = {hippo_toolbar, hippo_memoriesTab, hippo_sessionsTab, hippo_decayTab, hippo_detailDialog,
               hippo_createMemDialog, hippo_createSessDialog, hippo_simulateDialog},
   !.ops = [fetchMemories |-> hippo_fetchMemories, fetchSessions |-> hippo_fetchSessions,
            fetchDecayConfig |-> hippo_fetchDecayConfig, fetchStats |-> hippo_fetchStats,
            handleCreateMemory |-> hippo_handleCreateMemory,
            handleDeleteMemory |-> hippo_handleDeleteMemory,
            handleCreateSession |-> hippo_handleCreateSession,
            handleArchiveSession |-> hippo_handleArchiveSession,
            handleDeleteSession |-> hippo_handleDeleteSession, handleRunDecay |-> hippo_handleRunDecay,
            handleSimulate |-> hippo_handleSimulate,
            handleLifecycleCheck |-> hippo_handleLifecycleCheck,
            setFilters |-> Set([filters |-> "flip"]), dismiss |-> Set([error |-> "off"]),
            showMemories |-> Set([tab |-> "memories"]), showSessions |-> Set([tab |-> "sessions"]),
            showDecay |-> Set([tab |-> "decay"]),
            select |-> On("row", Set([selectedMem |-> "arg"])),
            closeMem |-> Set([selectedMem |-> "none"]),
            openCreateMem |-> Set([showCreateMem |-> "on"]),
            closeCreateMem |-> Set([showCreateMem |-> "off"]),
            openCreateSess |-> Set([showCreateSess |-> "on"]),
            closeCreateSess |-> Set([showCreateSess |-> "off"]),
            openSimulate |-> Set([showSimulate |-> "on"]),
            closeSimulate |-> Set([showSimulate |-> "off"])]]

-----------------------------------------------------------------------------
(* knowledge/page.tsx: entries of the knowledge base.  Stars and pins are   *)
(* changed on the page; a save loads the list again, but the entry on       *)
(* display stays the one that was selected.                                 *)

\* knowledge/page.tsx 42-56: fetchEntries
knowledge_fetchEntries == Reported(Busy("loading", Fetch({"entries"}, {})))
\* knowledge/page.tsx 60-80: handleCreate
knowledge_handleCreate ==
  Reported(Busy("creating", [Write({"entries"}) EXCEPT !.ok = [showCreate |-> "off"],
                                                       !.wait = <<{"fetchEntries"}>>]))
\* knowledge/page.tsx 82-91: handleDelete
knowledge_handleDelete ==
  Reported([Write({"entries"}) EXCEPT !.patch = {"entries"}, !.ok = [selected |-> "drop"]])
\* knowledge/page.tsx 93-101: handleStar
knowledge_handleStar ==
  Reported([Write({"entries"}) EXCEPT !.patch = {"entries"}, !.ok = [selected |-> "patch"]])
\* knowledge/page.tsx 103-111: handlePin
knowledge_handlePin == knowledge_handleStar
\* knowledge/page.tsx 113-122: startEdit
knowledge_startEdit == On("selected", Set([editForm |-> "arg", editing |-> "on"]))
\* knowledge/page.tsx 124-140: handleSave
knowledge_handleSave ==
  Reported(On("selected", [Write({"entries"}) EXCEPT !.ok = [editing |-> "off"],
                             !.wait = <<{"fetchEntries"}>>, !.body = {"editForm"}]))
\* Mutant: the dialog is closed in the middle of an edit, and the edit goes on.
knowledge_close_editing == Set([selected |-> "none"])

\* knowledge/page.tsx 304-304: close button of the detail dialog
knowledge_close == Set([selected |-> "none", editing |-> "off"])
\* knowledge/page.tsx 142-163: handleUpload
knowledge_handleUpload ==
  Reported(Busy("uploading", [Write({"entries"}) EXCEPT !.wait = <<{"fetchEntries"}>>]))
\* knowledge/page.tsx 478-540: KnowledgeCard
knowledge_KnowledgeCard ==
  [select |-> Nothing, starRow |-> Nothing, pinRow |-> Nothing, deleteRow |-> Nothing]
\* knowledge/page.tsx 187-257: banner and toolbar
knowledge_toolbar ==
  Panel([loading |-> Shut],
        [dismiss |-> [error |-> Open], handleUpload |-> [uploading |-> Shut], fetchEntries |-> Nothing,
         openCreate |-> Nothing])
\* knowledge/page.tsx 259-290: list
knowledge_list == Panel([loading |-> Shut], knowledge_KnowledgeCard)
\* knowledge/page.tsx 292-403: detail and edit dialog
knowledge_detailDialog ==
  Dialog([loading |-> Shut, selected |-> {"some", "mixed"}],
         [startEdit |-> [editing |-> Shut], unselect |-> Nothing, cancelEdit |-> [editing |-> Open],
          handleSave |-> [editing |-> Open], starSelected |-> [editing |-> Shut],
          pinSelected |-> [editing |-> Shut], deleteSelected |-> [editing |-> Shut]])
\* knowledge/page.tsx 405-472: dialog for an entry
knowledge_createDialog ==
  Dialog([loading |-> Shut, showCreate |-> Open],
         [closeCreate |-> Nothing, handleCreate |-> [creating |-> Shut]])
\* knowledge/page.tsx 20-40: KnowledgePage
knowledge ==
  [Page EXCEPT
   !.init = [loading |-> "on", error |-> "off", selected |-> "none", editing |-> "off",
             editForm |-> "blank", showCreate |-> "off", creating |-> "off", uploading |-> "off"],
   !.lists = {"entries"}, !.flags = {"loading", "creating", "uploading"}, !.selections = {"selected"},
   !.patched = {"selected"}, !.forms = {"editForm"}, !.closure = {"selected"},
   !.effects = {Effect({"fetchEntries"}, {}, Nothing)},
   !.panels = {knowledge_toolbar, knowledge_list, knowledge_detailDialog, knowledge_createDialog},
   !.ops = [fetchEntries |-> knowledge_fetchEntries, handleCreate |-> knowledge_handleCreate,
            deleteRow |-> On("row", knowledge_handleDelete),
            deleteSelected |-> On("selected", knowledge_handleDelete),
            starRow |-> On("row", knowledge_handleStar), starSelected |-> On("selected", knowledge_handleStar),
            pinRow |-> On("row", knowledge_handlePin), pinSelected |-> On("selected", knowledge_handlePin),
            startEdit |-> knowledge_startEdit, handleSave |-> knowledge_handleSave,
            cancelEdit |-> Set([editing |-> "off"]), handleUpload |-> knowledge_handleUpload,
            select |-> On("row", Set([selected |-> "arg"])),
            unselect |-> knowledge_close, dismiss |-> Set([error |-> "off"]),
            openCreate |-> Set([showCreate |-> "on"]), closeCreate |-> Set([showCreate |-> "off"])]]
=============================================================================
