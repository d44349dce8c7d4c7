---------------------------- MODULE AdminTables ----------------------------
(***************************************************************************)
(* The rules that the tables of the pages follow.  They are syntactic: each *)
(* can be read off the handlers of a page without running it.              *)
(* AdminPageProofs shows what a page that follows them can rely on, in     *)
(* whatever order its requests are answered.                               *)
(***************************************************************************)
EXTENDS AdminPage

\* The handlers that effects start, those that effects start again, those that timers
\* and those that other handlers start without awaiting them.
Effected(T)  == UNION {e.runs : e \in T.effects}
Watching(T)  == UNION {e.runs : e \in {f \in T.effects : f.watch # {}}}
Polled(T)    == {t.run : t \in T.timers}
Chained(T)   == UNION {T.ops[o].go \cup DOMAIN T.ops[o].goif : o \in DOMAIN T.ops}
Restarted(T) == Watching(T) \cup Polled(T) \cup Chained(T)

\* The handlers that other handlers await.
Awaited(T) ==
  UNION {UNION {T.ops[o].wait[k] : k \in DOMAIN T.ops[o].wait} : o \in DOMAIN T.ops}

\* The assignments of a handler other than those before its first await.
Later(h)      == {h.refuse, h.ok, h.bad, h.end, h.after}
Touches(h, s) == s \in DOMAIN h.shut \/ \E as \in Later(h) \cup {h.pre} : s \in DOMAIN as

\* The table speaks of its own handlers, lists and slots, and a handler that is
\* started without a click has a request to wait for.
FormRule(T) ==
  /\ \A o \in DOMAIN T.ops :
       /\ T.ops[o].ask \in BOOLEAN
       /\ T.ops[o].wait \in Seq(SUBSET DOMAIN T.ops)
       /\ \A k \in DOMAIN T.ops[o].wait : T.ops[o].wait[k] # {}
       /\ T.ops[o].get \cup T.ops[o].put \subseteq T.lists
  /\ \A p \in T.panels : DOMAIN p.offers \subseteq DOMAIN T.ops
  /\ \A o \in Restarted(T) \cup Effected(T) :
       o \in DOMAIN T.ops /\ (T.ops[o].ask \/ T.ops[o].wait # <<>>)
  /\ T.flags \cup T.rowFlags \cup T.patched \cup T.closure \subseteq DOMAIN T.init

\* However handler o ends, flag f is down then: its finally lowers it; or the lines
\* behind its last await do, and none of its requests makes it give up; or both
\* outcomes of its only request do.
OpLowers(T, o, f) ==
  \/ f \in DOMAIN T.ops[o].end
  \/ /\ f \in DOMAIN T.ops[o].after /\ ~T.ops[o].ask
     /\ \A k \in DOMAIN T.ops[o].wait : \A l \in T.ops[o].wait[k] : l # o /\ T.ops[l].put = {}
  \/ f \in DOMAIN T.ops[o].ok \cap DOMAIN T.ops[o].bad /\ T.ops[o].ask /\ T.ops[o].wait = <<>>

\* A load in stage k of handler o lowers f in its finally, and the stage has no
\* request that makes o give up.
StageLowers(T, o, k, f) ==
  /\ \E l \in T.ops[o].wait[k] : f \in DOMAIN T.ops[l].end
  /\ \A l \in T.ops[o].wait[k] : l # o /\ T.ops[l].put = {}

\* A busy flag is raised only before an await, by a handler that lowers it.
FlagRule(T) ==
  \A f \in T.flags \cup T.rowFlags :
     /\ \A o \in DOMAIN T.ops :
          /\ \A as \in Later(T.ops[o]) : f \in DOMAIN as => as[f] \in {"off", "none"}
          /\ f \in DOMAIN T.ops[o].pre => OpLowers(T, o, f)
          /\ \A k \in DOMAIN T.ops[o].wait :
               (\E l \in T.ops[o].wait[k] : f \in DOMAIN T.ops[l].pre) => StageLowers(T, o, k, f)
     /\ T.init[f] \notin {"off", "none"} =>
          \E e \in T.effects : Holds(T.init, e.when, "none") /\ \E o \in e.runs :
             OpLowers(T, o, f) \/ (~T.ops[o].ask /\ StageLowers(T, o, 1, f))

\* Slot s belongs to handlers that only a click, or the mounting of the page, starts;
\* they keep it from before their first await to their end.
Private(T, s) ==
  \A o \in DOMAIN T.ops : Touches(T.ops[o], s) =>
     /\ o \notin Restarted(T) \cup Awaited(T)
     /\ s \in DOMAIN T.ops[o].pre \ DOMAIN T.ops[o].refuse
     /\ T.ops[o].ask \/ T.ops[o].wait # <<>>
     /\ s \in DOMAIN T.ops[o].ok \cup DOMAIN T.ops[o].shut => T.ops[o].wait = <<>>

\* Every button that starts o is enabled only while slot s is v.
OnlyWhile(T, o, s, v) ==
  \A p \in T.panels : o \in DOMAIN p.offers => s \in DOMAIN p.offers[o] /\ p.offers[o][s] = {v}

\* Flag f admits one handler at a time: every handler that uses it raises it, has its
\* buttons disabled by it, and not two of them start with the page.
Admits(T, f) ==
  /\ f \in DOMAIN T.init /\ Private(T, f)
  /\ \A q \in DOMAIN T.ops : Touches(T.ops[q], f) => T.ops[q].pre[f] = "on" /\ OnlyWhile(T, q, f, "off")
  /\ \A q, r \in Effected(T) : Touches(T.ops[q], f) /\ Touches(T.ops[r], f) => q = r

\* A guarded handler raises such a flag.
SubmitRule(T) ==
  \A o \in DOMAIN T.ops : Guarded(T, o) => \E f \in DOMAIN T.ops[o].pre : Admits(T, f)

\* The argument of a click on handler o is a row.
OnRow(T, o) ==
  \/ T.ops[o].arg = "row"
  \/ /\ T.ops[o].arg # "none"
     /\ \A p \in T.panels : o \in DOMAIN p.offers =>
          T.ops[o].arg \in DOMAIN p.when /\ p.when[T.ops[o].arg] = {"some"}

\* A busy mark is put on the row of the click.  Where something else is marked as
\* well, no button is enabled while anything is marked.
Marks(T, o, s)  == s \in DOMAIN T.ops[o].pre /\ T.ops[o].pre[s] = "arg"
MarkRule(T) ==
  \A s \in T.rowFlags :
     /\ Private(T, s)
     /\ \A o \in DOMAIN T.ops : Touches(T.ops[o], s) =>
          /\ o \notin Effected(T)
          /\ Marks(T, o, s) => OnRow(T, o)
          /\ ~Marks(T, o, s) => T.ops[o].pre[s] \notin {"drop", "patch", "flip", "none"}
     /\ \/ \A o \in DOMAIN T.ops : Touches(T.ops[o], s) => Marks(T, o, s)
        \/ \A o \in DOMAIN T.ops : Touches(T.ops[o], s) => OnlyWhile(T, o, s, "none")

\* A switch is switched on and off, a slot that handlers take their argument from
\* holds a row or nothing.
ArgSlots(T) == {T.ops[o].arg : o \in DOMAIN T.ops} \ {"row", "none"}
Fits(T, s, v) ==
  /\ v # "mixed"
  /\ T.init[s] \in {"on", "off"} => v \in {"on", "off"}
  /\ s \in ArgSlots(T) => v \in {"arg", "drop", "patch", "none"}
SlotRule(T) ==
  /\ ArgSlots(T) \subseteq DOMAIN T.init
  /\ \A s \in DOMAIN T.init : T.init[s] # "mixed" /\ (s \in ArgSlots(T) => T.init[s] = "none")
  /\ \A o \in DOMAIN T.ops :
       /\ \A as \in Later(T.ops[o]) \cup {T.ops[o].pre} : \A s \in DOMAIN as : Fits(T, s, as[s])
       /\ \A s \in DOMAIN T.ops[o].shut : Fits(T, s, "off")

\* A row on display is changed in place only by the answer to a write of the handler
\* that was clicked, which closed over it; nothing but an answer or a click that is
\* not refused puts another one in its place.
PatchRule(T) ==
  \A o \in DOMAIN T.ops :
     /\ T.patched \cap (DOMAIN T.ops[o].pre \cup DOMAIN T.ops[o].refuse) = {}
     /\ \A as \in {T.ops[o].pre, T.ops[o].refuse, T.ops[o].bad, T.ops[o].end, T.ops[o].after} :
          \A s \in DOMAIN as : as[s] # "patch"
     /\ \A s \in DOMAIN T.ops[o].ok : T.ops[o].ok[s] = "patch" =>
          /\ s \in T.patched \cap T.closure /\ T.ops[o].put # {}
          /\ o \notin Restarted(T) \cup Effected(T) \cup Awaited(T)

\* The filters in the requests for list d.
Filters(T, d) == UNION {T.ops[o].reads : o \in {l \in DOMAIN T.ops : d \in T.ops[l].get}}

\* Stage k of handler o consists of loads, which do not make o give up.
Loading(T, o, k) == \A l \in T.ops[o].wait[k] : l # o /\ T.ops[l].put = {}

\* The first requests of handler o ask for list d.
AsksFor(T, o, d) ==
  IF T.ops[o].ask THEN d \in T.ops[o].get
  ELSE Loading(T, o, 1) /\ \E l \in T.ops[o].wait[1] : d \in T.ops[l].get

\* Lists that a request changes or patches it does not load; those it may show as
\* empty it asked for.
ListRule(T) ==
  \A o \in DOMAIN T.ops :
     /\ T.ops[o].get \cap (T.ops[o].put \cup T.ops[o].patch) = {}
     /\ T.ops[o].blank \subseteq T.ops[o].get

\* A filter is set by nothing but a click without a request, while an effect runs that
\* watches the filter and loads the lists it is for.
QueryRule(T) ==
  \A d \in T.lists : \A s \in Filters(T, d) :
     /\ s \in DOMAIN T.init
     /\ \A o \in DOMAIN T.ops : Touches(T.ops[o], s) =>
          /\ ~T.ops[o].ask /\ T.ops[o].wait = <<>> /\ o \notin Awaited(T)
          /\ \A as \in {T.ops[o].pre, T.ops[o].refuse, T.ops[o].bad, T.ops[o].end, T.ops[o].after} :
               s \notin DOMAIN as
          /\ \E e \in T.effects :
               /\ s \in e.watch /\ \E l \in e.runs : AsksFor(T, l, d)
               /\ DOMAIN e.when \subseteq DOMAIN T.init \ DOMAIN T.ops[o].ok
               /\ \A p \in T.panels : o \in DOMAIN p.offers => \A t \in DOMAIN e.when :
                    t \in DOMAIN p.when /\ p.when[t] = e.when[t]

\* A list that a handler changes at the server is patched on the page, or loaded by a
\* handler that is started or awaited next, or the table names it as unrefreshed.
RefreshRule(T) ==
  \A o \in DOMAIN T.ops :
     \A d \in T.ops[o].put \ (IF o \in DOMAIN T.unrefreshed THEN T.unrefreshed[o] ELSE {}) :
        \/ d \in T.ops[o].patch
        \/ \E l \in T.ops[o].go : AsksFor(T, l, d)
        \/ /\ T.ops[o].ask /\ o \notin Awaited(T)
           /\ \E k \in DOMAIN T.ops[o].wait :
                /\ \A j \in 1..k : Loading(T, o, j)
                /\ \E l \in T.ops[o].wait[k] : d \in T.ops[l].get

\* A table names as unrefreshed only what its handler changes, does not patch, and
\* neither starts nor awaits a load of.
NeglectRule(T) ==
  \A o \in DOMAIN T.unrefreshed :
     /\ T.unrefreshed[o] \subseteq T.ops[o].put \ T.ops[o].patch
     /\ \A d \in T.unrefreshed[o] :
          \A l \in T.ops[o].go \cup UNION {T.ops[o].wait[k] : k \in DOMAIN T.ops[o].wait} :
             d \notin T.ops[l].get /\ ~AsksFor(T, l, d)

-----------------------------------------------------------------------------
(* What is shown next to a row, and the forms filled from one.             *)

\* A handler without a request; and the handlers that more than a click starts.
Plain(h)     == ~h.ask /\ h.wait = <<>>
Unclicked(T) == Restarted(T) \cup Effected(T) \cup Awaited(T)

\* The slots W are assigned by clicks and by answers, never behind an await and in no
\* handler that starts by itself.
Steady(T, W) ==
  \A o \in DOMAIN T.ops :
     /\ \A s \in W : s \notin DOMAIN T.ops[o].shut
     /\ \A as \in {T.ops[o].refuse, T.ops[o].end, T.ops[o].after} : W \cap DOMAIN as = {}
     /\ W \cap DOMAIN T.ops[o].pre # {} => o \notin Unclicked(T)
     /\ Plain(T.ops[o]) => o \notin Awaited(T)

\* Handler o is in progress until what d shows is loaded, with its own request or with
\* the only load it awaits.
Asks(T, d, o) ==
  IF T.ops[o].ask THEN T.ops[o].wait = <<>> /\ d.shows \in DOMAIN T.ops[o].ok
  ELSE \E l \in DOMAIN T.ops : T.ops[o].wait = <<{l}>> /\ l # o /\ d.shows \in DOMAIN T.ops[l].ok

\* What d shows is loaded by clicks on handlers that are about the row selected, or
\* select the row they are about; nothing else starts or awaits them.
AskRule(T, d) ==
  /\ d \in T.details /\ d.of \in DOMAIN T.init \ {"row", "none"} /\ Steady(T, {d.of})
  /\ \A l \in DOMAIN T.ops : d.shows \in DOMAIN T.ops[l].ok /\ ~Plain(T.ops[l]) =>
       /\ T.ops[l].ask /\ T.ops[l].wait = <<>> /\ (l \in Awaited(T) => T.ops[l].put = {})
       /\ T.ops[l].ok[d.shows] = "arg" /\ d.of \notin DOMAIN T.ops[l].ok
       /\ \A o \in DOMAIN T.ops : \A k \in DOMAIN T.ops[o].wait : l \in T.ops[o].wait[k] => Asks(T, d, o) /\ ~T.ops[o].ask
  /\ \A o \in DOMAIN T.ops : Asks(T, d, o) =>
       /\ o \notin Restarted(T) \cup Effected(T)
       /\ (\E p \in T.panels : o \in DOMAIN p.offers) =>
            /\ OnRow(T, o)
            /\ IF d.of \in DOMAIN T.ops[o].pre THEN T.ops[o].pre[d.of] = "arg" ELSE T.ops[o].arg = d.of

\* A slot of value v is not what a condition accepts.
Closes(cond, v) ==
  v \notin cond \cup {"arg", "drop", "patch", "flip"} /\ "other" \notin cond /\ ("some" \in cond => v \notin Rows)
Hides(d, as) == \E t \in DOMAIN as \cap DOMAIN d.when : Closes(d.when[t], as[t])

\* While d is in view every button for o is behind a dialog, or away because nothing
\* would be selected.
ShutOut(T, d, o) ==
  \A p \in T.panels : o \in DOMAIN p.offers =>
     \/ d.of \in DOMAIN p.when /\ p.when[d.of] = {"none"}
     \/ \E q \in T.panels :
          /\ ~(q.level <= p.level)
          /\ \A t \in DOMAIN q.when :
               \/ t \in DOMAIN d.when /\ d.when[t] \subseteq q.when[t]
               \/ t = d.of /\ "some" \in q.when[t] /\ (t \in T.patched => "mixed" \in q.when[t])
               \/ t \in DOMAIN p.when /\ p.when[t] \subseteq q.when[t]

\* A click fills what d shows from the row that it selects or that is selected.
FillsBoth(T, d, o, as) ==
  /\ d.shows \in DOMAIN as \cap DOMAIN d.when /\ as[d.shows] = "arg" /\ d.when[d.shows] = {"some"}
  /\ IF d.of \in DOMAIN as THEN as[d.of] = "arg" ELSE T.ops[o].arg = d.of /\ Plain(T.ops[o])

ClickKeeps(T, d, o, as) ==
  \/ ({d.shows, d.of} \cup DOMAIN d.when) \cap DOMAIN as = {}
  \/ Hides(d, as)
  \/ FillsBoth(T, d, o, as)
  \/ ({d.shows} \cup DOMAIN d.when) \cap DOMAIN as = {} /\ ShutOut(T, d, o)

\* An answer leaves d alone, takes it out of view, or fills it for the row of its own
\* click. Or it brings what was asked for, or closes or replaces the selected row, where
\* that counts among the excuses X; or it changes the selected row in place.
AnswerKeeps(T, d, X, o, as) ==
  \/ ({d.shows, d.of} \cup DOMAIN d.when) \cap DOMAIN as = {}
  \/ Hides(d, as)
  \/ d.of \in DOMAIN as /\ FillsBoth(T, d, o, as)
  \/ d.shows \in DOMAIN as /\ "moved" \in X /\ AskRule(T, d)
  \/ /\ d.of \in DOMAIN as /\ (({d.shows} \cup DOMAIN d.when) \ {d.of}) \cap DOMAIN as = {}
     /\ \/ as[d.of] = "patch" /\ d.of \in T.patched
        \/ as[d.of] = "drop" /\ d.of \in T.selections /\ "dropped" \in X
        \/ as[d.of] = "arg" /\ d.of \in T.selections \ DOMAIN d.when /\ "replaced" \in X

\* Whenever d is in view it shows the row that is selected.
Matched(T, d, X) ==
  /\ d.of \notin {d.shows, "row", "none"} /\ {d.shows, d.of} \cup DOMAIN d.when \subseteq DOMAIN T.init
  /\ Steady(T, {d.shows, d.of} \cup DOMAIN d.when)
  /\ \E t \in DOMAIN d.when : Closes(d.when[t], T.init[t])
  /\ \A o \in DOMAIN T.ops :
       /\ \/ ({d.shows, d.of} \cup DOMAIN d.when) \cap DOMAIN T.ops[o].bad = {}
          \/ "formless" \in X /\ T.ops[o].wait = <<>> /\ T.forms \cap DOMAIN T.ops[o].ok # {}
       /\ ClickKeeps(T, d, o, T.ops[o].pre)
       /\ IF Plain(T.ops[o]) THEN ClickKeeps(T, d, o, T.ops[o].ok)
                             ELSE AnswerKeeps(T, d, X, o, T.ops[o].ok)

\* What d shows follows the selection: a click that selects a row loads it.
Followed(T, d) ==
  /\ d.shows # d.of /\ {d.shows, d.of} \subseteq DOMAIN T.init /\ T.init[d.of] = "none"
  /\ d.when = <<>> /\ AskRule(T, d) /\ Steady(T, {d.shows, d.of})
  /\ \A o \in DOMAIN T.ops :
       /\ {d.shows, d.of} \cap DOMAIN T.ops[o].bad = {} /\ d.shows \notin DOMAIN T.ops[o].pre
       /\ d.of \in DOMAIN T.ops[o].pre => Asks(T, d, o)
       /\ d.of \in DOMAIN T.ops[o].ok => T.ops[o].ok[d.of] \in {"none", "drop"}
       /\ d.shows \in DOMAIN T.ops[o].ok /\ Plain(T.ops[o]) =>
            d.of \in DOMAIN T.ops[o].ok /\ T.ops[o].ok[d.of] = "none"

DetailRule(T) ==
  \A d \in T.details : Matched(T, d, {"moved", "missed", "dropped"}) \/ Followed(T, d)

\* The form f, filled from the row in slot s, while slot g is open.
Form(f, s, g) ==
  [shows |-> f, of |-> s, when |-> [t \in {f, g} |-> IF t \in {f, s} THEN {"some"} ELSE {"on"}]]

OnlyBehind(T, o, g) ==
  \A p \in T.panels : o \in DOMAIN p.offers =>
     \/ g \in DOMAIN p.when /\ p.when[g] = {"on"}
     \/ g \in DOMAIN p.offers[o] /\ p.offers[o][g] = {"on"}

\* While flag b is up what d shows is being loaded, for one row.
Single(T, d, b) ==
  /\ b \in DOMAIN T.init /\ Private(T, b)
  /\ \A o \in DOMAIN T.ops :
       /\ Touches(T.ops[o], b) <=> Asks(T, d, o)
       /\ Touches(T.ops[o], b) =>
            /\ T.ops[o].pre[b] = "on" /\ d.of \in DOMAIN T.ops[o].pre
            /\ \A p \in T.panels : o \in DOMAIN p.offers =>
                 d.of \in DOMAIN p.offers[o] /\ p.offers[o][d.of] = {"other"}

\* A form that is sent for a row was filled with it: it is so while it can be sent, or
\* it is shown only when it was loaded.
FillRule(T) ==
  \A o \in DOMAIN T.ops : \A f \in T.ops[o].body :
     LET s == T.ops[o].arg
     IN  /\ s \notin {"row", "none"}
         /\ \/ \E g \in DOMAIN T.init \ {f} :
                 /\ Matched(T, Form(f, s, g), {"formless", "replaced", "dropped", "moved"})
                 /\ g = s \/ OnlyBehind(T, o, g)
            \/ \E d \in T.details : \E b \in T.flags :
                 /\ d.shows = f /\ d.of = s /\ f \in T.forms /\ Followed(T, d) /\ Single(T, d, b)
                 /\ \A p \in T.panels : o \in DOMAIN p.offers => b \in DOMAIN p.when /\ p.when[b] = {"off"}
=============================================================================
