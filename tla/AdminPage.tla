----------------------------- MODULE AdminPage -----------------------------
(***************************************************************************)
(* A page of the administration front end (admin-ui/app/*/page.tsx) as    *)
(* React runs it: the user clicks what the visible panels offer, a handler *)
(* runs up to its first await and returns, the answer resumes it with the  *)
(* values it closed over, effects start loads when what they watch         *)
(* changes.  What a page does is its table (modules Pages...); how a table *)
(* is run is the same for all pages and is this module.                    *)
(***************************************************************************)
EXTENDS Naturals, Sequences, FiniteSets

CONSTANTS Pages,       \* page name -> table of the page
          Rows,        \* ids a list may show
          MaxSends,    \* bound, page name -> clicks that reach the server
          MaxBusy,     \* bound: handlers in progress while the user goes on clicking
          MaxFails,    \* bound: requests that fail
          MaxForeign,  \* bound: writes by others
          Timed,       \* pages whose timers run
          MaxPolls,    \* bound: loads of a timer in progress
          MaxTags      \* bound: overlapping calls of one handler

\* null is no id, neither is a row of which a part belongs to another one, nor the word
\* of a condition.
ASSUME RowsAssumption == Rows \cap {"none", "mixed", "other"} = {}

VARIABLES page,     \* the page that is open
          ui,       \* its useState slots: dialogs, flags, filters, selections, forms
          shown,    \* its lists: version at the server and query each was loaded with
          srv,      \* version of each list at the server
          calls,    \* handlers that wait for an answer
          sends, fails, foreign,
          late,     \* history: lists whose last load failed or had old filters
          own,      \* history: version that this page's last write made
          stale,    \* history: lists that may miss it until their next load
          blame     \* history: races that happened

vars == <<page, ui, shown, srv, calls, sends, fails, foreign, late, own, stale, blame>>

P == Pages[page]
Op(o) == P.ops[o]
Ops == DOMAIN P.ops
Lists == P.lists

-----------------------------------------------------------------------------
(* Slots *)

\* A condition names, for some slots, the values it accepts; "other" accepts
\* any value but the argument of the click, "some" any row.
Holds(u, cond, a) ==
  \A s \in DOMAIN cond :
     \/ u[s] \in cond[s]
     \/ "other" \in cond[s] /\ u[s] # a
     \/ "some" \in cond[s] /\ u[s] \in Rows

\* Mutant: the row on display is changed whichever row the answer is about.
Value_any_row(v, old, a, was) ==
  CASE v = "arg"   -> a
    [] v = "drop"  -> IF was = a THEN "none" ELSE old
    [] v = "patch" -> IF old \in Rows \ {a} THEN "mixed" ELSE old
    [] v = "flip"  -> IF old = "a" THEN "b" ELSE "a"
    [] OTHER       -> v

\* What one assignment makes of a slot.  "drop":
\* cleared if the handler closed over the row it deletes; "patch": the row on
\* display is changed in place if the handler closed over the row it changes.
Value(v, old, a, was) ==
  CASE v = "arg"   -> a
    [] v = "drop"  -> IF was = a THEN "none" ELSE old
    [] v = "patch" -> IF was = a /\ old \in Rows \ {a} THEN "mixed" ELSE old
    [] v = "flip"  -> IF old = "a" THEN "b" ELSE "a"
    [] OTHER       -> v

\* The assignments f, and those of g to other slots.
Merged(f, g) ==
  [s \in DOMAIN f \cup DOMAIN g |-> IF s \in DOMAIN f THEN f[s] ELSE g[s]]

Was(e, s) == IF s \in DOMAIN e THEN e[s] ELSE "none"

Assign(u, as, a, e) ==
  [s \in DOMAIN u |-> IF s \in DOMAIN as THEN Value(as[s], u[s], a, Was(e, s)) ELSE u[s]]

\* A handler keeps the slots that it, or a load it starts, reads after an await.
Kept(o) == Op(o).reads \cup {s \in DOMAIN Op(o).ok : Op(o).ok[s] \in {"drop", "patch"}}
                      \cup {Op(o).goif[l] : l \in DOMAIN Op(o).goif}
                      \cup {Op(o).shut[l] : l \in DOMAIN Op(o).shut}
Loads(o) == Op(o).go \cup DOMAIN Op(o).goif \cup UNION {Op(o).wait[k] : k \in DOMAIN Op(o).wait}
Within(o) == LET L == {o} \cup Loads(o) IN L \cup UNION {Loads(l) : l \in L}
Env(u) == [s \in P.closure |-> u[s]]

-----------------------------------------------------------------------------
(* Starting handlers *)

\* The requests a handler has sent when it first awaits.
First(o) == IF Op(o).ask THEN {o} ELSE Op(o).wait[1]

\* The assignments of a set of handlers before their first await.
Before(u, O, a, e) ==
  [s \in DOMAIN u |->
     LET A == {o \in O : s \in DOMAIN Op(o).pre}
     IN  IF A = {} THEN u[s]
         ELSE Value(Op(CHOOSE o \in A : TRUE).pre[s], u[s], a, Was(e, s))]

Opening(O) == O \cup UNION {First(o) : o \in O}

\* The loads that React's effects start when the slots go from u to w.
Effects(u, w) ==
  UNION {f.runs : f \in {g \in P.effects :
                           /\ \E s \in g.watch : u[s] # w[s]
                           /\ Holds(w, g.when, "none")}}

Tag(via, o) ==
  CHOOSE n \in 1..MaxTags :
    LET used == {c.n : c \in {b \in calls : b.op = o /\ b.via = via}}
    IN  n \notin used /\ 1..(n - 1) \subseteq used

\* The versions that the loads of handler o would find at the server.
Now(o) == [d \in UNION {Op(l).get : l \in Within(o)} |-> srv[d]]

Call(n, via, o, a, e) ==
  [n |-> n, via |-> via, op |-> o, arg |-> IF Op(o).arg = "none" THEN "none" ELSE a,
   env |-> [s \in (DOMAIN e) \cap UNION {Kept(l) : l \in Within(o)} |-> e[s]],
   from |-> Now(o), out |-> First(o), k |-> IF Op(o).ask THEN 0 ELSE 1, done |-> {}]

\* The page renders slots w after starting the handlers O with argument a and
\* closure e and the assignments fin; effects follow.  rest are the calls that
\* go on.  A row that is opened, closed or swapped while a request about it is
\* in progress is noted.
Render(w, O, a, e, fin, rest) ==
  LET started == Assign(Before(w, Opening(O), a, e), fin, a, e)
      run     == Effects(ui, started)
  IN  /\ ui' = Before(started, Opening(run), "none", Env(started))
      /\ calls' = rest \cup {Call(Tag("run", o), "run", o, a, e) : o \in O}
                       \cup {Call(Tag("effect", o), "effect", o, "none", Env(started)) : o \in run}

Noted(B) == blame' = blame \cup B

\* What a page shows next to the row that is selected.
Shows(o) == {d \in P.details : d.shows \in DOMAIN Op(o).ok}

\* The selection changes while details of a row are being loaded.
Moves ==
  {"moved" : d \in {e \in P.details : /\ ui'[e.of] # ui[e.of]
                                      /\ \E c \in calls : e \in UNION {Shows(o) : o \in c.out}}}

Reselection == Moves \cup
  {"reselected" : s \in {t \in P.patched :
                           /\ ui'[t] # ui[t]
                           /\ \E c \in calls : c.arg = ui[t] /\ Op(c.op).put # {}}}

-----------------------------------------------------------------------------
(* Steps *)

Visible(p) == Holds(ui, p.when, "none")

\* A dialog covers the page, and a dialog opened from it covers both.
InFront ==
  LET V == {p \in P.panels : Visible(p)}
  IN  {p \in V : \A q \in V : q.level <= p.level}

Args(o) == CASE Op(o).arg = "row"  -> Rows
             [] Op(o).arg = "none" -> {"none"}
             [] OTHER              -> {ui[Op(o).arg]}

Async(o) == Op(o).ask \/ Op(o).wait # <<>>

Refuse(o, a) ==
  /\ Op(o).refuse # <<>>
  /\ Render(Assign(ui, Op(o).refuse, a, Env(ui)), {}, a, Env(ui), <<>>, calls)
  /\ UNCHANGED <<page, shown, srv, sends, fails, foreign, late, own, stale, blame>>

\* A handler without a request: it only assigns; effects may start loads.
Local(o, a) ==
  /\ ~Async(o)
  /\ Render(Assign(ui, Op(o).ok, a, Env(ui)), {}, a, Env(ui), <<>>, calls)
  /\ sends' = IF calls' = calls THEN sends ELSE sends + 1
  /\ sends' <= MaxSends[page]
  /\ Noted(Reselection)
  /\ UNCHANGED <<page, shown, srv, fails, foreign, late, own, stale>>

\* The form that a save sends was filled from another row.
Crossed(o, a) ==
  {"crossed" : b \in {f \in Op(o).body : a \in Rows /\ ui[f] \in Rows \ {a}}}

\* A row is marked as busy while another one is.
Overlapped(o, a) ==
  {"overlapped" : s \in {t \in P.rowFlags \cap DOMAIN Op(o).pre : ui[t] \in Rows}}

\* An answer closes the row that is open.
Dropped ==
  {"dropped" : s \in {t \in P.selections : ui[t] # "none" /\ ui'[t] = "none"}}

\* An answer opens a row in the place of another one.
Replaced(o, a) ==
  {"replaced" : s \in {t \in P.selections \cap DOMAIN Op(o).ok :
                         Op(o).ok[t] = "arg" /\ ui[t] \notin {"none", a}}}

Send(o, a) ==
  /\ Async(o)
  /\ sends < MaxSends[page]
  /\ sends' = sends + 1
  /\ Render(ui, {o}, a, Env(ui), <<>>, calls)
  /\ Noted(Crossed(o, a) \cup Overlapped(o, a) \cup Reselection)
  /\ UNCHANGED <<page, shown, srv, fails, foreign, late, own, stale>>

\* The server carries out write o of call c.
Serve(c, o) ==
  /\ o \in c.out \ c.done /\ Op(o).put # {}
  /\ srv' = [d \in Lists |-> IF d \in Op(o).put THEN srv[d] + 1 ELSE srv[d]]
  /\ calls' = (calls \ {c}) \cup {[c EXCEPT !.done = @ \cup {o}]}
  /\ UNCHANGED <<page, ui, shown, sends, fails, foreign, late, own, stale, blame>>

\* Request o of call c has been answered and w are the slots: the call awaits the
\* rest of its stage, starts the next one, or ends.
Resume(c, o, w, O) ==
  LET out  == c.out \ {o}
      wait == Op(c.op).wait
  IN  IF out # {}
      THEN Render(w, O, c.arg, c.env, <<>>, (calls \ {c}) \cup {[c EXCEPT !.out = out]})
      ELSE IF c.k < Len(wait)
      THEN LET next == wait[c.k + 1]
           IN  Render(Before(w, next, c.arg, c.env), O, c.arg, c.env, <<>>,
                      (calls \ {c}) \cup
                        {[c EXCEPT !.out = next, !.k = c.k + 1, !.from = Now(c.op)]})
      ELSE Render(w, O, c.arg, c.env, Merged(Op(c.op).end, Op(c.op).after), calls \ {c})

\* A request that handler c itself makes: its first one, or a further write.  The
\* loads it awaits are functions of their own, which catch their own failures.
Part(c, o) == o = c.op \/ Op(o).put # {}

\* The loads a handler starts without awaiting them.
Gone(c, o) ==
  IF ~Part(c, o) THEN {}
  ELSE Op(o).go \cup {l \in DOMAIN Op(o).goif : Was(c.env, Op(o).goif[l]) = c.arg}

\* The assignments that a good answer to request o of call c makes.
Done(c, o) ==
  Merged([s \in {t \in DOMAIN Op(o).shut : Was(c.env, Op(o).shut[t]) = c.arg} |-> "off"],
         IF Part(c, o) THEN Op(o).ok ELSE Merged(Op(o).end, Op(o).ok))

\* What a load receives: all it asked for, or all but one it can do without.
Received(o) ==
  {Op(o).get} \cup {Op(o).get \ {d} : d \in {e \in Op(o).some : fails < MaxFails}}

\* The lists that handler o changes at the server and neither reloads nor patches.
Unrefreshed(o) == IF o \in DOMAIN P.unrefreshed THEN P.unrefreshed[o] ELSE {}

\* The server has carried out what request o writes.
Wrote(o) == own' = [d \in Lists |-> IF d \in Op(o).put THEN srv[d] ELSE own[d]]

\* A good answer to request o of call c, read at the server when it was sent or
\* just now.  A load that was sent before the page's last write may miss it, and so
\* does a list that the handler of the write does not load again.
Answer(c, o) ==
  /\ o \in c.out
  /\ Op(o).put # {} => o \in c.done
  /\ Resume(c, o, Assign(ui, Done(c, o), c.arg, c.env), Gone(c, o))
  /\ \E at \in {c.from, srv} : \E got \in Received(o) :
       LET q == [s \in Op(o).reads |-> c.env[s]]
       IN  /\ shown' = [d \in Lists |-> IF d \in got THEN [v |-> at[d], q |-> q]
                                        ELSE IF d \in Op(o).blank THEN [v |-> 0, q |-> q]
                                        ELSE IF d \in Op(o).patch THEN [shown[d] EXCEPT !.v = srv[d]]
                                        ELSE shown[d]]
           /\ late' = {d \in Lists :
                          IF d \in Op(o).get
                          THEN d \notin got \/ \E s \in Op(o).reads : q[s] # ui'[s]
                          ELSE d \in late}
           /\ stale' = {d \in Lists :
                          IF d \in Op(o).get THEN d \notin got \/ c.from[d] < own[d]
                          ELSE \/ d \in Unrefreshed(o)
                               \/ d \in stale /\ d \notin Op(o).put \ Op(o).patch}
           /\ fails' = IF got = Op(o).get THEN fails ELSE fails + 1
  /\ Wrote(o)
  /\ Noted(Reselection \cup Replaced(o, c.arg) \cup Dropped)
  /\ UNCHANGED <<page, srv, sends, foreign>>

\* Request o of call c fails: refused, or the answer to a write that was carried
\* out is lost.  A handler ends in its catch and finally; a load that it awaits
\* catches its own failure.
Fail(c, o) ==
  /\ o \in c.out
  /\ fails < MaxFails
  /\ fails' = fails + 1
  /\ LET f == IF Part(c, o) THEN c.op ELSE o
         w == Assign(ui, Merged(Op(f).end, Op(f).bad), c.arg, c.env)
     IN  IF f = c.op THEN Render(w, {}, c.arg, c.env, <<>>, calls \ {c})
                     ELSE Resume(c, o, w, {})
  /\ late' = late \cup Op(o).get
  /\ stale' = stale \cup Op(o).get \cup (IF o \in c.done THEN Op(o).put ELSE {})
  /\ IF o \in c.done THEN Wrote(o) ELSE UNCHANGED own
  /\ Noted(Reselection \cup {"missed" : d \in Shows(o)} \cup
           IF P.forms \cap DOMAIN Op(o).ok # {} THEN {"formless"} ELSE {})
  /\ UNCHANGED <<page, shown, srv, sends, foreign>>

\* Mutant: the timer is cleared when a load fails.
Tick_until_failure(t) ==
  /\ page \in Timed /\ fails = 0
  /\ Holds(ui, t.when, "none")
  /\ Cardinality({c \in calls : c.via = "tick"}) < MaxPolls
  /\ ui' = Before(ui, Opening({t.run}), "none", Env(ui))
  /\ calls' = calls \cup {Call(Tag("tick", t.run), "tick", t.run, "none", Env(ui))}
  /\ UNCHANGED <<page, shown, srv, sends, fails, foreign, late, own, stale, blame>>

\* The timer of an effect starts its load again, whether the last one has been
\* answered or not.
Tick(t) ==
  /\ page \in Timed
  /\ Holds(ui, t.when, "none")
  /\ Cardinality({c \in calls : c.via = "tick"}) < MaxPolls
  /\ ui' = Before(ui, Opening({t.run}), "none", Env(ui))
  /\ calls' = calls \cup {Call(Tag("tick", t.run), "tick", t.run, "none", Env(ui))}
  /\ UNCHANGED <<page, shown, srv, sends, fails, foreign, late, own, stale, blame>>

\* Somebody else changes a list at the server.
Foreign(d) ==
  /\ foreign < MaxForeign
  /\ foreign' = foreign + 1
  /\ srv' = [srv EXCEPT ![d] = @ + 1]
  /\ UNCHANGED <<page, ui, shown, calls, sends, fails, late, own, stale, blame>>

Mounted(p) ==
  UNION {f.runs : f \in {g \in Pages[p].effects : Holds(Pages[p].init, g.when, "none")}}

Init ==
  /\ page \in DOMAIN Pages
  /\ srv = [d \in Lists |-> 1]
  /\ shown = [d \in Lists |-> [v |-> 0, q |-> <<>>]]
  /\ ui = Before(P.init, Opening(Mounted(page)), "none", Env(P.init))
  /\ calls = {Call(1, "effect", o, "none", Env(P.init)) : o \in Mounted(page)}
  /\ sends = 0 /\ fails = 0 /\ foreign = 0
  /\ late = {} /\ own = [d \in Lists |-> 0] /\ stale = {} /\ blame = {}

Click ==
  /\ Cardinality(calls) <= MaxBusy
  /\ \E p \in InFront : \E o \in DOMAIN p.offers : \E a \in Args(o) :
       /\ Holds(ui, p.offers[o], a)
       /\ Refuse(o, a) \/ Local(o, a) \/ Send(o, a)
Reply == \E c \in calls : \E o \in c.out : Answer(c, o) \/ Fail(c, o)

Next == \/ Click
        \/ \E c \in calls : \E o \in c.out : Serve(c, o)
        \/ Reply
        \/ \E t \in P.timers : Tick(t)
        \/ \E d \in Lists : Foreign(d)

Spec == Init /\ [][Next]_vars

\* The timer fires, and of the loads it started some one is answered.
PollAnswered == \E c \in calls : c.via = "tick" /\ \E o \in c.out : Answer(c, o)
Fairness == WF_vars(\E t \in P.timers : Tick(t)) /\ WF_vars(PollAnswered)

FairSpec == Spec /\ Fairness

-----------------------------------------------------------------------------
(* Properties *)

\* What is a switch (a dialog, a busy flag) stays one, and no list shows, and no
\* write is acknowledged with, a version the server has not had.
TypeOK ==
  /\ page \in DOMAIN Pages
  /\ DOMAIN ui = DOMAIN P.init
  /\ \A s \in DOMAIN ui : P.init[s] \in {"on", "off"} => ui[s] \in {"on", "off"}
  /\ \A d \in Lists : shown[d].v \in 0..srv[d] /\ own[d] \in 0..srv[d]
  /\ \A c \in calls : c.op \in Ops /\ c.out # {} /\ c.arg \in Rows \cup {"none", "mixed"}
  /\ late \cup stale \subseteq Lists

Lowers(o, f) == f \in DOMAIN Op(o).end \cup DOMAIN Op(o).after \cup DOMAIN Op(o).ok

\* A busy flag or busy mark is up only while a handler is in progress that takes it
\* down again: no order of answers and failures leaves a button disabled or a page
\* on "loading" for ever.
FlagHeld ==
  \A f \in P.flags \cup P.rowFlags : ui[f] \notin {"off", "none"} =>
     \E c \in calls : \E o \in {c.op} \cup c.out : Lowers(o, f)

\* Every button that starts o is disabled while flag f is up.
Disabled(T, o, f) ==
  \A p \in T.panels : o \in DOMAIN p.offers =>
     f \in DOMAIN p.offers[o] /\ "on" \notin p.offers[o][f]

\* The page with table T means o to run once at a time: nothing but buttons starts
\* it, and all handlers that raise its flag are disabled by the flag.
Guarded(T, o) ==
  /\ \E p \in T.panels : o \in DOMAIN p.offers
  /\ \A e \in T.effects : e.watch # {} => o \notin e.runs
  /\ \A t \in T.timers : o # t.run
  /\ \E f \in T.flags \cap DOMAIN T.ops[o].pre :
       \A q \in DOMAIN T.ops : f \in DOMAIN T.ops[q].pre => Disabled(T, q, f)

\* A submit whose button is disabled by its busy flag is never in progress twice:
\* the flag is not taken down before the handler is through, by itself or by another
\* handler that shares the flag.
SingleFlight ==
  \A c, b \in calls : c.op = b.op /\ Guarded(P, c.op) => c = b

\* When all answers are in, a list shows the result of the query that the filters on
\* the page describe, unless its last load failed, or was started with older values
\* by a handler that had closed over them.
SettledShowsQuery ==
  calls = {} => \A d \in Lists \ late :
     \A s \in DOMAIN shown[d].q : shown[d].q[s] = ui[s]

\* When all answers are in, what the page wrote is on display.  The exceptions: the
\* answer to the write was lost, and the handler ended in its catch; the handler does
\* not load the list again (the table names it as unrefreshed); the last load of the
\* list failed, or was sent before the write, and overtook the reload.  Each of them
\* ends with the next load of the list.
OwnWritesShown ==
  calls = {} => \A d \in Lists \ stale : shown[d].v >= own[d]

\* A save sends row a's form to row a.  The exceptions are the ways the pages have
\* to fail at it: the load that fills the form failed, or an answer that came late
\* opened, closed or replaced a row behind the form.
FormOwner == "crossed" \in blame => blame \cap {"formless", "replaced", "dropped", "moved"} # {}

\* When all answers are in, the details on display are those of the row selected,
\* unless another row was selected while they were loaded, their load failed, or a
\* late answer closed the row.
DetailOfSelection ==
  calls = {} => \A d \in P.details :
     Holds(ui, d.when, "none") /\ ui[d.of] \in Rows =>
        ui[d.shows] = ui[d.of] \/ blame \cap {"moved", "missed", "dropped"} # {}

\* A row on display is given new values in place only by an answer about that row,
\* unless another row was opened while the request was in progress.
NoMixedRow == (\E s \in P.patched : ui[s] = "mixed") => "reselected" \in blame

\* While a request about a row is in progress its busy mark is on that row, unless a
\* second row was marked meanwhile.
RowMarked ==
  \A c \in calls : \A s \in P.rowFlags :
     s \in DOMAIN Op(c.op).pre /\ Op(c.op).pre[s] = "arg" => ui[s] = c.arg \/ "overlapped" \in blame

\* A list that the timer of the page loads is behind the server, and the timer runs.
Behind ==
  \E t \in P.timers : \E o \in Opening({t.run}) : \E d \in Op(o).get :
     Holds(ui, t.when, "none") /\ shown[d].v < srv[d]

\* A page that polls catches up: as long as its timer runs, a change that somebody
\* else made at the server is on display some time later, whatever the user does,
\* which answers fail, and in which order overlapping polls are answered.
PollCatchesUp == Behind ~> ~Behind
=============================================================================
