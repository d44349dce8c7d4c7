-------------------------- MODULE AdminVocabulary --------------------------
(***************************************************************************)
(* The words in which the tables of the admin pages are written: what a   *)
(* handler, a panel and a page consist of.  AdminPage says what each field *)
(* does.                                                                   *)
(***************************************************************************)
EXTENDS Naturals, Sequences, TLC

Nothing == <<>>

\* A handler.  arg: the row it is clicked on ("row"), a slot, or "none";
\* refuse: what it assigns when it returns early because the input is incomplete;
\* pre, ok, bad, end: assignments before the await, after a good answer, in
\* catch, in finally; ask: it sends a request of its own; reads: the filters in
\* the request; get/put: the lists it loads or changes; some: those
\* it can do without, loaded by requests of their own; blank: those it
\* shows as empty then; patch: the lists it
\* changes on the page itself; go: loads it starts without awaiting; goif: those
\* it starts if the slot it closed over is the row; shut: the slots it lowers if
\* the slot it closed over is the row; wait: loads it awaits, stage
\* by stage; after: assignments behind them; body: the forms it sends.
Act == [arg |-> "none", refuse |-> Nothing, pre |-> Nothing, ask |-> FALSE,
        reads |-> {}, get |-> {}, some |-> {}, blank |-> {}, put |-> {}, patch |-> {}, ok |-> Nothing, go |-> {},
        goif |-> Nothing, shut |-> Nothing, wait |-> <<>>, after |-> Nothing, bad |-> Nothing, end |-> Nothing,
        body |-> {}]

Fetch(lists, filters) == [Act EXCEPT !.ask = TRUE, !.get = lists, !.reads = filters]
Settled(lists)        == [Act EXCEPT !.ask = TRUE, !.get = lists, !.some = lists]
Emptied(lists)        == [Settled(lists) EXCEPT !.blank = lists]
Write(lists)          == [Act EXCEPT !.ask = TRUE, !.put = lists]
Ask                   == [Act EXCEPT !.ask = TRUE]
Both(stages)          == [Act EXCEPT !.wait = stages]
Set(as)               == [Act EXCEPT !.ok = as]

Busy(flag, op)   == [op EXCEPT !.pre = (flag :> "on") @@ @, !.end = (flag :> "off") @@ @]
Reported(op)     == [op EXCEPT !.bad = [error |-> "on"] @@ @]
Then(op, as, l)  == [op EXCEPT !.ok = as, !.go = l]
On(row, op)      == [op EXCEPT !.arg = row]

Effect(loads, watched, cond) == [runs |-> loads, watch |-> watched, when |-> cond]

Detail(slot, selection, cond) == [shows |-> slot, of |-> selection, when |-> cond]

Panel(cond, offered)  == [when |-> cond, level |-> 0, offers |-> offered]
Dialog(cond, offered) == [when |-> cond, level |-> 1, offers |-> offered]
Over(dialog)          == [dialog EXCEPT !.level = 2]
Open == {"on"}
Shut == {"off"}

Page == [init |-> Nothing, lists |-> {}, flags |-> {}, rowFlags |-> {}, selections |-> {}, patched |-> {}, details |-> {},
         forms |-> {}, closure |-> {}, effects |-> {}, timers |-> {}, unrefreshed |-> Nothing,
         panels |-> {}, ops |-> Nothing]

\* The banner with the last error, and the button that takes it away.
Banner(cond) == Panel(cond, [dismiss |-> [error |-> Open]])
BannerOps    == [dismiss |-> Set([error |-> "off"])]

\* A tab that is left and entered again.
Tabs   == Panel(Nothing, [enter |-> [tab |-> {"away"}], leave |-> [tab |-> {"here"}]])
TabOps == [enter |-> Set([tab |-> "here"]), leave |-> Set([tab |-> "away"])]
=============================================================================
