-------------------------- MODULE AdminPageProofs --------------------------
(***************************************************************************)
(* Proofs about AdminPage, for every page whose table follows the rules of *)
(* AdminTables, any rows and any bounds.                                   *)
(***************************************************************************)
EXTENDS AdminTables, TLAPS

\* A record with the fields of a call.
IsCall(c) ==
  c = [n |-> c.n, via |-> c.via, op |-> c.op, arg |-> c.arg, env |-> c.env,
       from |-> c.from, out |-> c.out, k |-> c.k, done |-> c.done]

\* A handler in progress: it waits for its own request, or for stage k of its loads.
CallOK(T, c) ==
  /\ IsCall(c)
  /\ c.op \in DOMAIN T.ops
  /\ c.out # {}
  /\ c.k \in 0..Len(T.ops[c.op].wait)
  /\ c.k = 0 => T.ops[c.op].ask /\ c.out = {c.op}
  /\ c.k > 0 => c.out \subseteq T.ops[c.op].wait[c.k]

\* The page is one of the table's, its slots are those of the table.
PageInv ==
  /\ page \in DOMAIN Pages /\ FormRule(P)
  /\ DOMAIN ui = DOMAIN P.init
  /\ \A c \in calls : CallOK(P, c)

-----------------------------------------------------------------------------
(* Slots and calls.                                                        *)

\* What the assignments "as" make of a slot.
LEMMA AssignSlot ==
  ASSUME NEW u, NEW as, NEW a, NEW e
  PROVE  /\ DOMAIN Assign(u, as, a, e) = DOMAIN u
         /\ \A s \in DOMAIN u :
              Assign(u, as, a, e)[s] = IF s \in DOMAIN as THEN Value(as[s], u[s], a, Was(e, s)) ELSE u[s]
  BY DEF Assign

\* What starting the handlers O makes of a slot.
LEMMA BeforeSlot ==
  ASSUME NEW u, NEW O, NEW a, NEW e
  PROVE  /\ DOMAIN Before(u, O, a, e) = DOMAIN u
         /\ \A s \in DOMAIN u :
              \/ (\A o \in O : s \notin DOMAIN Op(o).pre) /\ Before(u, O, a, e)[s] = u[s]
              \/ \E o \in O : /\ s \in DOMAIN Op(o).pre
                              /\ Before(u, O, a, e)[s] = Value(Op(o).pre[s], u[s], a, Was(e, s))
  <1>1. DOMAIN Before(u, O, a, e) = DOMAIN u
    BY DEF Before
  <1>2. ASSUME NEW s \in DOMAIN u
        PROVE  \/ (\A o \in O : s \notin DOMAIN Op(o).pre) /\ Before(u, O, a, e)[s] = u[s]
               \/ \E o \in O : /\ s \in DOMAIN Op(o).pre
                               /\ Before(u, O, a, e)[s] = Value(Op(o).pre[s], u[s], a, Was(e, s))
    <2> DEFINE A == {o \in O : s \in DOMAIN Op(o).pre}
               q == CHOOSE o \in A : TRUE
    <2>1. Before(u, O, a, e)[s] = IF A = {} THEN u[s] ELSE Value(Op(q).pre[s], u[s], a, Was(e, s))
      BY DEF Before
    <2>2. A # {} => q \in A
      OBVIOUS
    <2> QED BY <2>1, <2>2
  <1> QED BY <1>1, <1>2

\* The call c is a new call of handler o.
New(c, o, a, e) == \E n, via : c = Call(n, via, o, a, e)

\* The call c has sent the first requests of handler o.
Begun(c, o) == c.op = o /\ c.out = First(o) /\ c.k = IF Op(o).ask THEN 0 ELSE 1

\* A new call is well formed and has sent the first requests of its handler.
LEMMA NewShape ==
  ASSUME FormRule(P), NEW o, o \in Ops /\ Async(o), NEW c, \E a, e : New(c, o, a, e)
  PROVE  CallOK(P, c) /\ Begun(c, o)
  <1>1. PICK n, via, a, e : c = Call(n, via, o, a, e)
    BY DEF New
  <1>2. /\ c.op = o /\ c.out = First(o) /\ c.k = (IF Op(o).ask THEN 0 ELSE 1)
        /\ c = [n |-> c.n, via |-> c.via, op |-> c.op, arg |-> c.arg, env |-> c.env,
                from |-> c.from, out |-> c.out, k |-> c.k, done |-> c.done]
    BY <1>1 DEF Call
  <1>3. Op(o).ask \in BOOLEAN /\ Op(o).wait \in Seq(SUBSET Ops) /\ \A k \in DOMAIN Op(o).wait : Op(o).wait[k] # {}
    BY DEF FormRule, Ops, Op
  <1>4. ~Op(o).ask => Op(o).wait # <<>> /\ Len(Op(o).wait) >= 1 /\ 1 \in DOMAIN Op(o).wait
    BY <1>3 DEF Async
  <1>5. CallOK(P, c)
    BY <1>2, <1>3, <1>4 DEF CallOK, IsCall, First, Op, Ops
  <1> QED BY <1>2, <1>5 DEF Begun

\* It is a call of its handler.
LEMMA NewOp ==
  ASSUME NEW o, NEW a, NEW e, NEW c, New(c, o, a, e)
  PROVE  c.op = o
  BY DEF New, Call

\* Starting the handlers O with argument a takes slot s from value x to y.
Begins(O, a, s, x, y) ==
  \/ y = x
  \/ \E o \in Opening(O) : \E z : s \in DOMAIN Op(o).pre /\ y = Value(Op(o).pre[s], x, a, z)

\* So do the assignments as.
Assigns(as, a, s, x, y) ==
  \/ s \notin DOMAIN as /\ y = x
  \/ s \in DOMAIN as /\ \E z : y = Value(as[s], x, a, z)

\* The page goes on from the slots w and the calls "rest", having started the handlers
\* O and made the assignments fin; effects have started the handlers "run".
Follows(w, O, a, e, fin, rest, run) ==
  /\ page' = page
  /\ DOMAIN ui' = DOMAIN w
  /\ run \subseteq Restarted(P)
  /\ rest \subseteq calls'
  /\ \A c \in calls' : c \in rest \/ (\E o \in O : New(c, o, a, e))
                              \/ (\E o \in run : \E env : New(c, o, "none", env))
  /\ \A o \in O \cup run : \E c \in calls' : Begun(c, o) /\ CallOK(P, c)
  /\ \A b, c \in calls' \ rest : b.op = c.op /\ c.op \notin run => b = c
  /\ \A s \in DOMAIN w : \E x, y :
       Begins(O, a, s, w[s], x) /\ Assigns(fin, a, s, x, y) /\ Begins(run, "none", s, y, ui'[s])
  /\ \A s \in DOMAIN w :
       \/ \E o \in Opening(run) : s \in DOMAIN Op(o).pre
       \/ s \in DOMAIN fin /\ \E x, y : ui'[s] = Value(fin[s], x, a, y)
       \/ /\ s \notin DOMAIN fin
          /\ \E o \in Opening(O) :
               s \in DOMAIN Op(o).pre /\ ui'[s] = Value(Op(o).pre[s], w[s], a, Was(e, s))
       \/ s \notin DOMAIN fin /\ ui'[s] = w[s] /\ \A o \in Opening(O) : s \notin DOMAIN Op(o).pre

\* Handlers that a page starts without a click have a request.
LEMMA StartedAsync ==
  ASSUME FormRule(P), NEW o \in Restarted(P) \cup Effected(P)
  PROVE  o \in Ops /\ Async(o)
  BY DEF FormRule, Ops, Async, Op

\* Effects that run when slots change are those that watch slots.
LEMMA EffectsRestarted ==
  ASSUME NEW u, NEW w
  PROVE  Effects(u, w) \subseteq Restarted(P)
  BY DEF Effects, Restarted, Watching

\* A step that renders goes on as Follows says.
LEMMA RenderFollows ==
  ASSUME FormRule(P), page' = page, NEW w, NEW O, NEW a, NEW e, NEW fin, NEW rest,
         \A o \in O : o \in Ops /\ Async(o),
         Render(w, O, a, e, fin, rest)
  PROVE  \E run : Follows(w, O, a, e, fin, rest, run)
  <1> DEFINE begun == Before(w, Opening(O), a, e)
             started == Assign(begun, fin, a, e)
             run == Effects(ui, started)
             fresh == {Call(Tag("run", o), "run", o, a, e) : o \in O}
             loads == {Call(Tag("effect", o), "effect", o, "none", Env(started)) : o \in run}
  <1>1. ui' = Before(started, Opening(run), "none", Env(started)) /\ calls' = rest \cup fresh \cup loads
    BY DEF Render
  <1>2. run \subseteq Restarted(P)
    BY EffectsRestarted
  <1>3. DOMAIN begun = DOMAIN w /\ DOMAIN started = DOMAIN w /\ DOMAIN ui' = DOMAIN w
    <2>1. DOMAIN begun = DOMAIN w
      BY BeforeSlot
    <2>2. DOMAIN started = DOMAIN begun
      BY AssignSlot
    <2>3. DOMAIN Before(started, Opening(run), "none", Env(started)) = DOMAIN started
      BY BeforeSlot
    <2> QED BY <2>1, <2>2, <2>3, <1>1
  <1>4. ASSUME NEW c \in calls'
        PROVE  c \in rest \/ (\E o \in O : New(c, o, a, e)) \/ (\E o \in run : \E env : New(c, o, "none", env))
    <2>1. CASE c \in fresh
      BY <2>1 DEF New
    <2>2. CASE c \in loads
      BY <2>2 DEF New
    <2> QED BY <1>1, <2>1, <2>2
  <1>5. ASSUME NEW o \in O \cup run
        PROVE  \E c \in calls' : Begun(c, o) /\ CallOK(P, c)
    <2>1. CASE o \in O
      <3>1. New(Call(Tag("run", o), "run", o, a, e), o, a, e)
        BY DEF New
      <3>2. Call(Tag("run", o), "run", o, a, e) \in calls'
        BY <1>1, <2>1
      <3> QED BY <2>1, <3>1, <3>2, NewShape
    <2>2. CASE o \in run
      <3> DEFINE b == Call(Tag("effect", o), "effect", o, "none", Env(started))
      <3>1. New(b, o, "none", Env(started))
        BY DEF New
      <3>2. b \in calls'
        BY <1>1, <2>2
      <3>3. o \in Ops /\ Async(o)
        <4>1. o \in Restarted(P)
          BY <2>2, <1>2
        <4> QED BY <4>1, StartedAsync
      <3> HIDE DEF b, started, run
      <3>4. \E x, env : New(b, o, x, env)
        BY <3>1
      <3>5. CallOK(P, b) /\ Begun(b, o)
        BY <3>3, <3>4, NewShape
      <3> QED BY <3>2, <3>5
    <2> QED BY <2>1, <2>2
  <1>6. ASSUME NEW s \in DOMAIN w, \A o \in Opening(run) : s \notin DOMAIN Op(o).pre
        PROVE  \/ s \in DOMAIN fin /\ \E x, y : ui'[s] = Value(fin[s], x, a, y)
               \/ /\ s \notin DOMAIN fin
                  /\ \E o \in Opening(O) :
                       s \in DOMAIN Op(o).pre /\ ui'[s] = Value(Op(o).pre[s], w[s], a, Was(e, s))
               \/ s \notin DOMAIN fin /\ ui'[s] = w[s] /\ \A o \in Opening(O) : s \notin DOMAIN Op(o).pre
    <2>1. ui'[s] = started[s]
      BY <1>1, <1>3, <1>6, BeforeSlot
    <2>2. started[s] = IF s \in DOMAIN fin THEN Value(fin[s], begun[s], a, Was(e, s)) ELSE begun[s]
      BY <1>3, AssignSlot
    <2>3. \/ (\A o \in Opening(O) : s \notin DOMAIN Op(o).pre) /\ begun[s] = w[s]
          \/ \E o \in Opening(O) : s \in DOMAIN Op(o).pre /\ begun[s] = Value(Op(o).pre[s], w[s], a, Was(e, s))
      BY BeforeSlot
    <2> HIDE DEF begun, started
    <2> QED BY <2>1, <2>2, <2>3
  <1>7. rest \subseteq calls'
    BY <1>1
  <1>8. ASSUME NEW b \in calls' \ rest, NEW c \in calls' \ rest, b.op = c.op, c.op \notin run
        PROVE  b = c
    <2>1. \A o \in O : Call(Tag("run", o), "run", o, a, e).op = o
      BY DEF Call
    <2>2. \A o \in run : Call(Tag("effect", o), "effect", o, "none", Env(started)).op = o
      BY DEF Call
    <2>3. b \in fresh /\ c \in fresh
      BY <1>1, <1>8, <2>2
    <2> QED BY <1>8, <2>1, <2>3
  <1>9. ASSUME NEW s \in DOMAIN w
        PROVE  \E x, y : /\ Begins(O, a, s, w[s], x) /\ Assigns(fin, a, s, x, y)
                         /\ Begins(run, "none", s, y, ui'[s])
    <2>1. Begins(O, a, s, w[s], begun[s])
      BY BeforeSlot DEF Begins
    <2>2. Assigns(fin, a, s, begun[s], started[s])
      BY <1>3, AssignSlot DEF Assigns
    <2>3. Begins(run, "none", s, started[s], ui'[s])
      <3> DEFINE R == Opening(run)  e2 == Env(started)
      <3>1. ui' = Before(started, R, "none", e2) /\ s \in DOMAIN started
        BY <1>1, <1>3
      <3> HIDE DEF started, R, e2
      <3>2. \/ Before(started, R, "none", e2)[s] = started[s]
            \/ \E o \in R : /\ s \in DOMAIN Op(o).pre
                            /\ Before(started, R, "none", e2)[s] = Value(Op(o).pre[s], started[s], "none", Was(e2, s))
        BY <3>1, BeforeSlot
      <3> QED BY <3>1, <3>2 DEF Begins, R
    <2> HIDE DEF begun, started, run
    <2> QED BY <2>1, <2>2, <2>3
  <1> HIDE DEF run
  <1>10. Follows(w, O, a, e, fin, rest, run)
    BY <1>2, <1>3, <1>4, <1>5, <1>6, <1>7, <1>8, <1>9 DEF Follows
  <1> QED BY <1>10

\* So does a tick of a timer.
LEMMA TickFollows ==
  ASSUME FormRule(P), NEW t \in P.timers, Tick(t)
  PROVE  Follows(ui, {t.run}, "none", Env(ui), <<>>, calls, {})
  <1> DEFINE c == Call(Tag("tick", t.run), "tick", t.run, "none", Env(ui))
  <1>1. /\ ui' = Before(ui, Opening({t.run}), "none", Env(ui))
        /\ calls' = calls \cup {c} /\ page' = page
    BY DEF Tick
  <1>2. t.run \in Ops /\ Async(t.run)
    <2>1. t.run \in Polled(P)
      BY DEF Polled
    <2>2. t.run \in Restarted(P)
      BY <2>1 DEF Restarted
    <2> QED BY <2>2, StartedAsync
  <1>3. New(c, t.run, "none", Env(ui))
    BY DEF New
  <1> HIDE DEF c
  <1>4. CallOK(P, c) /\ Begun(c, t.run)
    <2>1. \E x, env : New(c, t.run, x, env)
      BY <1>3
    <2> QED BY <1>2, <2>1, NewShape
  <1>5. /\ DOMAIN ui' = DOMAIN ui
        /\ \A s \in DOMAIN ui :
             \/ (\A o \in Opening({t.run}) : s \notin DOMAIN Op(o).pre) /\ ui'[s] = ui[s]
             \/ \E o \in Opening({t.run}) : /\ s \in DOMAIN Op(o).pre
                              /\ ui'[s] = Value(Op(o).pre[s], ui[s], "none", Was(Env(ui), s))
    <2> DEFINE O == Opening({t.run})  e == Env(ui)
    <2> HIDE DEF O, e
    <2>1. ui' = Before(ui, O, "none", e)
      BY <1>1 DEF O, e
    <2>2. /\ DOMAIN Before(ui, O, "none", e) = DOMAIN ui
          /\ \A s \in DOMAIN ui :
              \/ (\A o \in O : s \notin DOMAIN Op(o).pre) /\ Before(ui, O, "none", e)[s] = ui[s]
              \/ \E o \in O : /\ s \in DOMAIN Op(o).pre
                              /\ Before(ui, O, "none", e)[s] = Value(Op(o).pre[s], ui[s], "none", Was(e, s))
      BY BeforeSlot
    <2> QED BY <2>1, <2>2 DEF O, e
  <1>6. \A x \in calls' : x \in calls \/ (\E o \in {t.run} : New(x, o, "none", Env(ui)))
    BY <1>1, <1>3
  <1>7. \A o \in {t.run} \cup {} : \E x \in calls' : Begun(x, o) /\ CallOK(P, x)
    BY <1>1, <1>4
  <1>8. \A s : s \notin DOMAIN <<>>
    OBVIOUS
  <1>9. \A s \in DOMAIN ui : \E x, y : /\ Begins({t.run}, "none", s, ui[s], x) /\ Assigns(<<>>, "none", s, x, y)
                                       /\ Begins({}, "none", s, y, ui'[s])
    <2>1. \A s \in DOMAIN ui : Begins({t.run}, "none", s, ui[s], ui'[s])
      BY <1>5 DEF Begins
    <2>2. \A s : Assigns(<<>>, "none", s, ui'[s], ui'[s]) /\ Begins({}, "none", s, ui'[s], ui'[s])
      BY <1>8 DEF Begins, Assigns
    <2> QED BY <2>1, <2>2
  <1>10. \A b, d \in calls' \ calls : b = d
    BY <1>1
  <1> QED BY <1>1, <1>5, <1>6, <1>7, <1>8, <1>9, <1>10 DEF Follows

-----------------------------------------------------------------------------
(* How a call goes on when a request of it was answered.                   *)

\* The call b is the call c, later.
Continues(b, c) ==
  /\ CallOK(P, b)
  /\ b.op = c.op /\ b.arg = c.arg /\ b.env = c.env /\ b.from \in {c.from, Now(c.op)}

\* It awaits the rest of its stage, its next stage, or nothing more.
Waits(c, o, w, O, run) ==
  \E b : /\ Continues(b, c) /\ b.out = c.out \ {o} /\ b.k = c.k
         /\ Follows(w, O, c.arg, c.env, <<>>, (calls \ {c}) \cup {b}, run)

Advances(c, o, w, O, run) ==
  /\ c.out = {o} /\ c.k + 1 \in DOMAIN Op(c.op).wait
  /\ \E b : /\ Continues(b, c) /\ b.out = Op(c.op).wait[c.k + 1] /\ b.k = c.k + 1
            /\ Follows(Before(w, b.out, c.arg, c.env), O, c.arg, c.env, <<>>, (calls \ {c}) \cup {b}, run)

Ends(c, o, w, O, run) ==
  /\ c.out = {o} /\ c.k + 1 \notin DOMAIN Op(c.op).wait
  /\ Follows(w, O, c.arg, c.env, Merged(Op(c.op).end, Op(c.op).after), calls \ {c}, run)

GivesUp(c, run) ==
  Follows(Assign(ui, Merged(Op(c.op).end, Op(c.op).bad), c.arg, c.env), {}, c.arg, c.env, <<>>,
          calls \ {c}, run)

\* A call of which the requests, or what the server has done, have changed.
LEMMA CallChanged ==
  ASSUME NEW c, NEW x, IsCall(c)
  PROVE  /\ [c EXCEPT !.out = x] =
              [n |-> c.n, via |-> c.via, op |-> c.op, arg |-> c.arg, env |-> c.env,
               from |-> c.from, out |-> x, k |-> c.k, done |-> c.done]
         /\ [c EXCEPT !.done = x] =
              [n |-> c.n, via |-> c.via, op |-> c.op, arg |-> c.arg, env |-> c.env,
               from |-> c.from, out |-> c.out, k |-> c.k, done |-> x]
  BY DEF IsCall

\* A call in its next stage.
LEMMA CallAdvanced ==
  ASSUME NEW c, NEW x, NEW y, NEW z, IsCall(c)
  PROVE  [c EXCEPT !.out = x, !.k = y, !.from = z] =
           [n |-> c.n, via |-> c.via, op |-> c.op, arg |-> c.arg, env |-> c.env,
            from |-> z, out |-> x, k |-> y, done |-> c.done]
  <1> DEFINE b == [c EXCEPT !.out = x, !.k = y, !.from = z]
             d == [n |-> c.n, via |-> c.via, op |-> c.op, arg |-> c.arg, env |-> c.env,
                   from |-> z, out |-> x, k |-> y, done |-> c.done]
  <1>1. DOMAIN c = {"n", "via", "op", "arg", "env", "from", "out", "k", "done"}
    BY DEF IsCall
  <1>2. DOMAIN b = DOMAIN c /\ DOMAIN d = DOMAIN c
    BY <1>1
  <1>3. /\ b.n = c.n /\ b.via = c.via /\ b.op = c.op /\ b.arg = c.arg /\ b.env = c.env
        /\ b.from = z /\ b.out = x /\ b.k = y /\ b.done = c.done
    BY <1>1
  <1>4. b = [i \in DOMAIN b |-> b[i]]
    OBVIOUS
  <1> HIDE DEF b
  <1> QED BY <1>1, <1>2, <1>3, <1>4

\* A call of which a request was answered waits, advances or ends.
LEMMA ResumeForms ==
  ASSUME PageInv, page' = page, NEW c \in calls, NEW o \in c.out, NEW w, NEW O,
         O \subseteq Chained(P), Resume(c, o, w, O)
  PROVE  \E run : Waits(c, o, w, O, run) \/ Advances(c, o, w, O, run) \/ Ends(c, o, w, O, run)
  <1> DEFINE wait == Op(c.op).wait
             left == c.out \ {o}
             b1 == [c EXCEPT !.out = left]
             b2 == [c EXCEPT !.out = wait[c.k + 1], !.k = c.k + 1, !.from = Now(c.op)]
             ended == Merged(Op(c.op).end, Op(c.op).after)
  <1>1. FormRule(P) /\ CallOK(P, c)
    BY DEF PageInv
  <1>2. \A q \in O : q \in Ops /\ Async(q)
    BY <1>1, StartedAsync DEF Restarted
  <1>3. wait \in Seq(SUBSET Ops) /\ \A k \in DOMAIN wait : wait[k] # {}
    BY <1>1 DEF FormRule, CallOK, IsCall, Op, Ops
  <1>4. CASE left # {}
    <2>1. Render(w, O, c.arg, c.env, <<>>, (calls \ {c}) \cup {b1})
      BY <1>4 DEF Resume
    <2>2. b1 = [n |-> c.n, via |-> c.via, op |-> c.op, arg |-> c.arg, env |-> c.env,
                from |-> c.from, out |-> left, k |-> c.k, done |-> c.done]
      BY <1>1, CallChanged DEF CallOK, IsCall
    <2> HIDE DEF b1
    <2>3. Continues(b1, c) /\ b1.out = left /\ b1.k = c.k
      BY <1>1, <1>4, <2>2 DEF CallOK, IsCall, Continues
    <2>4. \E run : Follows(w, O, c.arg, c.env, <<>>, (calls \ {c}) \cup {b1}, run)
      BY <1>1, <1>2, <2>1, RenderFollows
    <2> QED BY <2>3, <2>4 DEF Waits
  <1>5. CASE left = {} /\ c.k < Len(wait)
    <2>1. Render(Before(w, wait[c.k + 1], c.arg, c.env), O, c.arg, c.env, <<>>, (calls \ {c}) \cup {b2})
      BY <1>5 DEF Resume
    <2>2. c.k \in Nat /\ c.k + 1 \in DOMAIN wait /\ c.k + 1 > 0 /\ c.k + 1 \in 0..Len(wait)
      BY <1>1, <1>3, <1>5 DEF CallOK, IsCall, Op
    <2>3. /\ b2.out = wait[c.k + 1] /\ b2.k = c.k + 1 /\ b2.from = Now(c.op) /\ b2.op = c.op
          /\ b2.arg = c.arg /\ b2.env = c.env
          /\ b2 = [n |-> b2.n, via |-> b2.via, op |-> b2.op, arg |-> b2.arg, env |-> b2.env,
                   from |-> b2.from, out |-> b2.out, k |-> b2.k, done |-> b2.done]
      <3>1. b2 = [n |-> c.n, via |-> c.via, op |-> c.op, arg |-> c.arg, env |-> c.env,
                  from |-> Now(c.op), out |-> wait[c.k + 1], k |-> c.k + 1, done |-> c.done]
        <4> DEFINE y == c.k + 1  x == wait[c.k + 1]  z == Now(c.op)
        <4> HIDE DEF x, y, z
        <4>1. IsCall(c)
          BY <1>1 DEF CallOK, IsCall
        <4>2. [c EXCEPT !.out = x, !.k = y, !.from = z] =
                [n |-> c.n, via |-> c.via, op |-> c.op, arg |-> c.arg, env |-> c.env,
                 from |-> z, out |-> x, k |-> y, done |-> c.done]
          BY <4>1, CallAdvanced
        <4> QED BY <4>2 DEF x, y, z
      <3> HIDE DEF b2
      <3> QED BY <3>1
    <2> HIDE DEF b2
    <2>4. Continues(b2, c)
      BY <1>1, <1>3, <2>2, <2>3 DEF CallOK, IsCall, Continues, Op
    <2>5. c.out = {o}
      BY <1>5
    <2>6. \E run : Follows(Before(w, b2.out, c.arg, c.env), O, c.arg, c.env, <<>>, (calls \ {c}) \cup {b2}, run)
      BY <1>1, <1>2, <2>1, <2>3, RenderFollows
    <2> QED BY <2>2, <2>3, <2>4, <2>5, <2>6 DEF Advances
  <1>6. CASE left = {} /\ ~(c.k < Len(wait))
    <2>1. Render(w, O, c.arg, c.env, ended, calls \ {c})
      BY <1>6 DEF Resume
    <2> HIDE DEF ended
    <2>2. \E run : Follows(w, O, c.arg, c.env, ended, calls \ {c}, run)
      BY <1>1, <1>2, <2>1, RenderFollows
    <2>3. c.out = {o} /\ c.k + 1 \notin DOMAIN wait
      BY <1>1, <1>3, <1>6 DEF CallOK, IsCall, Op
    <2> QED BY <2>2, <2>3 DEF Ends, ended
  <1> QED BY <1>4, <1>5, <1>6

\* The loads that a good answer starts are among those the table chains.
LEMMA GoneChained ==
  ASSUME NEW c, NEW o \in Ops
  PROVE  Gone(c, o) \subseteq Chained(P)
  BY DEF Gone, Chained, Op, Ops

\* A request is the handler's own or a load of the stage it awaits.
LEMMA OutOps ==
  ASSUME FormRule(P), NEW c, CallOK(P, c), NEW o \in c.out
  PROVE  /\ c.op \in Ops /\ o \in Ops
         /\ \/ o = c.op /\ c.k = 0 /\ Op(c.op).ask
            \/ o \in Awaited(P) /\ c.k \in DOMAIN Op(c.op).wait /\ o \in Op(c.op).wait[c.k]
  <1>1. Op(c.op).wait \in Seq(SUBSET Ops) /\ c.op \in Ops /\ c.k \in 0..Len(Op(c.op).wait)
    BY DEF FormRule, CallOK, IsCall, Op, Ops
  <1>2. CASE c.k = 0
    BY <1>1, <1>2 DEF CallOK, IsCall, Op
  <1>3. CASE c.k > 0
    <2>1. c.k \in DOMAIN Op(c.op).wait /\ o \in Op(c.op).wait[c.k]
      BY <1>1, <1>3 DEF CallOK, IsCall, Op
    <2>2. o \in Awaited(P)
      BY <1>1, <2>1 DEF Awaited, Op, Ops
    <2> QED BY <1>1, <2>1, <2>2
  <1> QED BY <1>1, <1>2, <1>3

\* The forms of an answer.
LEMMA AnswerForms ==
  ASSUME PageInv, NEW c \in calls, NEW o \in c.out, Answer(c, o)
  PROVE  \E run : LET w == Assign(ui, Done(c, o), c.arg, c.env)
                  IN  \/ Waits(c, o, w, Gone(c, o), run) \/ Advances(c, o, w, Gone(c, o), run)
                      \/ Ends(c, o, w, Gone(c, o), run)
  <1>1. o \in Ops
    BY OutOps DEF PageInv
  <1>2. page' = page /\ Resume(c, o, Assign(ui, Done(c, o), c.arg, c.env), Gone(c, o))
    BY DEF Answer
  <1>3. Gone(c, o) \subseteq Chained(P)
    BY <1>1, GoneChained
  <1> QED BY <1>2, <1>3, ResumeForms

\* The forms of a failure.
LEMMA FailForms ==
  ASSUME PageInv, NEW c \in calls, NEW o \in c.out, Fail(c, o)
  PROVE  \E run : \/ (Part(c, o) \/ o = c.op) /\ GivesUp(c, run)
                  \/ /\ ~Part(c, o) /\ o # c.op
                     /\ LET w == Assign(ui, Merged(Op(o).end, Op(o).bad), c.arg, c.env)
                        IN  \/ Waits(c, o, w, {}, run) \/ Advances(c, o, w, {}, run)
                            \/ Ends(c, o, w, {}, run)
  <1>1. page' = page
    BY DEF Fail
  <1>2. CASE Part(c, o)
    <2>1. Render(Assign(ui, Merged(Op(c.op).end, Op(c.op).bad), c.arg, c.env), {}, c.arg, c.env, <<>>, calls \ {c})
      BY <1>2 DEF Fail
    <2>2. \E run : GivesUp(c, run)
      BY <1>1, <2>1, RenderFollows DEF PageInv, GivesUp
    <2> QED BY <1>2, <2>2
  <1>3. CASE ~Part(c, o)
    <2>1. o # c.op
      BY <1>3 DEF Part
    <2>2. Resume(c, o, Assign(ui, Merged(Op(o).end, Op(o).bad), c.arg, c.env), {})
      BY <1>3, <2>1 DEF Fail
    <2>3. {} \subseteq Chained(P)
      OBVIOUS
    <2> QED BY <1>1, <1>3, <2>1, <2>2, <2>3, ResumeForms
  <1> QED BY <1>2, <1>3

-----------------------------------------------------------------------------
(* The steps of a page, in these forms.                                    *)

\* A click that is refused, one without a request, and one that sends a request.
LEMMA RefuseFollows ==
  ASSUME PageInv, NEW o, NEW a, Refuse(o, a)
  PROVE  \E run : Follows(Assign(ui, Op(o).refuse, a, Env(ui)), {}, a, Env(ui), <<>>, calls, run)
  BY RenderFollows DEF Refuse, PageInv

LEMMA LocalFollows ==
  ASSUME PageInv, NEW o, NEW a, Local(o, a)
  PROVE  \E run : Follows(Assign(ui, Op(o).ok, a, Env(ui)), {}, a, Env(ui), <<>>, calls, run)
  BY RenderFollows DEF Local, PageInv

LEMMA SendFollows ==
  ASSUME PageInv, NEW o \in Ops, NEW a, Send(o, a)
  PROVE  \E run : Follows(ui, {o}, a, Env(ui), <<>>, calls, run)
  <1>1. Render(ui, {o}, a, Env(ui), <<>>, calls) /\ Async(o) /\ page' = page
    BY DEF Send
  <1> QED BY <1>1, RenderFollows DEF PageInv

\* The server carries out a write; the call goes on with the same requests.
LEMMA ServeForm ==
  ASSUME PageInv, NEW c \in calls, NEW o \in c.out, Serve(c, o)
  PROVE  /\ page' = page /\ ui' = ui /\ blame' = blame
         /\ \E b : Continues(b, c) /\ b.out = c.out /\ b.k = c.k /\ b.from = c.from /\ calls' = (calls \ {c}) \cup {b}
  <1> DEFINE x == c.done \cup {o}
             b == [c EXCEPT !.done = x]
  <1>1. CallOK(P, c) /\ IsCall(c)
    BY DEF PageInv, CallOK
  <1>2. calls' = (calls \ {c}) \cup {b} /\ page' = page /\ ui' = ui /\ blame' = blame
    BY DEF Serve
  <1> HIDE DEF x
  <1>3. b = [n |-> c.n, via |-> c.via, op |-> c.op, arg |-> c.arg, env |-> c.env,
             from |-> c.from, out |-> c.out, k |-> c.k, done |-> x]
    BY <1>1, CallChanged
  <1> HIDE DEF b
  <1>4. Continues(b, c) /\ b.out = c.out /\ b.k = c.k /\ b.from = c.from
    BY <1>1, <1>3 DEF Continues, CallOK, IsCall
  <1> QED BY <1>2, <1>4

\* A click is on a handler of the page, which a panel offers and enables.
LEMMA ClickForm ==
  ASSUME PageInv, Click
  PROVE  \E p \in InFront : \E o \in DOMAIN p.offers : \E a \in Args(o) :
           /\ o \in Ops /\ p \in P.panels /\ Holds(ui, p.when, "none") /\ Holds(ui, p.offers[o], a)
           /\ Refuse(o, a) \/ Local(o, a) \/ Send(o, a)
  <1>1. PICK p \in InFront : \E o \in DOMAIN p.offers : \E a \in Args(o) :
           /\ Holds(ui, p.offers[o], a)
           /\ Refuse(o, a) \/ Local(o, a) \/ Send(o, a)
    BY DEF Click
  <1>2. p \in P.panels /\ Holds(ui, p.when, "none")
    BY DEF InFront, Visible
  <1>3. DOMAIN p.offers \subseteq Ops
    BY <1>2 DEF PageInv, FormRule, Ops
  <1> QED BY <1>1, <1>2, <1>3

\* Where the page goes on from a good state it is in one.
LEMMA FollowsPage ==
  ASSUME PageInv, NEW w, NEW O, NEW a, NEW e, NEW fin, NEW rest, NEW run,
         Follows(w, O, a, e, fin, rest, run),
         DOMAIN w = DOMAIN P.init, \A o \in O : o \in Ops /\ Async(o), \A c \in rest : CallOK(P, c)
  PROVE  PageInv'
  <1>1. P' = P /\ page' = page
    BY DEF P, Follows
  <1>2. ASSUME NEW c \in calls' PROVE CallOK(P, c)
    <2>1. CASE \E o \in O : New(c, o, a, e)
      BY <2>1, NewShape DEF PageInv
    <2>2. CASE \E o \in run : \E env : New(c, o, "none", env)
      <3>1. PICK o \in run : \E x, env : New(c, o, x, env)
        BY <2>2
      <3>2. o \in Restarted(P)
        BY DEF Follows
      <3>3. o \in Ops /\ Async(o)
        BY <3>2, StartedAsync DEF PageInv
      <3> QED BY <3>1, <3>3, NewShape DEF PageInv
    <2> QED BY <2>1, <2>2 DEF Follows
  <1>3. DOMAIN ui' = DOMAIN P.init
    BY DEF Follows
  <1> QED BY <1>1, <1>2, <1>3 DEF PageInv

\* So it is when a request was answered.
LEMMA ResumedPage ==
  ASSUME PageInv, NEW c \in calls, NEW o, NEW w, NEW O, NEW run, DOMAIN w = DOMAIN P.init,
         O \subseteq Chained(P),
         Waits(c, o, w, O, run) \/ Advances(c, o, w, O, run) \/ Ends(c, o, w, O, run)
  PROVE  PageInv'
  <1>1. \A q \in O : q \in Ops /\ Async(q)
    BY StartedAsync DEF Restarted, PageInv
  <1>2. \A d \in calls : CallOK(P, d)
    BY DEF PageInv
  <1>3. CASE Waits(c, o, w, O, run)
    <2>1. PICK b : /\ Continues(b, c)
                   /\ Follows(w, O, c.arg, c.env, <<>>, (calls \ {c}) \cup {b}, run)
      BY <1>3 DEF Waits
    <2>2. \A d \in (calls \ {c}) \cup {b} : CallOK(P, d)
      BY <1>2, <2>1 DEF Continues
    <2> QED BY <1>1, <2>1, <2>2, FollowsPage
  <1>4. CASE Advances(c, o, w, O, run)
    <2>1. PICK b : /\ Continues(b, c)
                   /\ Follows(Before(w, b.out, c.arg, c.env), O, c.arg, c.env, <<>>, (calls \ {c}) \cup {b}, run)
      BY <1>4 DEF Advances
    <2>2. \A d \in (calls \ {c}) \cup {b} : CallOK(P, d)
      BY <1>2, <2>1 DEF Continues
    <2>3. DOMAIN Before(w, b.out, c.arg, c.env) = DOMAIN P.init
      BY BeforeSlot
    <2> QED BY <1>1, <2>1, <2>2, <2>3, FollowsPage
  <1>5. CASE Ends(c, o, w, O, run)
    <2>1. Follows(w, O, c.arg, c.env, Merged(Op(c.op).end, Op(c.op).after), calls \ {c}, run)
      BY <1>5 DEF Ends
    <2>2. \A d \in calls \ {c} : CallOK(P, d)
      BY <1>2
    <2> QED BY <1>1, <2>1, <2>2, FollowsPage
  <1> QED BY <1>3, <1>4, <1>5

\* A page stays open.
LEMMA SamePage ==
  ASSUME [Next]_vars
  PROVE  page' = page /\ P' = P
  <1>1. page' = page
    BY DEF Next, Click, Refuse, Local, Send, Serve, Reply, Answer, Fail, Tick, Foreign, vars
  <1> QED BY <1>1 DEF P

LEMMA NextPage ==
  ASSUME PageInv, [Next]_vars
  PROVE  PageInv'
  <1>1. \A d \in calls : CallOK(P, d)
    BY DEF PageInv
  <1>2. DOMAIN ui = DOMAIN P.init /\ FormRule(P)
    BY DEF PageInv
  <1>3. CASE Click
    <2>0. PICK o \in Ops : \E a : Refuse(o, a) \/ Local(o, a) \/ Send(o, a)
      BY <1>3, ClickForm
    <2>1. PICK a : Refuse(o, a) \/ Local(o, a) \/ Send(o, a)
      BY <2>0
    <2>2. CASE Refuse(o, a)
      <3> DEFINE w == Assign(ui, Op(o).refuse, a, Env(ui))
      <3>1. DOMAIN w = DOMAIN P.init
        BY <1>2, AssignSlot
      <3> HIDE DEF w
      <3>2. PICK run : Follows(w, {}, a, Env(ui), <<>>, calls, run)
        BY <2>2, RefuseFollows DEF w
      <3> QED BY <1>1, <3>1, <3>2, FollowsPage
    <2>3. CASE Local(o, a)
      <3> DEFINE w == Assign(ui, Op(o).ok, a, Env(ui))
      <3>1. DOMAIN w = DOMAIN P.init
        BY <1>2, AssignSlot
      <3> HIDE DEF w
      <3>2. PICK run : Follows(w, {}, a, Env(ui), <<>>, calls, run)
        BY <2>3, LocalFollows DEF w
      <3> QED BY <1>1, <3>1, <3>2, FollowsPage
    <2>4. CASE Send(o, a)
      <3>1. PICK run : Follows(ui, {o}, a, Env(ui), <<>>, calls, run)
        BY <2>4, SendFollows
      <3>2. Async(o)
        BY <2>4 DEF Send
      <3> QED BY <1>1, <1>2, <3>1, <3>2, FollowsPage
    <2> QED BY <2>1, <2>2, <2>3, <2>4
  <1>4. ASSUME NEW c \in calls, NEW o \in c.out, Answer(c, o)
        PROVE  PageInv'
    <2> DEFINE w == Assign(ui, Done(c, o), c.arg, c.env)
    <2>1. DOMAIN w = DOMAIN P.init
      BY <1>2, AssignSlot
    <2>2. \E run : \/ Waits(c, o, w, Gone(c, o), run) \/ Advances(c, o, w, Gone(c, o), run)
                   \/ Ends(c, o, w, Gone(c, o), run)
      BY <1>4, AnswerForms
    <2>3. Gone(c, o) \subseteq Chained(P)
      BY <1>1, <1>2, OutOps, GoneChained
    <2> HIDE DEF w
    <2> QED BY <2>1, <2>2, <2>3, ResumedPage
  <1>5. ASSUME NEW c \in calls, NEW o \in c.out, Fail(c, o)
        PROVE  PageInv'
    <2> DEFINE w == Assign(ui, Merged(Op(o).end, Op(o).bad), c.arg, c.env)
               v == Assign(ui, Merged(Op(c.op).end, Op(c.op).bad), c.arg, c.env)
    <2>1. DOMAIN w = DOMAIN P.init /\ DOMAIN v = DOMAIN P.init
      BY <1>2, AssignSlot
    <2>2. PICK run : \/ GivesUp(c, run)
                     \/ Waits(c, o, w, {}, run) \/ Advances(c, o, w, {}, run) \/ Ends(c, o, w, {}, run)
      BY <1>5, FailForms
    <2>3. GivesUp(c, run) => Follows(v, {}, c.arg, c.env, <<>>, calls \ {c}, run)
      BY DEF GivesUp
    <2> HIDE DEF w, v
    <2>4. CASE GivesUp(c, run)
      BY <1>1, <2>1, <2>3, <2>4, FollowsPage
    <2>5. {} \subseteq Chained(P)
      OBVIOUS
    <2>6. CASE Waits(c, o, w, {}, run) \/ Advances(c, o, w, {}, run) \/ Ends(c, o, w, {}, run)
      BY <2>1, <2>5, <2>6, ResumedPage
    <2> QED BY <2>2, <2>4, <2>6
  <1>6. ASSUME NEW c \in calls, NEW o \in c.out, Serve(c, o)
        PROVE  PageInv'
    <2>1. PICK b : Continues(b, c) /\ calls' = (calls \ {c}) \cup {b}
      BY <1>6, ServeForm
    <2>2. page' = page /\ ui' = ui /\ P' = P
      BY <1>6, ServeForm DEF P
    <2> QED BY <1>1, <2>1, <2>2 DEF PageInv, Continues
  <1>7. ASSUME NEW t \in P.timers, Tick(t)
        PROVE  PageInv'
    <2>1. Follows(ui, {t.run}, "none", Env(ui), <<>>, calls, {})
      BY <1>2, <1>7, TickFollows
    <2>2. t.run \in Restarted(P)
      BY DEF Restarted, Polled
    <2>3. t.run \in Ops /\ Async(t.run)
      BY <1>2, <2>2, StartedAsync
    <2>4. \E a, e : Follows(ui, {t.run}, a, e, <<>>, calls, {})
      BY <2>1
    <2> QED BY <1>1, <1>2, <2>3, <2>4, FollowsPage
  <1>8. CASE UNCHANGED vars \/ \E d \in Lists : Foreign(d)
    BY <1>8 DEF PageInv, vars, Foreign, P
  <1> QED BY <1>3, <1>4, <1>5, <1>6, <1>7, <1>8 DEF Next, Reply

\* A page that was just opened has started the loads of its effects.
LEMMA InitForm ==
  ASSUME Init, FormRule(P)
  PROVE  /\ PageInv
         /\ Mounted(page) \subseteq Effected(P)
         /\ \A o \in Mounted(page) : \E c \in calls : Begun(c, o)
         /\ \A c \in calls : \E o \in Mounted(page) : New(c, o, "none", Env(P.init))
         /\ \A s \in DOMAIN P.init :
              \/ /\ \A o \in Opening(Mounted(page)) : s \notin DOMAIN Op(o).pre
                 /\ ui[s] = P.init[s]
              \/ \E o \in Opening(Mounted(page)) :
                   s \in DOMAIN Op(o).pre /\ ui[s] = Value(Op(o).pre[s], P.init[s], "none", Was(Env(P.init), s))
  <1> DEFINE M == Mounted(page)
             e == Env(P.init)
  <1>1. /\ page \in DOMAIN Pages
        /\ ui = Before(P.init, Opening(M), "none", e)
        /\ calls = {Call(1, "effect", o, "none", e) : o \in M}
    BY DEF Init
  <1>2. M \subseteq Effected(P)
    BY DEF Mounted, Effected, P
  <1> HIDE DEF M, e
  <1>3. \A o \in M : o \in Ops /\ Async(o)
    BY <1>2, StartedAsync
  <1>4. \A o \in M : New(Call(1, "effect", o, "none", e), o, "none", e)
    BY DEF New
  <1>5. ASSUME NEW c \in calls PROVE \E o \in M : New(c, o, "none", e) /\ CallOK(P, c) /\ Begun(c, o)
    <2>1. PICK o \in M : c = Call(1, "effect", o, "none", e)
      BY <1>1
    <2>2. New(c, o, "none", e)
      BY <1>4, <2>1
    <2>3. \E x, y : New(c, o, x, y)
      BY <2>2
    <2>4. CallOK(P, c) /\ Begun(c, o)
      BY <1>3, <2>3, NewShape
    <2> QED BY <2>2, <2>4
  <1>6. ASSUME NEW o \in M PROVE \E c \in calls : Begun(c, o)
    <2> DEFINE c == Call(1, "effect", o, "none", e)
    <2>1. c \in calls
      BY <1>1
    <2>2. \E x, y : New(c, o, x, y)
      BY <1>4
    <2> HIDE DEF c
    <2>3. CallOK(P, c) /\ Begun(c, o)
      BY <1>3, <2>2, NewShape
    <2> QED BY <2>1, <2>3
  <1>7. /\ DOMAIN ui = DOMAIN P.init
        /\ \A s \in DOMAIN P.init :
              \/ /\ \A o \in Opening(M) : s \notin DOMAIN Op(o).pre
                 /\ ui[s] = P.init[s]
              \/ \E o \in Opening(M) :
                   s \in DOMAIN Op(o).pre /\ ui[s] = Value(Op(o).pre[s], P.init[s], "none", Was(e, s))
    <2> DEFINE O == Opening(M)  u == P.init  x == "none"
    <2> HIDE DEF O, u, x
    <2>1. ui = Before(u, O, x, e)
      BY <1>1 DEF O, u, x
    <2>2. /\ DOMAIN Before(u, O, x, e) = DOMAIN u
          /\ \A s \in DOMAIN u :
              \/ (\A o \in O : s \notin DOMAIN Op(o).pre) /\ Before(u, O, x, e)[s] = u[s]
              \/ \E o \in O : /\ s \in DOMAIN Op(o).pre
                              /\ Before(u, O, x, e)[s] = Value(Op(o).pre[s], u[s], x, Was(e, s))
      BY BeforeSlot
    <2> QED BY <2>1, <2>2 DEF O, u, x
  <1>8. PageInv
    BY <1>1, <1>5, <1>7 DEF PageInv
  <1>9. \A c \in calls : \E o \in M : New(c, o, "none", e)
    BY <1>5
  <1> QED BY <1>2, <1>6, <1>7, <1>8, <1>9 DEF M, e

-----------------------------------------------------------------------------
(* Busy flags.                                                             *)

Down == {"off", "none"}
Flags(T) == T.flags \cup T.rowFlags

\* The call c lowers flag f when it ends, or one of the loads it awaits does and
\* nothing can make the call give up before.
Keeps(T, c, f) ==
  \/ OpLowers(T, c.op, f)
  \/ /\ \E o \in c.out : f \in DOMAIN T.ops[o].end
     /\ \A o \in c.out : o # c.op /\ T.ops[o].put = {}

\* A flag that is up is kept by a call.
FlagInv ==
  /\ FlagRule(P)
  /\ \A f \in Flags(P) : ui[f] \notin Down => \E c \in calls : Keeps(P, c, f)

\* Lowering a flag lowers it.
LEMMA ValueDown ==
  ASSUME NEW v \in Down, NEW x, NEW a, NEW y
  PROVE  Value(v, x, a, y) \in Down
  BY DEF Value, Down

\* A handler that starts and raises a flag, by itself or by its first loads, keeps it.
LEMMA OpenedKeeps ==
  ASSUME FlagRule(P), FormRule(P), NEW f \in Flags(P), NEW c, CallOK(P, c), c.out = First(c.op),
         NEW o \in {c.op} \cup First(c.op), f \in DOMAIN Op(o).pre
  PROVE  Keeps(P, c, f)
  <1>1. c.op \in DOMAIN P.ops
    BY DEF CallOK
  <1>2. CASE o = c.op
    BY <1>1, <1>2 DEF FlagRule, Flags, Keeps, Op
  <1>3. CASE ~Op(c.op).ask /\ o \in Op(c.op).wait[1]
    <2>1. Op(c.op).wait \in Seq(SUBSET Ops) /\ c.k \in 0..Len(Op(c.op).wait) /\ c.k # 0
      BY <1>1, <1>3 DEF FormRule, CallOK, Op, Ops
    <2>2. 1 \in DOMAIN P.ops[c.op].wait
      BY <2>1 DEF Op
    <2>3. StageLowers(P, c.op, 1, f)
      BY <1>1, <1>3, <2>2 DEF FlagRule, Flags, Op
    <2>4. c.out = P.ops[c.op].wait[1]
      BY <1>3 DEF First, Op
    <2> QED BY <2>3, <2>4 DEF StageLowers, Keeps
  <1>4. o = c.op \/ (~Op(c.op).ask /\ o \in Op(c.op).wait[1])
    BY DEF First
  <1> QED BY <1>2, <1>3, <1>4

\* Where the page goes on, a flag is kept if it was before.
LEMMA FollowsFlag ==
  ASSUME FlagRule(P), FormRule(P), NEW w, NEW O, NEW a, NEW e, NEW fin, NEW rest, NEW run,
         Follows(w, O, a, e, fin, rest, run),
         NEW f \in Flags(P), f \in DOMAIN w, f \in DOMAIN fin => fin[f] \in Down,
         w[f] \notin Down /\ f \notin DOMAIN fin => \E c \in rest : Keeps(P, c, f)
  PROVE  ui'[f] \notin Down => \E c \in calls' : Keeps(P, c, f)
  <1>1. ASSUME NEW o \in Opening(O) \cup Opening(run), f \in DOMAIN Op(o).pre
        PROVE  \E c \in calls' : Keeps(P, c, f)
    <2>1. PICK q \in O \cup run : o \in {q} \cup First(q)
      BY <1>1 DEF Opening
    <2>2. PICK c \in calls' : c.op = q /\ c.out = First(q) /\ CallOK(P, c)
      BY <2>1 DEF Follows, Begun
    <2>3. o \in {c.op} \cup First(c.op) /\ c.out = First(c.op)
      BY <2>1, <2>2
    <2>4. Keeps(P, c, f)
      BY <1>1, <2>2, <2>3, OpenedKeeps
    <2> QED BY <2>4
  <1>2. CASE f \in DOMAIN fin /\ \E x, y : ui'[f] = Value(fin[f], x, a, y)
    BY <1>2, ValueDown
  <1>3. CASE f \notin DOMAIN fin /\ ui'[f] = w[f]
    BY <1>3 DEF Follows
  <1>4. \/ \E o \in Opening(O) \cup Opening(run) : f \in DOMAIN Op(o).pre
        \/ f \in DOMAIN fin /\ \E x, y : ui'[f] = Value(fin[f], x, a, y)
        \/ f \notin DOMAIN fin /\ ui'[f] = w[f]
    BY DEF Follows
  <1> QED BY <1>1, <1>2, <1>3, <1>4

\* Assignments that only lower flags leave a flag up only if it was.
LEMMA AssignFlag ==
  ASSUME NEW u, NEW as, NEW a, NEW e, NEW f \in DOMAIN u, f \in DOMAIN as => as[f] \in Down,
         Assign(u, as, a, e)[f] \notin Down
  PROVE  u[f] \notin Down /\ f \notin DOMAIN as
  <1>1. Assign(u, as, a, e)[f] = IF f \in DOMAIN as THEN Value(as[f], u[f], a, Was(e, f)) ELSE u[f]
    BY DEF Assign
  <1>2. f \in DOMAIN as => Value(as[f], u[f], a, Was(e, f)) \in Down
    BY ValueDown
  <1> QED BY <1>1, <1>2

\* A call that goes on after a request was answered keeps the flags that the answer
\* has not lowered; a call that ends has lowered its flags.
LEMMA ResumedFlag ==
  ASSUME PageInv, FlagInv, NEW c \in calls, NEW o \in c.out, NEW as, NEW O, NEW run,
         NEW f \in Flags(P), f \in DOMAIN as => as[f] \in Down,
         o # c.op /\ Op(o).put = {} /\ f \in DOMAIN Op(o).end => f \in DOMAIN as,
         o = c.op /\ f \in DOMAIN Op(o).ok => f \in DOMAIN as,
         LET w == Assign(ui, as, c.arg, c.env)
         IN  Waits(c, o, w, O, run) \/ Advances(c, o, w, O, run) \/ Ends(c, o, w, O, run)
  PROVE  ui'[f] \notin Down => \E d \in calls' : Keeps(P, d, f)
  <1> DEFINE w == Assign(ui, as, c.arg, c.env)
  <1>1. f \in DOMAIN ui /\ FormRule(P) /\ FlagRule(P) /\ CallOK(P, c)
    BY DEF PageInv, FlagInv, Flags, FormRule
  <1>2. DOMAIN w = DOMAIN ui /\ (w[f] \notin Down => ui[f] \notin Down /\ f \notin DOMAIN as)
    <2>1. DOMAIN w = DOMAIN ui
      BY DEF Assign
    <2>2. ASSUME w[f] \notin Down PROVE ui[f] \notin Down /\ f \notin DOMAIN as
      BY <1>1, <2>2, AssignFlag
    <2> QED BY <2>1, <2>2
  <1> HIDE DEF w
  <1>3. w[f] \notin Down => \E d \in calls : Keeps(P, d, f)
    BY <1>2 DEF FlagInv
  <1>4. CASE Waits(c, o, w, O, run)
    <2>1. PICK b : /\ Continues(b, c) /\ b.out = c.out \ {o}
                   /\ Follows(w, O, c.arg, c.env, <<>>, (calls \ {c}) \cup {b}, run)
      BY <1>4 DEF Waits
    <2>2. w[f] \notin Down /\ Keeps(P, c, f) => Keeps(P, b, f)
      BY <1>2, <2>1 DEF Keeps, Continues, Op
    <2>3. w[f] \notin Down => \E d \in (calls \ {c}) \cup {b} : Keeps(P, d, f)
      BY <1>3, <2>2
    <2> QED BY <1>1, <1>2, <2>1, <2>3, FollowsFlag
  <1>5. CASE Advances(c, o, w, O, run)
    <2>1. PICK b : /\ Continues(b, c) /\ b.out = Op(c.op).wait[c.k + 1]
                   /\ Follows(Before(w, b.out, c.arg, c.env), O, c.arg, c.env, <<>>, (calls \ {c}) \cup {b}, run)
      BY <1>5 DEF Advances
    <2>2. c.out = {o} /\ c.k + 1 \in DOMAIN Op(c.op).wait /\ c.op \in DOMAIN P.ops
      BY <1>1, <1>5 DEF Advances, CallOK
    <2> DEFINE v == Before(w, b.out, c.arg, c.env)
    <2>3. DOMAIN v = DOMAIN w /\ (v[f] = w[f] \/ \E l \in b.out : f \in DOMAIN Op(l).pre)
      BY <1>1, <1>2, BeforeSlot
    <2> HIDE DEF v
    <2>4. (\E l \in b.out : f \in DOMAIN Op(l).pre) => Keeps(P, b, f)
      <3>1. SUFFICES ASSUME \E l \in b.out : f \in DOMAIN Op(l).pre
                     PROVE  Keeps(P, b, f)
        OBVIOUS
      <3>2. StageLowers(P, c.op, c.k + 1, f)
        BY <1>1, <2>1, <2>2, <3>1 DEF FlagRule, Flags, Op
      <3> QED BY <2>1, <3>2 DEF StageLowers, Keeps, Continues, Op
    <2>5. w[f] \notin Down /\ Keeps(P, c, f) => Keeps(P, b, f)
      BY <1>2, <2>1, <2>2 DEF Keeps, Continues, Op
    <2>6. v[f] \notin Down => \E d \in (calls \ {c}) \cup {b} : Keeps(P, d, f)
      BY <1>3, <2>3, <2>4, <2>5
    <2>7. Follows(v, O, c.arg, c.env, <<>>, (calls \ {c}) \cup {b}, run)
      BY <2>1 DEF v
    <2> QED BY <1>1, <1>2, <2>3, <2>6, <2>7, FollowsFlag
  <1>6. CASE Ends(c, o, w, O, run)
    <2> DEFINE fin == Merged(Op(c.op).end, Op(c.op).after)
    <2>1. c.out = {o} /\ Follows(w, O, c.arg, c.env, fin, calls \ {c}, run) /\ c.op \in DOMAIN P.ops
      BY <1>1, <1>6 DEF Ends, CallOK
    <2>2. DOMAIN fin = DOMAIN Op(c.op).end \cup DOMAIN Op(c.op).after
      BY DEF Merged
    <2>3. f \in DOMAIN fin => fin[f] \in Down
      BY <1>1, <2>1 DEF Merged, FlagRule, Flags, Later, Op, Down
    <2> HIDE DEF fin
    <2>4. ASSUME w[f] \notin Down, f \notin DOMAIN fin, Keeps(P, c, f)
          PROVE  FALSE
      <3>1. CASE OpLowers(P, c.op, f)
        <4>1. f \in DOMAIN Op(c.op).ok /\ Op(c.op).ask /\ Op(c.op).wait = <<>>
          BY <2>2, <2>4, <3>1 DEF OpLowers, Op
        <4>2. c.out = {c.op}
          BY <1>1, <4>1 DEF CallOK, Op
        <4> QED BY <1>2, <2>1, <2>4, <4>1, <4>2
      <3>2. CASE ~OpLowers(P, c.op, f)
        BY <1>2, <2>1, <2>4, <3>2 DEF Keeps, Op
      <3> QED BY <3>1, <3>2
    <2>5. w[f] \notin Down /\ f \notin DOMAIN fin => \E d \in calls \ {c} : Keeps(P, d, f)
      BY <1>3, <2>4
    <2> QED BY <1>1, <1>2, <2>1, <2>3, <2>5, FollowsFlag
  <1> QED BY <1>4, <1>5, <1>6 DEF w

LEMMA NextFlag ==
  ASSUME PageInv, FlagInv, [Next]_vars
  PROVE  FlagInv'
  <1>1. P' = P /\ FlagRule(P) /\ FormRule(P)
    BY SamePage DEF FlagInv, PageInv
  <1>2. SUFFICES ASSUME NEW f \in Flags(P)
                 PROVE  ui'[f] \notin Down => \E c \in calls' : Keeps(P, c, f)
    BY <1>1 DEF FlagInv
  <1>3. f \in DOMAIN ui /\ (ui[f] \notin Down => \E c \in calls : Keeps(P, c, f))
    BY <1>1 DEF PageInv, FlagInv, FormRule, Flags
  <1>4. \A o \in Ops : \A as \in Later(Op(o)) : f \in DOMAIN as => as[f] \in Down
    BY <1>1 DEF FlagRule, Flags, Ops, Op, Down
  <1>5. f \notin DOMAIN <<>>
    OBVIOUS
  <1>6. CASE Click
    <2>0. PICK o \in Ops : \E a : Refuse(o, a) \/ Local(o, a) \/ Send(o, a)
      BY <1>6, ClickForm
    <2>1. PICK a : Refuse(o, a) \/ Local(o, a) \/ Send(o, a)
      BY <2>0
    <2>2. ASSUME NEW as \in Later(Op(o)), NEW run,
                 Follows(Assign(ui, as, a, Env(ui)), {}, a, Env(ui), <<>>, calls, run)
          PROVE  ui'[f] \notin Down => \E c \in calls' : Keeps(P, c, f)
      <3> DEFINE w == Assign(ui, as, a, Env(ui))
      <3>1. DOMAIN w = DOMAIN ui
        BY DEF Assign
      <3>2. ASSUME w[f] \notin Down PROVE ui[f] \notin Down
        BY <1>3, <1>4, <3>2, AssignFlag
      <3> HIDE DEF w
      <3>3. Follows(w, {}, a, Env(ui), <<>>, calls, run)
        BY <2>2 DEF w
      <3> QED BY <1>1, <1>3, <1>5, <3>1, <3>2, <3>3, FollowsFlag
    <2>3. CASE Refuse(o, a)
      BY <2>2, <2>3, RefuseFollows DEF Later
    <2>4. CASE Local(o, a)
      BY <2>2, <2>4, LocalFollows DEF Later
    <2>5. CASE Send(o, a)
      <3>1. PICK run : Follows(ui, {o}, a, Env(ui), <<>>, calls, run)
        BY <2>5, SendFollows
      <3> QED BY <1>1, <1>3, <1>5, <3>1, FollowsFlag
    <2> QED BY <2>1, <2>3, <2>4, <2>5
  <1>7. ASSUME NEW c \in calls, NEW o \in c.out, Answer(c, o)
        PROVE  ui'[f] \notin Down => \E d \in calls' : Keeps(P, d, f)
    <2>1. o \in Ops
      BY <1>1, OutOps DEF PageInv
    <2> DEFINE as == Done(c, o)
    <2>2. /\ f \in DOMAIN as => as[f] \in Down
          /\ o # c.op /\ Op(o).put = {} /\ f \in DOMAIN Op(o).end => f \in DOMAIN as
          /\ o = c.op /\ f \in DOMAIN Op(o).ok => f \in DOMAIN as
      <3>1. (f \in DOMAIN Op(o).ok => Op(o).ok[f] \in Down) /\ (f \in DOMAIN Op(o).end => Op(o).end[f] \in Down)
        BY <1>4, <2>1 DEF Later
      <3> QED BY <3>1 DEF Done, Merged, Part, Down
    <2> HIDE DEF as
    <2>3. PICK run : LET w == Assign(ui, as, c.arg, c.env)
                     IN  \/ Waits(c, o, w, Gone(c, o), run) \/ Advances(c, o, w, Gone(c, o), run)
                         \/ Ends(c, o, w, Gone(c, o), run)
      BY <1>7, AnswerForms DEF as
    <2> QED BY <2>2, <2>3, ResumedFlag
  <1>8. ASSUME NEW c \in calls, NEW o \in c.out, Fail(c, o)
        PROVE  ui'[f] \notin Down => \E d \in calls' : Keeps(P, d, f)
    <2>1. o \in Ops /\ c.op \in Ops /\ CallOK(P, c)
      BY <1>1, OutOps DEF PageInv
    <2>2. PICK run : \/ (Part(c, o) \/ o = c.op) /\ GivesUp(c, run)
                     \/ /\ ~Part(c, o) /\ o # c.op
                        /\ LET w == Assign(ui, Merged(Op(o).end, Op(o).bad), c.arg, c.env)
                           IN  \/ Waits(c, o, w, {}, run) \/ Advances(c, o, w, {}, run)
                               \/ Ends(c, o, w, {}, run)
      BY <1>8, FailForms
    <2>3. ASSUME NEW q \in Ops
          PROVE  LET as == Merged(Op(q).end, Op(q).bad)
                 IN  /\ DOMAIN as = DOMAIN Op(q).end \cup DOMAIN Op(q).bad
                     /\ f \in DOMAIN as => as[f] \in Down
      <3>1. (f \in DOMAIN Op(q).bad => Op(q).bad[f] \in Down) /\ (f \in DOMAIN Op(q).end => Op(q).end[f] \in Down)
        BY <1>4 DEF Later
      <3> QED BY <3>1 DEF Merged
    <2>4. CASE /\ ~Part(c, o) /\ o # c.op
               /\ LET w == Assign(ui, Merged(Op(o).end, Op(o).bad), c.arg, c.env)
                  IN  \/ Waits(c, o, w, {}, run) \/ Advances(c, o, w, {}, run)
                      \/ Ends(c, o, w, {}, run)
      <3> DEFINE as == Merged(Op(o).end, Op(o).bad)
      <3>1. DOMAIN as = DOMAIN Op(o).end \cup DOMAIN Op(o).bad /\ (f \in DOMAIN as => as[f] \in Down)
        BY <2>1, <2>3
      <3> HIDE DEF as
      <3>2. LET w == Assign(ui, as, c.arg, c.env)
            IN  Waits(c, o, w, {}, run) \/ Advances(c, o, w, {}, run) \/ Ends(c, o, w, {}, run)
        BY <2>2, <2>4 DEF as
      <3> QED BY <2>4, <3>1, <3>2, ResumedFlag
    <2>5. CASE (Part(c, o) \/ o = c.op) /\ GivesUp(c, run)
      <3> DEFINE as == Merged(Op(c.op).end, Op(c.op).bad)
                 w == Assign(ui, as, c.arg, c.env)
      <3>1. DOMAIN as = DOMAIN Op(c.op).end \cup DOMAIN Op(c.op).bad /\ (f \in DOMAIN as => as[f] \in Down)
        BY <2>1, <2>3
      <3> HIDE DEF as
      <3>2. DOMAIN w = DOMAIN ui
        BY DEF Assign
      <3>3. ASSUME w[f] \notin Down PROVE ui[f] \notin Down /\ f \notin DOMAIN as
        BY <1>3, <3>1, <3>3, AssignFlag
      <3> HIDE DEF w
      <3>4. Follows(w, {}, c.arg, c.env, <<>>, calls \ {c}, run)
        BY <2>5 DEF GivesUp, w, as
      <3>5. ASSUME w[f] \notin Down, Keeps(P, c, f) PROVE FALSE
        <4>1. f \notin DOMAIN Op(c.op).end \cup DOMAIN Op(c.op).bad
          BY <3>1, <3>3, <3>5
        <4>2. OpLowers(P, c.op, f)
          BY <2>5, <3>5 DEF Keeps, Part, Op
        <4>3. /\ ~Op(c.op).ask
              /\ \A k \in DOMAIN Op(c.op).wait : \A l \in Op(c.op).wait[k] : l # c.op /\ Op(l).put = {}
          BY <4>1, <4>2 DEF OpLowers, Op
        <4>4. c.k \in DOMAIN Op(c.op).wait /\ o \in Op(c.op).wait[c.k]
          BY <1>1, <2>1, <4>3, OutOps
        <4> QED BY <2>5, <4>3, <4>4 DEF Part
      <3>6. w[f] \notin Down => \E d \in calls \ {c} : Keeps(P, d, f)
        BY <1>3, <3>3, <3>5
      <3> QED BY <1>1, <1>3, <1>5, <3>2, <3>4, <3>6, FollowsFlag
    <2> QED BY <2>2, <2>4, <2>5
  <1>9. ASSUME NEW c \in calls, NEW o \in c.out, Serve(c, o)
        PROVE  ui'[f] \notin Down => \E d \in calls' : Keeps(P, d, f)
    <2>1. PICK b : Continues(b, c) /\ b.out = c.out /\ calls' = (calls \ {c}) \cup {b}
      BY <1>9, ServeForm
    <2>2. ui' = ui
      BY <1>9, ServeForm
    <2>3. Keeps(P, c, f) => Keeps(P, b, f)
      BY <2>1 DEF Keeps, Continues
    <2> QED BY <1>3, <2>1, <2>2, <2>3
  <1>10. ASSUME NEW t \in P.timers, Tick(t)
         PROVE  ui'[f] \notin Down => \E d \in calls' : Keeps(P, d, f)
    <2>1. PICK O, a, e, run : Follows(ui, O, a, e, <<>>, calls, run)
      BY <1>1, <1>10, TickFollows
    <2> QED BY <1>1, <1>3, <1>5, <2>1, FollowsFlag
  <1>11. CASE UNCHANGED vars \/ \E d \in Lists : Foreign(d)
    BY <1>3, <1>11 DEF vars, Foreign
  <1> QED BY <1>6, <1>7, <1>8, <1>9, <1>10, <1>11 DEF Next, Reply

LEMMA InitFlag ==
  ASSUME Init, FormRule(P), FlagRule(P)
  PROVE  FlagInv
  <1>1. /\ PageInv /\ Mounted(page) \subseteq Effected(P)
        /\ \A o \in Mounted(page) : \E c \in calls : Begun(c, o)
    BY InitForm
  <1>2. SUFFICES ASSUME NEW f \in Flags(P), ui[f] \notin Down
                 PROVE  \E c \in calls : Keeps(P, c, f)
    BY DEF FlagInv
  <1>3. f \in DOMAIN P.init
    BY DEF FormRule, Flags
  <1>4. CASE \E o \in Opening(Mounted(page)) : f \in DOMAIN Op(o).pre
    <2>1. PICK q \in Mounted(page) : \E o \in {q} \cup First(q) : f \in DOMAIN Op(o).pre
      BY <1>4 DEF Opening
    <2>2. PICK c \in calls : c.op = q /\ c.out = First(q)
      BY <1>1 DEF Begun
    <2>3. CallOK(P, c)
      BY <1>1 DEF PageInv
    <2> QED BY <2>1, <2>2, <2>3, OpenedKeeps
  <1>5. CASE ui[f] = P.init[f]
    <2>1. PICK e \in P.effects : /\ Holds(P.init, e.when, "none")
                                 /\ \E o \in e.runs : OpLowers(P, o, f) \/ (~P.ops[o].ask /\ StageLowers(P, o, 1, f))
      BY <1>2, <1>5 DEF FlagRule, Flags, Down
    <2>2. PICK o \in e.runs : OpLowers(P, o, f) \/ (~P.ops[o].ask /\ StageLowers(P, o, 1, f))
      BY <2>1
    <2>3. o \in Mounted(page)
      BY <2>1, <2>2 DEF Mounted, P
    <2>4. PICK c \in calls : Begun(c, o)
      BY <1>1, <2>3
    <2>5. ~P.ops[o].ask => First(o) = P.ops[o].wait[1]
      BY DEF First, Op
    <2> QED BY <2>2, <2>4, <2>5 DEF Keeps, StageLowers, Begun
  <1> QED BY <1>3, <1>4, <1>5, InitForm

\* A busy flag is up only while a handler is in progress that takes it down again, on
\* every page whose table follows the rule for flags (handlers with try, catch and
\* finally; Promise.all of loads): no order of clicks, answers, failures, polls and
\* effects leaves a button disabled or a page on "loading" for ever.
THEOREM FlagsHeld ==
  (\A p \in DOMAIN Pages : FormRule(Pages[p]) /\ FlagRule(Pages[p])) => (Spec => []FlagHeld)
  <1> DEFINE Rules == \A p \in DOMAIN Pages : FormRule(Pages[p]) /\ FlagRule(Pages[p])
  <1>1. Rules /\ Init => PageInv /\ FlagInv
    <2>1. SUFFICES ASSUME Rules, Init PROVE PageInv /\ FlagInv
      OBVIOUS
    <2>2. FormRule(P) /\ FlagRule(P)
      BY <2>1 DEF P, Init
    <2> QED BY <2>1, <2>2, InitForm, InitFlag
  <1>2. PageInv /\ FlagInv /\ [Next]_vars => PageInv' /\ FlagInv'
    BY NextPage, NextFlag
  <1>3. FlagInv => FlagHeld
    <2>1. SUFFICES ASSUME FlagInv, NEW f \in P.flags \cup P.rowFlags, ui[f] \notin {"off", "none"}
                   PROVE  \E c \in calls : \E o \in {c.op} \cup c.out : Lowers(o, f)
      BY DEF FlagHeld
    <2>2. PICK c \in calls : Keeps(P, c, f)
      BY <2>1 DEF FlagInv, Flags, Down
    <2> QED BY <2>2 DEF Keeps, OpLowers, Lowers, Op
  <1> HIDE DEF Rules
  <1>4. Rules => (Spec => []FlagHeld)
    BY <1>1, <1>2, <1>3, PTL DEF Spec
  <1> QED BY <1>4 DEF Rules

-----------------------------------------------------------------------------
(* Slots that belong to the handlers that were clicked: busy flags of      *)
(* submits, busy marks of rows.                                            *)

\* The first requests of handlers are handlers.
LEMMA OpeningOps ==
  ASSUME FormRule(P), NEW O, \A o \in O : o \in Ops /\ Async(o)
  PROVE  Opening(O) \subseteq Ops
  <1>1. SUFFICES ASSUME NEW q \in O, NEW o \in First(q) PROVE o \in Ops
    BY DEF Opening
  <1>2. CASE o \in Op(q).wait[1] /\ ~Op(q).ask
    <2>1. Op(q).wait \in Seq(SUBSET Ops) /\ Op(q).wait # <<>>
      BY <1>2 DEF FormRule, Op, Ops, Async
    <2>2. 1 \in DOMAIN Op(q).wait
      BY <2>1
    <2> QED BY <1>2, <2>1, <2>2
  <1> QED BY <1>2 DEF First

\* Handlers that leave a private slot alone have loads that do.
LEMMA OpeningAlone ==
  ASSUME FormRule(P), NEW s, Private(P, s), NEW O, \A o \in O : o \in Ops /\ Async(o) /\ ~Touches(Op(o), s),
         NEW o \in Opening(O)
  PROVE  o \in Ops /\ ~Touches(Op(o), s)
  <1>1. PICK q \in O : o = q \/ o \in First(q)
    BY DEF Opening
  <1>2. CASE o \in Op(q).wait[1] /\ ~Op(q).ask
    <2>1. Op(q).wait \in Seq(SUBSET Ops) /\ Op(q).wait # <<>> /\ q \in Ops
      BY <1>2 DEF FormRule, Op, Ops, Async
    <2>2. 1 \in DOMAIN Op(q).wait
      BY <2>1
    <2>3. o \in Awaited(P) /\ o \in Ops
      BY <1>2, <2>1, <2>2 DEF Awaited, Op, Ops
    <2> QED BY <2>3 DEF Private, Op, Ops
  <1>3. o = q \/ (o \in Op(q).wait[1] /\ ~Op(q).ask)
    BY <1>1 DEF First
  <1> QED BY <1>2, <1>3

\* Handlers that no click starts leave it alone.
LEMMA RestartedAlone ==
  ASSUME FormRule(P), NEW s, Private(P, s), NEW o \in Restarted(P)
  PROVE  o \in Ops /\ Async(o) /\ ~Touches(Op(o), s)
  BY StartedAsync DEF Private, Op, Ops

\* Where the page goes on without a handler that uses it, it stays as it is, and no
\* new call uses it.
LEMMA FollowsAlone ==
  ASSUME FormRule(P), NEW s, Private(P, s), NEW w, NEW O, NEW a, NEW e, NEW fin, NEW rest, NEW run,
         Follows(w, O, a, e, fin, rest, run), s \in DOMAIN w,
         \A o \in O : o \in Ops /\ Async(o) /\ ~Touches(Op(o), s)
  PROVE  /\ s \notin DOMAIN fin => ui'[s] = w[s]
         /\ \A d \in calls' : Touches(Op(d.op), s) => d \in rest
  <1>1. \A o \in run : o \in Ops /\ Async(o) /\ ~Touches(Op(o), s)
    BY RestartedAlone DEF Follows
  <1>2. \A o \in Opening(O) \cup Opening(run) : s \notin DOMAIN Op(o).pre
    BY <1>1, OpeningAlone DEF Touches
  <1>3. s \notin DOMAIN fin => ui'[s] = w[s]
    BY <1>2 DEF Follows
  <1>4. ASSUME NEW d \in calls', Touches(Op(d.op), s)
        PROVE  d \in rest
    <2>1. CASE \E o \in O : New(d, o, a, e)
      BY <1>4, <2>1 DEF New, Call
    <2>2. CASE \E o \in run : \E env : New(d, o, "none", env)
      <3>0. PICK o \in run : \E x, env : New(d, o, x, env)
        BY <2>2
      <3>1. PICK x, env : New(d, o, x, env)
        BY <3>0
      <3>2. d.op = o
        BY <3>1, NewOp
      <3> QED BY <1>1, <1>4, <3>2
    <2> QED BY <2>1, <2>2 DEF Follows
  <1> QED BY <1>3, <1>4

\* What a step does to a slot: nothing; nothing while a call that uses it goes on; a
\* call that uses it leaves; or a click starts a handler that uses it.
Untouched(s) == ui'[s] = ui[s] /\ \A d \in calls' : Touches(Op(d.op), s) => d \in calls

GoesOn(s, c, b) ==
  /\ ui'[s] = ui[s] /\ Touches(Op(c.op), s) /\ b.op = c.op /\ b.arg = c.arg
  /\ \A d \in calls' : Touches(Op(d.op), s) => d \in (calls \ {c}) \cup {b}

Leaves(s, c) == Touches(Op(c.op), s) /\ \A d \in calls' : Touches(Op(d.op), s) => d \in calls \ {c}

Starts(s, p, o, a, b) ==
  /\ o \in DOMAIN p.offers /\ o \in Ops /\ a \in Args(o) /\ Touches(Op(o), s)
  /\ Holds(ui, p.when, "none") /\ Holds(ui, p.offers[o], a)
  /\ Send(o, a) /\ Overlapped(o, a) \subseteq blame'
  /\ \E z : ui'[s] = Value(Op(o).pre[s], ui[s], a, z)
  /\ b.op = o /\ b.arg = IF Op(o).arg = "none" THEN "none" ELSE a
  /\ \A d \in calls' : Touches(Op(d.op), s) => d \in calls \cup {b}

\* A call of which a request was answered.
LEMMA ResumedAlone ==
  ASSUME PageInv, NEW s \in DOMAIN ui, Private(P, s),
         NEW c \in calls, NEW o \in c.out, NEW as, NEW O, NEW run, O \subseteq Chained(P),
         s \in DOMAIN as => o = c.op /\ Touches(Op(c.op), s) /\ Op(c.op).wait = <<>>,
         LET w == Assign(ui, as, c.arg, c.env)
         IN  Waits(c, o, w, O, run) \/ Advances(c, o, w, O, run) \/ Ends(c, o, w, O, run)
  PROVE  Untouched(s) \/ (\E b : GoesOn(s, c, b)) \/ Leaves(s, c)
  <1> DEFINE w == Assign(ui, as, c.arg, c.env)
  <1>1. FormRule(P) /\ CallOK(P, c) /\ c.op \in Ops
    BY DEF PageInv, CallOK, Ops
  <1>2. DOMAIN w = DOMAIN ui /\ (s \notin DOMAIN as => w[s] = ui[s])
    BY DEF Assign
  <1> HIDE DEF w
  <1>3. \A q \in O : q \in Ops /\ Async(q) /\ ~Touches(Op(q), s)
    BY <1>1, RestartedAlone DEF Restarted
  <1>4. s \notin DOMAIN <<>>
    OBVIOUS
  <1>5. s \in DOMAIN as => c.k = 0 /\ c.out = {o} /\ Op(c.op).wait = <<>>
    BY <1>1 DEF CallOK, Op
  <1>6. CASE Waits(c, o, w, O, run)
    <2>1. PICK b : /\ Continues(b, c) /\ b.out = c.out \ {o}
                   /\ Follows(w, O, c.arg, c.env, <<>>, (calls \ {c}) \cup {b}, run)
      BY <1>6 DEF Waits
    <2>2. b.op = c.op /\ b.arg = c.arg /\ b.out # {}
      BY <2>1 DEF Continues, CallOK
    <2>3. s \notin DOMAIN as
      <3>1. CASE s \in DOMAIN as
        BY <1>5, <2>1, <2>2, <3>1
      <3> QED BY <3>1
    <2>4. ui'[s] = ui[s] /\ \A d \in calls' : Touches(Op(d.op), s) => d \in (calls \ {c}) \cup {b}
      BY <1>1, <1>2, <1>3, <1>4, <2>1, <2>3, FollowsAlone
    <2> QED BY <2>2, <2>4 DEF Untouched, GoesOn
  <1>7. CASE Advances(c, o, w, O, run)
    <2>1. PICK b : /\ Continues(b, c) /\ b.out = Op(c.op).wait[c.k + 1]
                   /\ Follows(Before(w, b.out, c.arg, c.env), O, c.arg, c.env, <<>>, (calls \ {c}) \cup {b}, run)
      BY <1>7 DEF Advances
    <2>2. b.op = c.op /\ b.arg = c.arg /\ c.k + 1 \in DOMAIN Op(c.op).wait
      BY <1>7, <2>1 DEF Continues, Advances
    <2>3. s \notin DOMAIN as
      <3>1. \A n : n \notin DOMAIN <<>>
        OBVIOUS
      <3> QED BY <1>5, <2>2, <3>1
    <2> DEFINE v == Before(w, b.out, c.arg, c.env)
    <2>4. \A l \in b.out : s \notin DOMAIN Op(l).pre
      <3>1. \A l \in b.out : l \in Awaited(P) /\ l \in Ops
        BY <1>1, <2>1, <2>2 DEF Awaited, Op, Ops, FormRule
      <3> QED BY <3>1 DEF Private, Touches, Op, Ops
    <2>5. DOMAIN v = DOMAIN ui /\ v[s] = ui[s]
      BY <1>2, <2>3, <2>4, BeforeSlot
    <2> HIDE DEF v
    <2>6. Follows(v, O, c.arg, c.env, <<>>, (calls \ {c}) \cup {b}, run)
      BY <2>1 DEF v
    <2>7. ui'[s] = ui[s] /\ \A d \in calls' : Touches(Op(d.op), s) => d \in (calls \ {c}) \cup {b}
      BY <1>1, <1>3, <1>4, <2>5, <2>6, FollowsAlone
    <2> QED BY <2>2, <2>7 DEF Untouched, GoesOn
  <1>8. CASE Ends(c, o, w, O, run)
    <2> DEFINE fin == Merged(Op(c.op).end, Op(c.op).after)
    <2>1. Follows(w, O, c.arg, c.env, fin, calls \ {c}, run)
      BY <1>8 DEF Ends
    <2>2. ~Touches(Op(c.op), s) => s \notin DOMAIN fin /\ s \notin DOMAIN as
      BY DEF Merged, Touches, Later
    <2> HIDE DEF fin
    <2>3. /\ s \notin DOMAIN fin => ui'[s] = w[s]
          /\ \A d \in calls' : Touches(Op(d.op), s) => d \in calls \ {c}
      BY <1>1, <1>2, <1>3, <2>1, FollowsAlone
    <2> QED BY <1>2, <2>2, <2>3 DEF Untouched, Leaves
  <1> QED BY <1>6, <1>7, <1>8 DEF w

\* Every step does one of these to a private slot.
LEMMA PrivateStep ==
  ASSUME PageInv, [Next]_vars, NEW s \in DOMAIN ui, Private(P, s)
  PROVE  \/ Untouched(s)
         \/ \E c \in calls : (\E b : GoesOn(s, c, b)) \/ Leaves(s, c)
         \/ \E p \in P.panels : \E o, a, b : Starts(s, p, o, a, b)
  <1>1. FormRule(P) /\ s \notin DOMAIN <<>> /\ \A d \in calls : CallOK(P, d)
    BY DEF PageInv
  <1>2. ASSUME Click
        PROVE  Untouched(s) \/ \E p \in P.panels : \E o, a, b : Starts(s, p, o, a, b)
    <2>0. PICK p \in P.panels, o \in Ops : \E a :
             /\ a \in Args(o) /\ o \in DOMAIN p.offers
             /\ Holds(ui, p.when, "none") /\ Holds(ui, p.offers[o], a)
             /\ Refuse(o, a) \/ Local(o, a) \/ Send(o, a)
      BY <1>2, ClickForm
    <2>1. PICK a :
             /\ a \in Args(o) /\ o \in DOMAIN p.offers
             /\ Holds(ui, p.when, "none") /\ Holds(ui, p.offers[o], a)
             /\ Refuse(o, a) \/ Local(o, a) \/ Send(o, a)
      BY <2>0
    <2>2. ASSUME NEW as, NEW run, s \notin DOMAIN as,
                 Follows(Assign(ui, as, a, Env(ui)), {}, a, Env(ui), <<>>, calls, run)
          PROVE  Untouched(s)
      <3> DEFINE w == Assign(ui, as, a, Env(ui))
      <3>1. DOMAIN w = DOMAIN ui /\ w[s] = ui[s]
        BY <2>2 DEF Assign
      <3> HIDE DEF w
      <3>2. Follows(w, {}, a, Env(ui), <<>>, calls, run)
        BY <2>2 DEF w
      <3> QED BY <1>1, <3>1, <3>2, FollowsAlone DEF Untouched
    <2>3. CASE Refuse(o, a)
      <3>1. s \notin DOMAIN Op(o).refuse
        BY <2>1 DEF Private, Touches, Later, Op, Ops
      <3> QED BY <2>2, <2>3, <3>1, RefuseFollows
    <2>4. CASE Local(o, a)
      <3>1. s \notin DOMAIN Op(o).ok
        BY <2>1, <2>4 DEF Local, Async, Private, Touches, Later, Op, Ops
      <3> QED BY <2>2, <2>4, <3>1, LocalFollows
    <2>5. CASE Send(o, a)
      <3>1. PICK run : Follows(ui, {o}, a, Env(ui), <<>>, calls, run)
        BY <2>5, SendFollows
      <3>2. Async(o) /\ Overlapped(o, a) \subseteq blame'
        BY <2>5 DEF Send, Noted
      <3>3. CASE ~Touches(Op(o), s)
        BY <1>1, <3>1, <3>2, <3>3, FollowsAlone DEF Untouched
      <3>4. CASE Touches(Op(o), s)
        <4>1. \A q \in run : q \in Ops /\ Async(q) /\ ~Touches(Op(q), s)
          BY <1>1, <3>1, RestartedAlone DEF Follows
        <4>2. \A q \in Opening(run) : s \notin DOMAIN Op(q).pre
          BY <1>1, <4>1, OpeningAlone DEF Touches
        <4>3. s \in DOMAIN Op(o).pre
          BY <3>4 DEF Private, Op, Ops
        <4>4. \A q \in Opening({o}) : s \in DOMAIN Op(q).pre => q = o
          <5>1. ASSUME NEW q \in First(o), q # o PROVE s \notin DOMAIN Op(q).pre
            <6>1. ~Op(o).ask /\ q \in Op(o).wait[1]
              BY <5>1 DEF First
            <6>2. Op(o).wait \in Seq(SUBSET Ops) /\ Op(o).wait # <<>>
              BY <1>1, <3>2, <6>1 DEF FormRule, Op, Ops, Async
            <6>3. 1 \in DOMAIN Op(o).wait
              BY <6>2
            <6>4. q \in Awaited(P) /\ q \in Ops
              BY <6>1, <6>2, <6>3 DEF Awaited, Op, Ops
            <6> QED BY <6>4 DEF Private, Touches, Op, Ops
          <5> QED BY <5>1 DEF Opening
        <4>5. o \in Opening({o})
          BY DEF Opening
        <4>6. \E z : ui'[s] = Value(Op(o).pre[s], ui[s], a, z)
          BY <1>1, <3>1, <4>2, <4>3, <4>4, <4>5 DEF Follows
        <4>7. ASSUME NEW d \in calls', Touches(Op(d.op), s), d \notin calls
              PROVE  New(d, o, a, Env(ui)) /\ d.op = o
          <5>1. New(d, o, a, Env(ui)) \/ \E q \in run : \E env : New(d, q, "none", env)
            BY <3>1, <4>7 DEF Follows
          <5>2. ~ \E q \in run : \E env : New(d, q, "none", env)
            <6>1. SUFFICES ASSUME NEW q \in run, NEW x, NEW env, New(d, q, x, env) PROVE FALSE
              OBVIOUS
            <6>2. d.op = q
              BY <6>1, NewOp
            <6> QED BY <4>1, <4>7, <6>2
          <5>3. New(d, o, a, Env(ui))
            BY <5>1, <5>2
          <5> DEFINE e == Env(ui)
          <5> HIDE DEF e
          <5>4. New(d, o, a, e) => d.op = o
            BY NewOp
          <5> QED BY <5>3, <5>4 DEF e
        <4>8. \A c, d \in calls' \ calls : c.op = d.op /\ d.op \notin run => c = d
          BY <3>1 DEF Follows
        <4>9. o \notin run
          BY <3>4, <4>1
        <4>10. PICK d : /\ d.op = o /\ d.arg = IF Op(o).arg = "none" THEN "none" ELSE a
                        /\ \A c \in calls' : Touches(Op(c.op), s) => c \in calls \cup {d}
          <5>1. CASE \E d \in calls' : Touches(Op(d.op), s) /\ d \notin calls
            <6>1. PICK d \in calls' : Touches(Op(d.op), s) /\ d \notin calls
              BY <5>1
            <6>2. New(d, o, a, Env(ui)) /\ d.op = o
              BY <4>7, <6>1
            <6>3. d.arg = IF Op(o).arg = "none" THEN "none" ELSE a
              BY <6>2 DEF New, Call
            <6> QED BY <4>7, <4>8, <4>9, <6>1, <6>2, <6>3
          <5>2. CASE ~ \E d \in calls' : Touches(Op(d.op), s) /\ d \notin calls
            <6> DEFINE d == [op |-> o, arg |-> IF Op(o).arg = "none" THEN "none" ELSE a]
            <6>1. d.op = o /\ d.arg = IF Op(o).arg = "none" THEN "none" ELSE a
              OBVIOUS
            <6> QED BY <5>2, <6>1
          <5> QED BY <5>1, <5>2
        <4>11. Starts(s, p, o, a, d)
          BY <2>1, <2>5, <3>2, <3>4, <4>6, <4>10 DEF Starts
        <4> QED BY <4>11
      <3> QED BY <3>3, <3>4
    <2> QED BY <2>1, <2>3, <2>4, <2>5
  <1>3. ASSUME NEW c \in calls, NEW o \in c.out, Answer(c, o)
        PROVE  Untouched(s) \/ (\E b : GoesOn(s, c, b)) \/ Leaves(s, c)
    <2>1. /\ o \in Ops /\ c.op \in Ops
          /\ o = c.op \/ o \in Awaited(P)
      BY <1>1, OutOps
    <2> DEFINE as == Done(c, o)
    <2>2. s \in DOMAIN as => Touches(Op(o), s)
      BY DEF Done, Merged, Touches, Later
    <2>3. s \in DOMAIN as => o = c.op /\ Touches(Op(c.op), s) /\ Op(c.op).wait = <<>>
      <3>1. SUFFICES ASSUME s \in DOMAIN as PROVE o = c.op /\ Touches(Op(c.op), s) /\ Op(c.op).wait = <<>>
        OBVIOUS
      <3>2. o = c.op
        BY <2>1, <2>2, <3>1 DEF Private, Op, Ops
      <3>3. s \in DOMAIN Op(o).ok \cup DOMAIN Op(o).shut
        BY <3>1, <3>2 DEF Done, Merged, Part
      <3> QED BY <2>1, <2>2, <3>1, <3>2, <3>3 DEF Private, Op, Ops
    <2> HIDE DEF as
    <2>4. PICK run : LET w == Assign(ui, as, c.arg, c.env)
                     IN  \/ Waits(c, o, w, Gone(c, o), run) \/ Advances(c, o, w, Gone(c, o), run)
                         \/ Ends(c, o, w, Gone(c, o), run)
      BY <1>3, AnswerForms DEF as
    <2>5. Gone(c, o) \subseteq Chained(P)
      BY <2>1, GoneChained
    <2> QED BY <2>3, <2>4, <2>5, ResumedAlone
  <1>4. ASSUME NEW c \in calls, NEW o \in c.out, Fail(c, o)
        PROVE  Untouched(s) \/ (\E b : GoesOn(s, c, b)) \/ Leaves(s, c)
    <2>1. /\ o \in Ops /\ c.op \in Ops
          /\ o = c.op \/ o \in Awaited(P)
      BY <1>1, OutOps
    <2>2. PICK run : \/ GivesUp(c, run)
                     \/ /\ ~Part(c, o) /\ o # c.op
                        /\ LET w == Assign(ui, Merged(Op(o).end, Op(o).bad), c.arg, c.env)
                           IN  \/ Waits(c, o, w, {}, run) \/ Advances(c, o, w, {}, run)
                               \/ Ends(c, o, w, {}, run)
      BY <1>4, FailForms
    <2>3. CASE GivesUp(c, run)
      <3> DEFINE as == Merged(Op(c.op).end, Op(c.op).bad)
                 w == Assign(ui, as, c.arg, c.env)
      <3>1. ~Touches(Op(c.op), s) => s \notin DOMAIN as
        BY DEF Merged, Touches, Later
      <3> HIDE DEF as
      <3>2. DOMAIN w = DOMAIN ui /\ (s \notin DOMAIN as => w[s] = ui[s])
        BY DEF Assign
      <3> HIDE DEF w
      <3>3. Follows(w, {}, c.arg, c.env, <<>>, calls \ {c}, run)
        BY <2>3 DEF GivesUp, w, as
      <3>4. ui'[s] = w[s] /\ \A d \in calls' : Touches(Op(d.op), s) => d \in calls \ {c}
        BY <1>1, <3>2, <3>3, FollowsAlone
      <3> QED BY <3>1, <3>2, <3>4 DEF Untouched, Leaves
    <2>4. CASE /\ ~Part(c, o) /\ o # c.op
               /\ LET w == Assign(ui, Merged(Op(o).end, Op(o).bad), c.arg, c.env)
                  IN  \/ Waits(c, o, w, {}, run) \/ Advances(c, o, w, {}, run)
                      \/ Ends(c, o, w, {}, run)
      <3> DEFINE as == Merged(Op(o).end, Op(o).bad)
      <3>1. s \notin DOMAIN as
        BY <2>1, <2>4 DEF Merged, Private, Touches, Later, Op, Ops
      <3> HIDE DEF as
      <3>2. PICK O : /\ O \subseteq Chained(P)
                     /\ LET w == Assign(ui, as, c.arg, c.env)
                        IN  Waits(c, o, w, O, run) \/ Advances(c, o, w, O, run) \/ Ends(c, o, w, O, run)
        <4>1. {} \subseteq Chained(P)
          OBVIOUS
        <4> QED BY <2>4, <4>1 DEF as
      <3> QED BY <3>1, <3>2, ResumedAlone
    <2> QED BY <2>2, <2>3, <2>4
  <1>5. ASSUME NEW c \in calls, NEW o \in c.out, Serve(c, o)
        PROVE  Untouched(s) \/ (\E b : GoesOn(s, c, b))
    <2>1. PICK b : Continues(b, c) /\ calls' = (calls \ {c}) \cup {b}
      BY <1>5, ServeForm
    <2>2. ui' = ui
      BY <1>5, ServeForm
    <2> QED BY <2>1, <2>2 DEF Untouched, GoesOn, Continues
  <1>6. ASSUME NEW t \in P.timers, Tick(t)
        PROVE  Untouched(s)
    <2>1. PICK a, e : Follows(ui, {t.run}, a, e, <<>>, calls, {})
      BY <1>1, <1>6, TickFollows
    <2>2. t.run \in Restarted(P)
      BY DEF Restarted, Polled
    <2>3. \A o \in {t.run} : o \in Ops /\ Async(o) /\ ~Touches(Op(o), s)
      BY <1>1, <2>2, RestartedAlone
    <2> QED BY <1>1, <2>1, <2>3, FollowsAlone DEF Untouched
  <1>7. CASE UNCHANGED vars \/ \E d \in Lists : Foreign(d)
    BY <1>7 DEF vars, Foreign, Untouched
  <1> QED BY <1>2, <1>3, <1>4, <1>5, <1>6, <1>7 DEF Next, Reply

-----------------------------------------------------------------------------
(* Submits.                                                                *)

\* At most one call uses a flag that admits one, and the flag is up meanwhile.
SubmitInv ==
  \A f : Admits(P, f) =>
     /\ \A c \in calls : Touches(Op(c.op), f) => ui[f] = "on"
     /\ \A b, c \in calls : Touches(Op(b.op), f) /\ Touches(Op(c.op), f) => b = c

LEMMA NextSubmit ==
  ASSUME PageInv, SubmitInv, [Next]_vars
  PROVE  SubmitInv'
  <1>1. P' = P /\ \A o : Op(o)' = Op(o)
    BY SamePage DEF Op
  <1>2. SUFFICES ASSUME NEW f, Admits(P, f)
                 PROVE  /\ \A c \in calls' : Touches(Op(c.op), f) => ui'[f] = "on"
                        /\ \A b, c \in calls' : Touches(Op(b.op), f) /\ Touches(Op(c.op), f) => b = c
    BY <1>1 DEF SubmitInv, Op
  <1>3. /\ \A c \in calls : Touches(Op(c.op), f) => ui[f] = "on"
        /\ \A b, c \in calls : Touches(Op(b.op), f) /\ Touches(Op(c.op), f) => b = c
    BY <1>2 DEF SubmitInv
  <1>4. f \in DOMAIN ui /\ Private(P, f)
    BY <1>2 DEF Admits, PageInv
  <1>5. CASE Untouched(f)
    BY <1>3, <1>5 DEF Untouched
  <1>6. ASSUME NEW c \in calls, NEW b, GoesOn(f, c, b)
        PROVE  \A d \in calls' : Touches(Op(d.op), f) => d = b /\ ui'[f] = "on"
    BY <1>3, <1>6 DEF GoesOn
  <1>7. ASSUME NEW c \in calls, Leaves(f, c)
        PROVE  \A d \in calls' : ~Touches(Op(d.op), f)
    BY <1>3, <1>7 DEF Leaves
  <1>8. ASSUME NEW p \in P.panels, NEW o, NEW a, NEW b, Starts(f, p, o, a, b)
        PROVE  \A d \in calls' : Touches(Op(d.op), f) => d = b /\ ui'[f] = "on"
    <2>1. Op(o).pre[f] = "on" /\ f \in DOMAIN p.offers[o] /\ p.offers[o][f] = {"off"}
      BY <1>2, <1>8 DEF Starts, Admits, OnlyWhile, Op, Ops
    <2>2. ui[f] = "off"
      BY <1>8, <2>1 DEF Starts, Holds
    <2>3. \A d \in calls : ~Touches(Op(d.op), f)
      BY <1>3, <2>2
    <2>4. ui'[f] = "on"
      BY <1>8, <2>1 DEF Starts, Value
    <2> QED BY <1>8, <2>3, <2>4 DEF Starts
  <1> QED BY <1>4, <1>5, <1>6, <1>7, <1>8, PrivateStep

LEMMA InitSubmit ==
  ASSUME Init, FormRule(P)
  PROVE  SubmitInv
  <1>1. SUFFICES ASSUME NEW f, Admits(P, f), NEW c \in calls, Touches(Op(c.op), f)
                 PROVE  /\ ui[f] = "on"
                        /\ \A b \in calls : Touches(Op(b.op), f) => b = c
    BY DEF SubmitInv
  <1>2. /\ f \in DOMAIN P.init /\ Private(P, f)
        /\ \A q \in Ops : Touches(Op(q), f) => Op(q).pre[f] = "on" /\ f \in DOMAIN Op(q).pre
        /\ \A q, r \in Effected(P) : Touches(Op(q), f) /\ Touches(Op(r), f) => q = r
    BY <1>1 DEF Admits, Private, Op, Ops
  <1>3. Mounted(page) \subseteq Effected(P)
    BY InitForm
  <1>4. \A o \in Mounted(page) : o \in Ops /\ Async(o)
    BY <1>3, StartedAsync
  <1>5. PICK o \in Mounted(page) : c = Call(1, "effect", o, "none", Env(P.init))
    BY <1>1 DEF Init
  <1>6. c.op = o
    BY <1>5 DEF Call
  <1>7. ASSUME NEW b \in calls, Touches(Op(b.op), f)
        PROVE  b = c
    <2>1. PICK q \in Mounted(page) : b = Call(1, "effect", q, "none", Env(P.init))
      BY DEF Init
    <2>2. b.op = q
      BY <2>1 DEF Call
    <2>3. q = o
      BY <1>1, <1>2, <1>3, <1>6, <1>7, <2>2
    <2> QED BY <1>5, <2>1, <2>3
  <1>8. ui[f] = "on"
    <2>1. ASSUME NEW q \in Opening(Mounted(page)), f \in DOMAIN Op(q).pre
          PROVE  Op(q).pre[f] = "on"
      <3>1. q \in Ops
        BY <1>4, OpeningOps
      <3> QED BY <1>2, <2>1, <3>1 DEF Touches
    <2>2. o \in Opening(Mounted(page)) /\ f \in DOMAIN Op(o).pre
      BY <1>1, <1>2, <1>4, <1>6 DEF Opening
    <2>3. PICK q \in Opening(Mounted(page)) :
             f \in DOMAIN Op(q).pre /\ ui[f] = Value(Op(q).pre[f], P.init[f], "none", Was(Env(P.init), f))
      BY <1>2, <2>2, InitForm
    <2> QED BY <2>1, <2>3 DEF Value
  <1> QED BY <1>7, <1>8

\* A submit whose button is disabled by its busy flag is never in progress twice, on
\* every page whose table follows the rule for submits (setSaving(true) before the
\* first await, disabled={saving}, setSaving(false) at the end, and nobody else sets
\* it): the flag is not taken down under the handler by an answer to another one.
THEOREM SubmitsOnce ==
  (\A p \in DOMAIN Pages : FormRule(Pages[p]) /\ SubmitRule(Pages[p])) => (Spec => []SingleFlight)
  <1> DEFINE Rules == \A p \in DOMAIN Pages : FormRule(Pages[p]) /\ SubmitRule(Pages[p])
             Inv == PageInv /\ SubmitInv /\ SubmitRule(P)
  <1>1. Rules /\ Init => Inv
    <2>1. SUFFICES ASSUME Rules, Init PROVE Inv
      OBVIOUS
    <2>2. FormRule(P) /\ SubmitRule(P)
      BY <2>1 DEF P, Init
    <2> QED BY <2>1, <2>2, InitForm, InitSubmit
  <1>2. Inv /\ [Next]_vars => Inv'
    <2>1. SUFFICES ASSUME Inv, [Next]_vars PROVE Inv'
      OBVIOUS
    <2>2. PageInv' /\ SubmitInv'
      BY <2>1, NextPage, NextSubmit
    <2>3. SubmitRule(P)'
      BY <2>1, SamePage
    <2> QED BY <2>2, <2>3
  <1>3. Inv => SingleFlight
    <2>1. SUFFICES ASSUME Inv, NEW c \in calls, NEW b \in calls, c.op = b.op, Guarded(P, c.op)
                   PROVE  c = b
      BY DEF SingleFlight
    <2>2. c.op \in DOMAIN P.ops
      BY <2>1 DEF PageInv, CallOK
    <2>3. PICK f \in DOMAIN P.ops[c.op].pre : Admits(P, f)
      BY <2>1, <2>2 DEF SubmitRule
    <2>4. Touches(Op(c.op), f)
      BY <2>3 DEF Touches, Op
    <2> QED BY <2>1, <2>3, <2>4 DEF SubmitInv
  <1> HIDE DEF Rules, Inv
  <1>4. Rules => (Spec => []SingleFlight)
    BY <1>1, <1>2, <1>3, PTL DEF Spec
  <1> QED BY <1>4 DEF Rules

-----------------------------------------------------------------------------
(* Where calls and the values of slots come from.                          *)

\* A panel in view offers handler o.
Offered(o) == \E p \in P.panels : o \in DOMAIN p.offers /\ Holds(ui, p.when, "none")

\* A call after a step was there before, or was started without a click, or is the
\* call of the handler that was clicked.
Carried(c) ==
  \E b \in calls : c.op = b.op /\ c.arg = b.arg /\ c.env = b.env /\ c.from \in {b.from, Now(b.op)}
Loaded(c) ==
  /\ c.op \in Restarted(P) /\ c.from = Now(c.op)
  /\ c.arg = "none" \/ \E b \in calls : c.arg = b.arg
Clicked(c) ==
  \E o \in Ops : \E a : Offered(o) /\ a \in Args(o) /\ Send(o, a) /\ New(c, o, a, Env(ui))

\* The calls after a request of call b was answered.
LEMMA FollowsCalls ==
  ASSUME NEW w, NEW O, NEW b, NEW fin, NEW rest, NEW run, b \in calls,
         Follows(w, O, b.arg, b.env, fin, rest, run), O \subseteq Restarted(P),
         \A c \in rest : Carried(c)
  PROVE  \A c \in calls' : Carried(c) \/ Loaded(c)
  <1>1. SUFFICES ASSUME NEW c \in calls', c \notin rest PROVE Loaded(c)
    OBVIOUS
  <1>2. CASE \E o \in O : New(c, o, b.arg, b.env)
    <2>0. PICK o \in O : \E a, e : New(c, o, a, e) /\ a = b.arg
      BY <1>2
    <2>1. PICK a, e : New(c, o, a, e) /\ a = b.arg
      BY <2>0
    <2>2. c.op = o /\ c.from = Now(o) /\ c.arg \in {"none", a}
      BY <2>1 DEF New, Call
    <2> QED BY <2>1, <2>2 DEF Loaded
  <1>3. CASE \E o \in run : \E env : New(c, o, "none", env)
    <2>0. PICK o \in run : \E a, env : New(c, o, a, env) /\ a = "none"
      BY <1>3
    <2>1. PICK a, env : New(c, o, a, env) /\ a = "none"
      BY <2>0
    <2>2. c.op = o /\ c.from = Now(o) /\ c.arg \in {"none", a}
      BY <2>1 DEF New, Call
    <2> QED BY <2>1, <2>2 DEF Loaded, Follows
  <1> QED BY <1>1, <1>2, <1>3 DEF Follows

\* The same for a step that only starts loads.
LEMMA FollowsLoads ==
  ASSUME NEW w, NEW O, NEW a, NEW e, NEW run, Follows(w, O, a, e, <<>>, calls, run),
         O \subseteq Restarted(P), O = {} \/ a = "none"
  PROVE  \A c \in calls' : Carried(c) \/ Loaded(c)
  <1>1. SUFFICES ASSUME NEW c \in calls', c \notin calls PROVE Loaded(c)
    BY DEF Carried
  <1>0. PICK o \in O \cup run : \E x, env : New(c, o, x, env) /\ x = "none"
    BY <1>1 DEF Follows
  <1>2. PICK x, env : New(c, o, x, env) /\ x = "none"
    BY <1>0
  <1>3. c.op = o /\ c.from = Now(o) /\ c.arg \in {"none", x}
    BY <1>2 DEF New, Call
  <1> QED BY <1>2, <1>3 DEF Loaded, Follows

\* So it is for every step.
LEMMA CallsStep ==
  ASSUME PageInv, [Next]_vars
  PROVE  \A c \in calls' : Carried(c) \/ Loaded(c) \/ Clicked(c)
  <1>1. FormRule(P) /\ \A d \in calls : CallOK(P, d) /\ Carried(d)
    BY DEF PageInv, Carried
  <1>2. ASSUME NEW b \in calls, NEW c, Continues(c, b)
        PROVE  Carried(c)
    BY <1>2 DEF Continues, Carried
  <1>3. ASSUME NEW b \in calls, NEW o \in b.out, NEW w, NEW O, NEW run, O \subseteq Chained(P),
               Waits(b, o, w, O, run) \/ Advances(b, o, w, O, run) \/ Ends(b, o, w, O, run)
        PROVE  \A c \in calls' : Carried(c) \/ Loaded(c)
    <2>1. PICK v, fin, rest : /\ Follows(v, O, b.arg, b.env, fin, rest, run)
                              /\ \A c \in rest : c \in calls \/ Continues(c, b)
      <3>1. CASE Waits(b, o, w, O, run)
        <4>1. PICK d : Continues(d, b) /\ Follows(w, O, b.arg, b.env, <<>>, (calls \ {b}) \cup {d}, run)
          BY <3>1 DEF Waits
        <4>2. \A c \in (calls \ {b}) \cup {d} : c \in calls \/ Continues(c, b)
          BY <4>1
        <4> QED BY <4>1, <4>2
      <3>2. CASE Advances(b, o, w, O, run)
        <4>1. PICK d, v : Continues(d, b) /\ Follows(v, O, b.arg, b.env, <<>>, (calls \ {b}) \cup {d}, run)
          BY <3>2 DEF Advances
        <4>2. \A c \in (calls \ {b}) \cup {d} : c \in calls \/ Continues(c, b)
          BY <4>1
        <4> QED BY <4>1, <4>2
      <3>3. CASE Ends(b, o, w, O, run)
        <4>1. PICK fin : Follows(w, O, b.arg, b.env, fin, calls \ {b}, run)
          BY <3>3 DEF Ends
        <4> QED BY <4>1
      <3> QED BY <1>3, <3>1, <3>2, <3>3
    <2>2. \A c \in rest : Carried(c)
      BY <1>1, <1>2, <2>1
    <2>3. O \subseteq Restarted(P)
      BY <1>3 DEF Restarted
    <2> QED BY <2>1, <2>2, <2>3, FollowsCalls
  <1>4. CASE Click
    <2>0. PICK o \in Ops : \E a : Offered(o) /\ a \in Args(o) /\ (Refuse(o, a) \/ Local(o, a) \/ Send(o, a))
      BY <1>4, ClickForm DEF Offered
    <2>1. PICK a : Offered(o) /\ a \in Args(o) /\ (Refuse(o, a) \/ Local(o, a) \/ Send(o, a))
      BY <2>0
    <2>2. CASE Refuse(o, a) \/ Local(o, a)
      <3>1. PICK w, O, e, run : Follows(w, O, a, e, <<>>, calls, run) /\ O = {}
        BY <2>2, RefuseFollows, LocalFollows
      <3>2. O \subseteq Restarted(P)
        BY <3>1
      <3> QED BY <3>1, <3>2, FollowsLoads
    <2>3. CASE Send(o, a)
      <3>1. PICK run : Follows(ui, {o}, a, Env(ui), <<>>, calls, run)
        BY <2>3, SendFollows
      <3>2. ASSUME NEW c \in calls', NEW q \in run, NEW env, NEW x, x = "none", New(c, q, x, env)
            PROVE  Loaded(c)
        <4>1. c.op = q /\ c.from = Now(q) /\ c.arg \in {"none", x}
          BY <3>2 DEF New, Call
        <4> QED BY <3>1, <3>2, <4>1 DEF Loaded, Follows
      <3> QED BY <1>1, <2>1, <2>3, <3>1, <3>2 DEF Follows, Clicked
    <2> QED BY <2>1, <2>2, <2>3
  <1>5. ASSUME NEW b \in calls, NEW o \in b.out, Answer(b, o)
        PROVE  \A c \in calls' : Carried(c) \/ Loaded(c)
    <2>1. PICK w, O, run : /\ Waits(b, o, w, O, run) \/ Advances(b, o, w, O, run) \/ Ends(b, o, w, O, run)
                           /\ O = Gone(b, o)
      BY <1>5, AnswerForms
    <2>2. O \subseteq Chained(P)
      BY <1>1, <2>1, OutOps, GoneChained
    <2> QED BY <1>3, <2>1, <2>2
  <1>6. ASSUME NEW b \in calls, NEW o \in b.out, Fail(b, o)
        PROVE  \A c \in calls' : Carried(c) \/ Loaded(c)
    <2>1. PICK w, O, run : /\ O = {}
                           /\ \/ GivesUp(b, run)
                              \/ Waits(b, o, w, O, run) \/ Advances(b, o, w, O, run) \/ Ends(b, o, w, O, run)
      BY <1>6, FailForms
    <2>2. O \subseteq Chained(P)
      BY <2>1
    <2>3. CASE GivesUp(b, run)
      <3>1. PICK v, fin, R : Follows(v, R, b.arg, b.env, fin, calls \ {b}, run) /\ R = {}
        BY <2>3 DEF GivesUp
      <3>2. R \subseteq Restarted(P) /\ \A c \in calls \ {b} : Carried(c)
        BY <1>1, <3>1
      <3> QED BY <3>1, <3>2, FollowsCalls
    <2> QED BY <1>3, <2>1, <2>2, <2>3
  <1>7. ASSUME NEW b \in calls, NEW o \in b.out, Serve(b, o)
        PROVE  \A c \in calls' : Carried(c)
    <2>1. PICK c : Continues(c, b) /\ calls' = (calls \ {b}) \cup {c}
      BY <1>7, ServeForm
    <2> QED BY <1>1, <1>2, <2>1
  <1>8. ASSUME NEW t \in P.timers, Tick(t)
        PROVE  \A c \in calls' : Carried(c) \/ Loaded(c)
    <2>1. PICK O, a, e, R : Follows(ui, O, a, e, <<>>, calls, R) /\ O = {t.run} /\ a = "none"
      BY <1>1, <1>8, TickFollows
    <2>2. O \subseteq Restarted(P)
      BY <2>1 DEF Restarted, Polled
    <2> QED BY <2>1, <2>2, FollowsLoads
  <1>9. CASE UNCHANGED vars \/ \E d \in Lists : Foreign(d)
    BY <1>1, <1>9 DEF vars, Foreign
  <1> QED BY <1>4, <1>5, <1>6, <1>7, <1>8, <1>9 DEF Next, Reply

\* The assignments of the handlers to slot s, other than those of a good answer, with
\* an argument in A keep its value in S.
Closed(s, S, A) ==
  \A o \in Ops : \A as \in {Op(o).pre, Op(o).refuse, Op(o).bad, Op(o).end, Op(o).after} :
     s \in DOMAIN as => \A x \in S, a \in A : \A z : Value(as[s], x, a, z) \in S

\* Then so does starting handlers.
LEMMA BeginsClosed ==
  ASSUME FormRule(P), NEW s, NEW S, NEW A, Closed(s, S, A), NEW a \in A,
         NEW O, \A o \in O : o \in Ops /\ Async(o), NEW x \in S, NEW y, Begins(O, a, s, x, y)
  PROVE  y \in S
  <1>1. Opening(O) \subseteq Ops
    BY OpeningOps
  <1> QED BY <1>1 DEF Begins, Closed

\* So does a page that goes on.
LEMMA FollowsClosed ==
  ASSUME FormRule(P), NEW s, NEW S, NEW A, Closed(s, S, A), NEW a \in A, "none" \in A,
         NEW w, NEW O, NEW e, NEW fin, NEW rest, NEW run,
         Follows(w, O, a, e, fin, rest, run), s \in DOMAIN w, w[s] \in S,
         \A o \in O : o \in Ops /\ Async(o),
         s \in DOMAIN fin => \A x \in S : \A z : Value(fin[s], x, a, z) \in S
  PROVE  ui'[s] \in S
  <1>1. PICK x, y : /\ Begins(O, a, s, w[s], x) /\ Assigns(fin, a, s, x, y)
                    /\ Begins(run, "none", s, y, ui'[s])
    BY DEF Follows
  <1>2. x \in S
    BY <1>1, BeginsClosed
  <1>3. y \in S
    BY <1>1, <1>2 DEF Assigns
  <1>4. \A o \in run : o \in Ops /\ Async(o)
    BY StartedAsync DEF Follows
  <1>5. PICK b, z : b = "none" /\ z = ui'[s] /\ Begins(run, b, s, y, z)
    BY <1>1
  <1>6. b \in A
    BY <1>5
  <1>7. z \in S
    BY <1>3, <1>4, <1>5, <1>6, BeginsClosed
  <1> QED BY <1>5, <1>7

\* So does a call of which a request was answered, if the answer does.
LEMMA ResumedClosed ==
  ASSUME PageInv, NEW s \in DOMAIN ui, NEW S, NEW A, Closed(s, S, A), "none" \in A,
         NEW c \in calls, c.arg \in A, NEW o \in c.out, NEW as, NEW O, NEW run,
         O \subseteq Chained(P),
         Assign(ui, as, c.arg, c.env)[s] \in S,
         LET w == Assign(ui, as, c.arg, c.env)
         IN  Waits(c, o, w, O, run) \/ Advances(c, o, w, O, run) \/ Ends(c, o, w, O, run)
  PROVE  ui'[s] \in S
  <1> DEFINE w == Assign(ui, as, c.arg, c.env)
             a == c.arg
             e == c.env
  <1>1. FormRule(P) /\ CallOK(P, c) /\ c.op \in Ops
    BY DEF PageInv, CallOK, Ops
  <1>2. DOMAIN w = DOMAIN ui /\ w[s] \in S /\ a \in A
    BY DEF Assign
  <1>3. \A q \in O : q \in Ops /\ Async(q)
    BY <1>1, StartedAsync DEF Restarted
  <1>4. s \notin DOMAIN <<>>
    OBVIOUS
  <1>5. CASE Waits(c, o, w, O, run)
    <2>1. PICK rest, fin : Follows(w, O, a, e, fin, rest, run) /\ fin = <<>>
      BY <1>5 DEF Waits
    <2> HIDE DEF w, a, e
    <2> QED BY <1>1, <1>2, <1>3, <1>4, <2>1, FollowsClosed
  <1>6. CASE Advances(c, o, w, O, run)
    <2>1. PICK b, rest, fin : /\ Follows(Before(w, b.out, a, e), O, a, e, fin, rest, run) /\ fin = <<>>
                              /\ b.out = Op(c.op).wait[c.k + 1]
      BY <1>6 DEF Advances
    <2>2. c.k + 1 \in DOMAIN Op(c.op).wait
      BY <1>6 DEF Advances
    <2>3. b.out \subseteq Ops
      BY <1>1, <2>1, <2>2 DEF FormRule, Op, Ops
    <2> HIDE DEF w, a, e
    <2> DEFINE v == Before(w, b.out, a, e)
    <2>4. DOMAIN v = DOMAIN w /\ v[s] \in S
      <3>1. /\ DOMAIN v = DOMAIN w
            /\ v[s] = w[s] \/ \E l \in b.out : s \in DOMAIN Op(l).pre /\ v[s] = Value(Op(l).pre[s], w[s], a, Was(e, s))
        BY <1>2, BeforeSlot
      <3> QED BY <1>2, <2>3, <3>1 DEF Closed
    <2> HIDE DEF v
    <2>5. Follows(v, O, a, e, fin, rest, run)
      BY <2>1 DEF v
    <2> QED BY <1>1, <1>2, <1>3, <1>4, <2>1, <2>4, <2>5, FollowsClosed
  <1>7. CASE Ends(c, o, w, O, run)
    <2> DEFINE fin == Merged(Op(c.op).end, Op(c.op).after)
    <2>1. PICK rest : Follows(w, O, a, e, fin, rest, run)
      BY <1>7 DEF Ends
    <2> HIDE DEF w, a, e
    <2>2. s \in DOMAIN fin => \A x \in S : \A z : Value(fin[s], x, a, z) \in S
      <3>1. \A g \in {Op(c.op).end, Op(c.op).after} : s \in DOMAIN g => \A x \in S : \A z : Value(g[s], x, a, z) \in S
        BY <1>1, <1>2 DEF Closed
      <3>2. s \in DOMAIN fin => \E g \in {Op(c.op).end, Op(c.op).after} : s \in DOMAIN g /\ fin[s] = g[s]
        BY DEF Merged
      <3> QED BY <3>1, <3>2
    <2> HIDE DEF fin
    <2> QED BY <1>1, <1>2, <1>3, <2>1, <2>2, FollowsClosed
  <1> QED BY <1>5, <1>6, <1>7 DEF w

\* Where also the good answers keep it, and the calls have their arguments in A, the
\* value of the slot stays in S.
LEMMA ClosedStep ==
  ASSUME PageInv, [Next]_vars, NEW s \in DOMAIN ui, NEW S, NEW A, Closed(s, S, A), "none" \in A,
         ui[s] \in S, \A c \in calls : c.arg \in A, \A o \in Ops : Args(o) \subseteq A,
         \A o \in Ops, a \in A :
            Offered(o) /\ Local(o, a) /\ s \in DOMAIN Op(o).ok => Value(Op(o).ok[s], ui[s], a, Was(Env(ui), s)) \in S,
         \A c \in calls : \A o \in c.out :
            s \in DOMAIN Done(c, o) => Value(Done(c, o)[s], ui[s], c.arg, Was(c.env, s)) \in S
  PROVE  ui'[s] \in S
  <1>1. FormRule(P) /\ (\A d \in calls : CallOK(P, d)) /\ s \notin DOMAIN <<>>
    BY DEF PageInv
  <1>2. CASE Click
    <2>0. PICK o \in Ops : \E a : /\ Offered(o) /\ a \in Args(o)
                                  /\ Refuse(o, a) \/ Local(o, a) \/ Send(o, a)
      BY <1>2, ClickForm DEF Offered
    <2>1. PICK a : Offered(o) /\ a \in Args(o) /\ (Refuse(o, a) \/ Local(o, a) \/ Send(o, a))
      BY <2>0
    <2>2. a \in A
      BY <2>1
    <2>3. ASSUME NEW w, NEW O, NEW e, NEW fin, NEW run, Follows(w, O, a, e, fin, calls, run), fin = <<>>,
                 DOMAIN w = DOMAIN ui, w[s] \in S, \A q \in O : q \in Ops /\ Async(q)
          PROVE  ui'[s] \in S
      BY <1>1, <2>2, <2>3, FollowsClosed
    <2>4. ASSUME NEW as, s \in DOMAIN as => Value(as[s], ui[s], a, Was(Env(ui), s)) \in S
          PROVE  /\ DOMAIN Assign(ui, as, a, Env(ui)) = DOMAIN ui
                 /\ Assign(ui, as, a, Env(ui))[s] \in S
      BY <2>4 DEF Assign
    <2>5. CASE Refuse(o, a)
      <3>1. PICK w, O, e, fin, run : /\ Follows(w, O, a, e, fin, calls, run) /\ fin = <<>> /\ O = {}
                                     /\ w = Assign(ui, Op(o).refuse, a, Env(ui))
        BY <2>5, RefuseFollows
      <3>2. s \in DOMAIN Op(o).refuse => Value(Op(o).refuse[s], ui[s], a, Was(Env(ui), s)) \in S
        BY <2>2 DEF Closed
      <3> QED BY <2>3, <2>4, <3>1, <3>2
    <2>6. CASE Local(o, a)
      <3>1. PICK w, O, e, fin, run : /\ Follows(w, O, a, e, fin, calls, run) /\ fin = <<>> /\ O = {}
                                     /\ w = Assign(ui, Op(o).ok, a, Env(ui))
        BY <2>6, LocalFollows
      <3>2. s \in DOMAIN Op(o).ok => Value(Op(o).ok[s], ui[s], a, Was(Env(ui), s)) \in S
        BY <2>1, <2>2, <2>6
      <3> QED BY <2>3, <2>4, <3>1, <3>2
    <2>7. CASE Send(o, a)
      <3>1. PICK w, O, e, fin, run : Follows(w, O, a, e, fin, calls, run) /\ fin = <<>> /\ O = {o} /\ w = ui
        BY <2>7, SendFollows
      <3>2. Async(o)
        BY <2>7 DEF Send
      <3> QED BY <2>3, <3>1, <3>2
    <2> QED BY <2>1, <2>5, <2>6, <2>7
  <1>3. ASSUME NEW c \in calls, NEW o \in c.out, Answer(c, o)
        PROVE  ui'[s] \in S
    <2> DEFINE as == Done(c, o)
    <2>1. PICK O, run : /\ O = Gone(c, o)
                        /\ LET w == Assign(ui, as, c.arg, c.env)
                           IN  Waits(c, o, w, O, run) \/ Advances(c, o, w, O, run) \/ Ends(c, o, w, O, run)
      BY <1>3, AnswerForms
    <2>2. O \subseteq Chained(P)
      BY <1>1, <2>1, OutOps, GoneChained
    <2>3. s \in DOMAIN as => Value(as[s], ui[s], c.arg, Was(c.env, s)) \in S
      OBVIOUS
    <2> HIDE DEF as
    <2>4. Assign(ui, as, c.arg, c.env)[s] \in S
      BY <2>3 DEF Assign
    <2> QED BY <2>1, <2>2, <2>4, ResumedClosed
  <1>4. ASSUME NEW c \in calls, NEW o \in c.out, Fail(c, o)
        PROVE  ui'[s] \in S
    <2>1. o \in Ops /\ c.op \in Ops
      BY <1>1, OutOps
    <2>2. ASSUME NEW q \in Ops
          PROVE  Assign(ui, Merged(Op(q).end, Op(q).bad), c.arg, c.env)[s] \in S
      <3> DEFINE as == Merged(Op(q).end, Op(q).bad)
      <3>1. s \in DOMAIN as => Value(as[s], ui[s], c.arg, Was(c.env, s)) \in S
        <4>1. \A g \in {Op(q).end, Op(q).bad} : s \in DOMAIN g => Value(g[s], ui[s], c.arg, Was(c.env, s)) \in S
          BY DEF Closed
        <4>2. s \in DOMAIN as => \E g \in {Op(q).end, Op(q).bad} : s \in DOMAIN g /\ as[s] = g[s]
          BY DEF Merged
        <4> QED BY <4>1, <4>2
      <3> HIDE DEF as
      <3>2. Assign(ui, as, c.arg, c.env)[s] \in S
        BY <3>1 DEF Assign
      <3> QED BY <3>2 DEF as
    <2>3. PICK run : \/ GivesUp(c, run)
                     \/ LET w == Assign(ui, Merged(Op(o).end, Op(o).bad), c.arg, c.env)
                        IN  \/ Waits(c, o, w, {}, run) \/ Advances(c, o, w, {}, run)
                            \/ Ends(c, o, w, {}, run)
      BY <1>4, FailForms
    <2>4. CASE GivesUp(c, run)
      <3>1. PICK w, O, a, e, fin, rest :
               /\ Follows(w, O, a, e, fin, rest, run) /\ fin = <<>> /\ O = {} /\ a = c.arg
               /\ w = Assign(ui, Merged(Op(c.op).end, Op(c.op).bad), c.arg, c.env)
        BY <2>4 DEF GivesUp
      <3>2. DOMAIN w = DOMAIN ui /\ w[s] \in S /\ a \in A
        BY <2>1, <2>2, <3>1 DEF Assign
      <3> QED BY <1>1, <3>1, <3>2, FollowsClosed
    <2>5. CASE LET w == Assign(ui, Merged(Op(o).end, Op(o).bad), c.arg, c.env)
               IN  \/ Waits(c, o, w, {}, run) \/ Advances(c, o, w, {}, run)
                   \/ Ends(c, o, w, {}, run)
      <3> DEFINE as == Merged(Op(o).end, Op(o).bad)
      <3>1. Assign(ui, as, c.arg, c.env)[s] \in S
        BY <2>1, <2>2
      <3> HIDE DEF as
      <3>2. PICK O : /\ O \subseteq Chained(P)
                     /\ LET w == Assign(ui, as, c.arg, c.env)
                        IN  Waits(c, o, w, O, run) \/ Advances(c, o, w, O, run) \/ Ends(c, o, w, O, run)
        <4>1. {} \subseteq Chained(P)
          OBVIOUS
        <4> QED BY <2>5, <4>1 DEF as
      <3> QED BY <3>1, <3>2, ResumedClosed
    <2> QED BY <2>3, <2>4, <2>5
  <1>5. ASSUME NEW t \in P.timers, Tick(t)
        PROVE  ui'[s] \in S
    <2>1. PICK O, a, e, fin, R : Follows(ui, O, a, e, fin, calls, R) /\ O = {t.run} /\ a = "none" /\ fin = <<>>
      BY <1>1, <1>5, TickFollows
    <2>2. t.run \in Restarted(P)
      BY DEF Restarted, Polled
    <2>3. \A o \in O : o \in Ops /\ Async(o)
      BY <1>1, <2>1, <2>2, StartedAsync
    <2>4. a \in A
      BY <2>1
    <2> QED BY <1>1, <2>1, <2>3, <2>4, FollowsClosed
  <1>6. CASE UNCHANGED vars \/ (\E d \in Lists : Foreign(d)) \/ \E c \in calls : \E o \in c.out : Serve(c, o)
    BY <1>6 DEF vars, Foreign, Serve
  <1> QED BY <1>2, <1>3, <1>4, <1>5, <1>6 DEF Next, Reply


-----------------------------------------------------------------------------
(* Types.                                                                  *)

Arguments == Rows \cup {"none", "mixed"}
Switch    == {"on", "off"}

\* Slot s holds values of S: it is a switch, or handlers take their argument from it.
Holding(s, S) ==
  /\ s \in DOMAIN P.init
  /\ (P.init[s] \in Switch /\ S = Switch) \/ (s \in ArgSlots(P) /\ S = Arguments)

SlotInv ==
  /\ SlotRule(P)
  /\ \A s, S : Holding(s, S) => ui[s] \in S
  /\ \A c \in calls : c.arg \in Arguments

\* An assignment that fits a slot leaves it with such a value.
LEMMA FitsHolding ==
  ASSUME NEW s, NEW S, Holding(s, S), NEW v, Fits(P, s, v), NEW x \in S, NEW a \in Arguments, NEW z
  PROVE  Value(v, x, a, z) \in S
  <1>1. CASE P.init[s] \in Switch /\ S = Switch
    <2>1. v = "on" \/ v = "off"
      BY <1>1 DEF Fits, Switch
    <2>2. Value(v, x, a, z) = v
      BY <2>1 DEF Value
    <2> QED BY <1>1, <2>1, <2>2 DEF Switch
  <1>2. CASE s \in ArgSlots(P) /\ S = Arguments
    <2>1. v \in {"arg", "drop", "patch", "none"}
      BY <1>2 DEF Fits
    <2>2. Value(v, x, a, z) \in {a, x, "none", "mixed"}
      BY <2>1 DEF Value
    <2> QED BY <1>2, <2>2 DEF Arguments
  <1> QED BY <1>1, <1>2 DEF Holding

\* The arguments of a click.
LEMMA ArgsHold ==
  ASSUME SlotInv, NEW o \in Ops
  PROVE  Args(o) \subseteq Arguments
  <1>1. CASE Op(o).arg = "row" \/ Op(o).arg = "none"
    BY <1>1 DEF Args, Arguments
  <1>2. CASE Op(o).arg # "row" /\ Op(o).arg # "none"
    <2>1. Op(o).arg \in ArgSlots(P) /\ Op(o).arg \in DOMAIN P.init
      BY <1>2 DEF ArgSlots, Op, Ops, SlotInv, SlotRule
    <2>2. Holding(Op(o).arg, Arguments)
      BY <2>1 DEF Holding
    <2>3. ui[Op(o).arg] \in Arguments
      BY <2>2 DEF SlotInv
    <2> QED BY <1>2, <2>3 DEF Args
  <1> QED BY <1>1, <1>2

\* An assignment of a good answer to a slot is one the table has for the slot.
LEMMA DoneSlot ==
  ASSUME NEW c, NEW o, NEW s \in DOMAIN Done(c, o)
  PROVE  \/ Done(c, o)[s] = "off" /\ s \in DOMAIN Op(o).shut
         \/ Done(c, o)[s] = Op(o).ok[s] /\ s \in DOMAIN Op(o).ok
         \/ Done(c, o)[s] = Op(o).end[s] /\ s \in DOMAIN Op(o).end
  BY DEF Done, Merged

LEMMA NextSlots ==
  ASSUME PageInv, SlotInv, [Next]_vars
  PROVE  SlotInv'
  <1>1. P' = P /\ SlotRule(P) /\ FormRule(P) /\ DOMAIN ui = DOMAIN P.init /\ \A c \in calls : CallOK(P, c)
    BY SamePage DEF SlotInv, PageInv
  <1>2. ASSUME NEW s, NEW S, Holding(s, S)
        PROVE  ui'[s] \in S
    <2>1. s \in DOMAIN ui /\ ui[s] \in S
      BY <1>1, <1>2 DEF Holding, SlotInv
    <2>2. ASSUME NEW o \in Ops
          PROVE  /\ \A as \in {Op(o).refuse, Op(o).ok, Op(o).bad, Op(o).end, Op(o).after, Op(o).pre} :
                      s \in DOMAIN as => Fits(P, s, as[s])
                 /\ s \in DOMAIN Op(o).shut => Fits(P, s, "off")
      BY <1>1 DEF SlotRule, Later, Op, Ops
    <2>3. Closed(s, S, Arguments)
      BY <1>2, <2>2, FitsHolding DEF Closed
    <2>4. \A o \in Ops, a \in Arguments : s \in DOMAIN Op(o).ok => Value(Op(o).ok[s], ui[s], a, Was(Env(ui), s)) \in S
      BY <1>2, <2>1, <2>2, FitsHolding
    <2>5. ASSUME NEW c \in calls, NEW o \in c.out, s \in DOMAIN Done(c, o)
          PROVE  Value(Done(c, o)[s], ui[s], c.arg, Was(c.env, s)) \in S
      <3>1. o \in Ops
        BY <1>1, OutOps
      <3>2. Fits(P, s, Done(c, o)[s])
        BY <2>2, <2>5, <3>1, DoneSlot
      <3>3. c.arg \in Arguments
        BY DEF SlotInv
      <3> QED BY <1>2, <2>1, <3>2, <3>3, FitsHolding
    <2>6. "none" \in Arguments /\ (\A c \in calls : c.arg \in Arguments) /\ \A o \in Ops : Args(o) \subseteq Arguments
      BY ArgsHold DEF SlotInv, Arguments
    <2> QED BY <2>1, <2>3, <2>4, <2>5, <2>6, ClosedStep
  <1>3. ASSUME NEW c \in calls'
        PROVE  c.arg \in Arguments
    <2>1. CASE Carried(c) \/ Loaded(c)
      BY <2>1 DEF Carried, Loaded, SlotInv, Arguments
    <2>2. CASE Clicked(c)
      <3>0. PICK o \in Ops : \E a, e : a \in Args(o) /\ New(c, o, a, e)
        BY <2>2 DEF Clicked
      <3>1. PICK a, e : a \in Args(o) /\ New(c, o, a, e)
        BY <3>0
      <3>2. c.arg \in {"none", a}
        BY <3>1 DEF New, Call
      <3> QED BY <3>1, <3>2, ArgsHold DEF Arguments
    <2> QED BY <2>1, <2>2, CallsStep
  <1>4. \A s, S : Holding(s, S)' => Holding(s, S)
    BY <1>1 DEF Holding
  <1> QED BY <1>1, <1>2, <1>3, <1>4 DEF SlotInv

LEMMA InitSlots ==
  ASSUME Init, FormRule(P), SlotRule(P)
  PROVE  SlotInv
  <1>1. Mounted(page) \subseteq Effected(P)
    BY InitForm
  <1>2. \A o \in Mounted(page) : o \in Ops /\ Async(o)
    BY <1>1, StartedAsync
  <1>3. Opening(Mounted(page)) \subseteq Ops
    BY <1>2, OpeningOps
  <1>4. ASSUME NEW s, NEW S, Holding(s, S)
        PROVE  ui[s] \in S
    <2>1. P.init[s] \in S
      BY <1>4 DEF Holding, SlotRule, Arguments
    <2>2. \A o \in Ops : s \in DOMAIN Op(o).pre => Fits(P, s, Op(o).pre[s])
      BY DEF SlotRule, Later, Op, Ops
    <2>3. "none" \in Arguments /\ s \in DOMAIN P.init
      BY <1>4 DEF Arguments, Holding
    <2>4. \/ ui[s] = P.init[s]
          \/ \E o \in Opening(Mounted(page)) :
               s \in DOMAIN Op(o).pre /\ ui[s] = Value(Op(o).pre[s], P.init[s], "none", Was(Env(P.init), s))
      BY <2>3, InitForm
    <2> QED BY <1>3, <1>4, <2>1, <2>2, <2>3, <2>4, FitsHolding
  <1>5. ASSUME NEW c \in calls
        PROVE  c.arg \in Arguments
    <2>1. PICK o \in Mounted(page) : New(c, o, "none", Env(P.init))
      BY InitForm
    <2>2. c.arg = "none"
      BY <2>1 DEF New, Call
    <2> QED BY <2>2 DEF Arguments
  <1> QED BY <1>4, <1>5 DEF SlotInv

\* The lists that handler o and its loads ask for.
Fetched(o) == UNION {Op(l).get : l \in Within(o)}

\* Nothing that a page has, or that is on its way to it, is newer than the server.
VersionInv ==
  /\ srv \in [Lists -> Nat] /\ own \in [Lists -> Nat] /\ \A d \in Lists : own[d] <= srv[d]
  /\ DOMAIN shown = Lists
  /\ \A d \in Lists : shown[d] = [v |-> shown[d].v, q |-> shown[d].q] /\ shown[d].v \in 0..srv[d]
  /\ \A c \in calls : \A d \in Fetched(c.op) : c.from[d] \in 0..srv[d]
  /\ late \cup stale \subseteq Lists

\* What a request of the page has written, the server has.
LEMMA WrittenVersions ==
  ASSUME VersionInv, NEW o, Wrote(o), srv' = srv
  PROVE  own' \in [Lists -> Nat] /\ \A d \in Lists : own'[d] <= srv'[d]
  BY DEF VersionInv, Wrote

\* Handlers ask for lists of the page, in every request.
LEMMA FetchedLists ==
  ASSUME FormRule(P), NEW o \in Ops
  PROVE  Fetched(o) \subseteq Lists
  <1>1. \A l \in Ops : Loads(l) \subseteq Ops
    <2>1. SUFFICES ASSUME NEW l \in Ops PROVE Loads(l) \subseteq Ops
      OBVIOUS
    <2>2. Op(l).go \cup DOMAIN Op(l).goif \subseteq Chained(P)
      BY DEF Chained, Op, Ops
    <2>3. Chained(P) \subseteq Ops
      BY StartedAsync DEF Restarted
    <2>4. \A k \in DOMAIN Op(l).wait : Op(l).wait[k] \subseteq Ops
      BY DEF FormRule, Op, Ops
    <2> QED BY <2>2, <2>3, <2>4 DEF Loads
  <1>2. Within(o) \subseteq Ops
    BY <1>1 DEF Within
  <1>3. \A l \in Ops : Op(l).get \subseteq Lists
    BY DEF FormRule, Op, Ops, Lists
  <1> QED BY <1>2, <1>3 DEF Fetched

LEMMA OutFetched ==
  ASSUME FormRule(P), NEW c, CallOK(P, c), NEW o \in c.out
  PROVE  Op(o).get \subseteq Fetched(c.op)
  <1>1. o = c.op \/ \E k \in DOMAIN Op(c.op).wait : o \in Op(c.op).wait[k]
    BY OutOps
  <1>2. o \in Within(c.op)
    BY <1>1 DEF Within, Loads
  <1> QED BY <1>2 DEF Fetched

\* The server's versions only grow.
LEMMA ServerGrows ==
  ASSUME VersionInv, [Next]_vars
  PROVE  srv' \in [Lists -> Nat] /\ \A d \in Lists : srv[d] <= srv'[d]
  <1>1. srv \in [Lists -> Nat]
    BY DEF VersionInv
  <1>2. \/ srv' = srv
        \/ \E o : srv' = [d \in Lists |-> IF d \in Op(o).put THEN srv[d] + 1 ELSE srv[d]]
        \/ \E d \in Lists : srv' = [srv EXCEPT ![d] = @ + 1]
    BY DEF Next, Click, Refuse, Local, Send, Serve, Reply, Answer, Fail, Tick, Foreign, vars
  <1>3. CASE srv' = srv
    BY <1>1, <1>3
  <1>4. CASE \E o : srv' = [d \in Lists |-> IF d \in Op(o).put THEN srv[d] + 1 ELSE srv[d]]
    BY <1>1, <1>4
  <1>5. CASE \E d \in Lists : srv' = [srv EXCEPT ![d] = @ + 1]
    BY <1>1, <1>5
  <1> QED BY <1>2, <1>3, <1>4, <1>5

LEMMA NextVersions ==
  ASSUME PageInv, VersionInv, [Next]_vars
  PROVE  VersionInv'
  <1>1. P' = P /\ Lists' = Lists /\ FormRule(P) /\ \A c \in calls : CallOK(P, c)
    BY SamePage DEF PageInv, Lists
  <1>2. srv' \in [Lists -> Nat] /\ srv \in [Lists -> Nat] /\ \A d \in Lists : srv[d] <= srv'[d]
    BY ServerGrows DEF VersionInv
  <1>3. ASSUME NEW c \in calls'
        PROVE  \A d \in Fetched(c.op) : c.from[d] \in 0..srv'[d]
    <2>1. \A o \in Ops : \A d \in Fetched(o) : d \in Lists /\ Now(o)[d] = srv[d]
      BY <1>1, FetchedLists DEF Now, Fetched
    <2>2. c.op \in Ops /\ (c.from = Now(c.op) \/ \E b \in calls : c.op = b.op /\ c.from = b.from)
      <3>1. CASE Carried(c)
        BY <1>1, <3>1 DEF Carried, CallOK, Ops
      <3>2. CASE Loaded(c)
        BY <1>1, <3>2, StartedAsync DEF Loaded
      <3>3. CASE Clicked(c)
        <4>0. PICK o \in Ops : \E a, e : New(c, o, a, e)
          BY <3>3 DEF Clicked
        <4>1. PICK a, e : New(c, o, a, e)
          BY <4>0
        <4>2. c.op = o /\ c.from = Now(o)
          BY <4>1 DEF New, Call
        <4> QED BY <4>2
      <3> QED BY <3>1, <3>2, <3>3, CallsStep
    <2>3. \A d \in Fetched(c.op) : c.from[d] \in 0..srv[d]
      BY <1>2, <2>1, <2>2 DEF VersionInv
    <2> QED BY <1>2, <2>1, <2>2, <2>3
  <1>4. \A o : Fetched(o)' = Fetched(o)
    BY <1>1 DEF Fetched, Within, Loads, Op
  <1> DEFINE Current ==
               /\ own' \in [Lists -> Nat] /\ \A d \in Lists : own'[d] <= srv'[d]
               /\ DOMAIN shown' = Lists
               /\ \A d \in Lists : /\ shown'[d] = [v |-> shown'[d].v, q |-> shown'[d].q]
                                   /\ shown'[d].v \in 0..srv'[d]
               /\ late' \cup stale' \subseteq Lists
  <1>5. Current
    <2>1. CASE UNCHANGED <<shown, own, late, stale>>
      BY <1>2, <2>1 DEF VersionInv
    <2>2. ASSUME NEW c \in calls, NEW o \in c.out, Answer(c, o)
          PROVE  Current
      <3> DEFINE q == [s \in Op(o).reads |-> c.env[s]]
      <3>1. PICK at \in {c.from, srv}, got \in Received(o) :
                  shown' = [d \in Lists |-> IF d \in got THEN [v |-> at[d], q |-> q]
                                            ELSE IF d \in Op(o).blank THEN [v |-> 0, q |-> q]
                                            ELSE IF d \in Op(o).patch THEN [shown[d] EXCEPT !.v = srv[d]]
                                            ELSE shown[d]]
        BY <2>2 DEF Answer
      <3>8. late' \cup stale' \subseteq Lists
        BY <2>2 DEF Answer
      <3> HIDE DEF q
      <3>2. Wrote(o) /\ srv' = srv
        BY <2>2 DEF Answer
      <3>3. own' \in [Lists -> Nat] /\ \A d \in Lists : own'[d] <= srv'[d]
        BY <1>2, <3>2, WrittenVersions
      <3>4. got \subseteq Fetched(c.op)
        BY <1>1, OutFetched DEF Received
      <3>5. \A d \in got : at[d] \in 0..srv[d]
        <4>1. c.op \in Ops
          BY <1>1 DEF CallOK, Ops
        <4>2. got \subseteq Lists
          BY <1>1, <3>4, <4>1, FetchedLists
        <4> QED BY <1>2, <3>4, <4>2 DEF VersionInv
      <3>6. ASSUME NEW d \in Lists
            PROVE  shown'[d] = [v |-> shown'[d].v, q |-> shown'[d].q] /\ shown'[d].v \in 0..srv[d]
        <4>1. CASE d \in got
          BY <3>1, <3>5, <4>1
        <4>2. CASE d \notin got /\ d \in Op(o).blank
          BY <1>2, <3>1, <4>2
        <4>3. CASE d \notin got /\ d \notin Op(o).blank /\ d \in Op(o).patch
          <5>1. shown'[d] = [shown[d] EXCEPT !.v = srv[d]]
            BY <3>1, <4>3
          <5>2. shown[d] = [v |-> shown[d].v, q |-> shown[d].q]
            BY DEF VersionInv
          <5>3. shown'[d] = [v |-> srv[d], q |-> shown[d].q]
            BY <5>1, <5>2
          <5> QED BY <1>2, <5>3
        <4>4. CASE d \notin got /\ d \notin Op(o).blank /\ d \notin Op(o).patch
          BY <3>1, <4>4 DEF VersionInv
        <4> QED BY <4>1, <4>2, <4>3, <4>4
      <3>7. DOMAIN shown' = Lists
        BY <3>1
      <3> QED BY <3>2, <3>3, <3>6, <3>7, <3>8
    <2>3. ASSUME NEW c \in calls, NEW o \in c.out, Fail(c, o)
          PROVE  Current
      <3>1. /\ shown' = shown /\ late' = late \cup Op(o).get
            /\ stale' \subseteq stale \cup Op(o).get \cup Op(o).put
            /\ Wrote(o) \/ own' = own
        BY <2>3 DEF Fail
      <3>2. Op(o).get \cup Op(o).put \subseteq Lists
        BY <1>1, OutOps DEF FormRule, Op, Ops, Lists
      <3>3. late' \cup stale' \subseteq Lists
        BY <3>1, <3>2 DEF VersionInv
      <3>4. srv' = srv
        BY <2>3 DEF Fail
      <3>5. own' \in [Lists -> Nat] /\ \A d \in Lists : own'[d] <= srv'[d]
        <4>1. CASE Wrote(o)
          BY <3>4, <4>1, WrittenVersions
        <4>2. CASE own' = own
          BY <1>2, <4>2 DEF VersionInv
        <4> QED BY <3>1, <4>1, <4>2
      <3> QED BY <1>2, <3>1, <3>3, <3>5 DEF VersionInv
    <2>4. \/ UNCHANGED <<shown, own, late, stale>>
          \/ \E c \in calls : \E o \in c.out : Answer(c, o) \/ Fail(c, o)
      BY DEF Next, Click, Refuse, Local, Send, Serve, Reply, Tick, Foreign, vars
    <2> QED BY <2>1, <2>2, <2>3, <2>4
  <1> HIDE DEF Current
  <1>6. (\A c \in calls : \A d \in Fetched(c.op) : c.from[d] \in 0..srv[d])'
    BY <1>3, <1>4
  <1>7. /\ (srv \in [Lists -> Nat])' /\ (own \in [Lists -> Nat])' /\ (DOMAIN shown = Lists)'
        /\ (late \cup stale \subseteq Lists)' /\ (\A d \in Lists : own[d] <= srv[d])'
    <2>1. (srv \in [Lists -> Nat])'
      BY <1>1, <1>2
    <2>2. (own \in [Lists -> Nat])' /\ (late \cup stale \subseteq Lists)'
      BY <1>1, <1>5 DEF Current
    <2>3. (DOMAIN shown = Lists)'
      BY <1>1, <1>5 DEF Current
    <2>4. (\A d \in Lists : own[d] <= srv[d])'
      BY <1>1, <1>5 DEF Current
    <2> QED BY <2>1, <2>2, <2>3, <2>4
  <1>8. (\A d \in Lists : shown[d] = [v |-> shown[d].v, q |-> shown[d].q] /\ shown[d].v \in 0..srv[d])'
    BY <1>1, <1>5 DEF Current
  <1> QED BY <1>6, <1>7, <1>8 DEF VersionInv

LEMMA InitVersions ==
  ASSUME Init, FormRule(P)
  PROVE  VersionInv
  <1>1. /\ srv = [d \in Lists |-> 1] /\ own = [d \in Lists |-> 0] /\ late = {} /\ stale = {}
        /\ shown = [d \in Lists |-> [v |-> 0, q |-> <<>>]]
    BY DEF Init
  <1>2. ASSUME NEW c \in calls, NEW d \in Fetched(c.op)
        PROVE  c.from[d] \in 0..srv[d]
    <2>1. PICK o \in Mounted(page) : New(c, o, "none", Env(P.init))
      BY InitForm
    <2>2. c.op = o /\ c.from = Now(o)
      BY <2>1 DEF New, Call
    <2>3. o \in Ops
      BY InitForm, StartedAsync
    <2>4. d \in Lists /\ c.from[d] = srv[d]
      BY <1>2, <2>2, <2>3, FetchedLists DEF Now, Fetched
    <2> QED BY <1>1, <2>4
  <1> QED BY <1>1, <1>2 DEF VersionInv

\* Every switch (a dialog, a busy flag) stays one, what a handler is called with is a
\* row or nothing, and no list shows, and no write is acknowledged with, a version
\* the server has not had, however late its answer comes.
THEOREM TypeCorrect ==
  (\A p \in DOMAIN Pages : FormRule(Pages[p]) /\ SlotRule(Pages[p])) => (Spec => []TypeOK)
  <1> DEFINE Rules == \A p \in DOMAIN Pages : FormRule(Pages[p]) /\ SlotRule(Pages[p])
  <1>1. Rules /\ Init => PageInv /\ SlotInv /\ VersionInv
    <2>1. SUFFICES ASSUME Rules, Init PROVE PageInv /\ SlotInv /\ VersionInv
      OBVIOUS
    <2>2. FormRule(P) /\ SlotRule(P)
      BY <2>1 DEF P, Init
    <2> QED BY <2>1, <2>2, InitForm, InitSlots, InitVersions
  <1>2. PageInv /\ SlotInv /\ VersionInv /\ [Next]_vars => PageInv' /\ SlotInv' /\ VersionInv'
    BY NextPage, NextSlots, NextVersions
  <1>3. PageInv /\ SlotInv /\ VersionInv => TypeOK
    <2>1. SUFFICES ASSUME PageInv, SlotInv, VersionInv PROVE TypeOK
      OBVIOUS
    <2>2. page \in DOMAIN Pages /\ DOMAIN ui = DOMAIN P.init
      BY <2>1 DEF PageInv
    <2>3. \A s \in DOMAIN ui : P.init[s] \in {"on", "off"} => ui[s] \in {"on", "off"}
      <3>1. \A s \in DOMAIN ui : P.init[s] \in Switch => Holding(s, Switch)
        BY <2>2 DEF Holding
      <3>2. \A s, S : Holding(s, S) => ui[s] \in S
        BY <2>1 DEF SlotInv
      <3> QED BY <3>1, <3>2 DEF Switch
    <2>4. \A d \in Lists : shown[d].v \in 0..srv[d] /\ own[d] \in 0..srv[d]
      BY <2>1 DEF VersionInv
    <2>5. \A c \in calls : c.op \in Ops /\ c.out # {} /\ c.arg \in Rows \cup {"none", "mixed"}
      BY <2>1 DEF PageInv, SlotInv, CallOK, Ops, Arguments
    <2>6. late \cup stale \subseteq Lists
      BY <2>1 DEF VersionInv
    <2> QED BY <2>2, <2>3, <2>4, <2>5, <2>6 DEF TypeOK
  <1> HIDE DEF Rules
  <1>4. Rules => (Spec => []TypeOK)
    BY <1>1, <1>2, <1>3, PTL DEF Spec
  <1> QED BY <1>4 DEF Rules

-----------------------------------------------------------------------------
(* Busy marks of rows.                                                     *)

\* At most one call uses a mark, which is on its row.  Both are lost for good when a
\* second row is marked.
MarkInv ==
  \/ "overlapped" \in blame
  \/ \A s \in P.rowFlags :
       /\ \A c \in calls : Touches(Op(c.op), s) =>
             IF Marks(P, c.op, s) THEN c.arg \in Rows /\ ui[s] = c.arg ELSE ui[s] # "none"
       /\ \A b, c \in calls : Touches(Op(b.op), s) /\ Touches(Op(c.op), s) => b = c

\* What has happened stays noted.
LEMMA BlameGrows ==
  ASSUME [Next]_vars
  PROVE  blame \subseteq blame'
  BY DEF Next, Click, Refuse, Local, Send, Serve, Reply, Answer, Fail, Tick, Foreign, vars, Noted

\* The argument of a click on a handler that marks its row is a row.
LEMMA ClickOnRow ==
  ASSUME SlotInv, NEW p \in P.panels, NEW o \in DOMAIN p.offers, o \in Ops, OnRow(P, o),
         Holds(ui, p.when, "none"), NEW a \in Args(o)
  PROVE  a \in Rows /\ Op(o).arg # "none"
  <1>1. CASE Op(o).arg = "row"
    BY <1>1 DEF Args
  <1>2. CASE Op(o).arg # "row"
    <2> DEFINE t == Op(o).arg
    <2>1. t # "none" /\ t \in DOMAIN p.when /\ p.when[t] = {"some"}
      BY <1>2 DEF OnRow, Op
    <2>2. ui[t] = "some" \/ ui[t] \in Rows
      BY <2>1 DEF Holds
    <2>3. a = ui[t]
      BY <1>2, <2>1 DEF Args
    <2>4. a \in Arguments
      BY ArgsHold
    <2> QED BY <2>1, <2>2, <2>3, <2>4 DEF Arguments
  <1> QED BY <1>1, <1>2

LEMMA NextMark ==
  ASSUME PageInv, SlotInv, MarkInv, MarkRule(P), [Next]_vars
  PROVE  MarkInv'
  <1>1. P' = P /\ \A o : Op(o)' = Op(o)
    BY SamePage DEF Op
  <1> DEFINE Marked(s, c) == IF Marks(P, c.op, s) THEN c.arg \in Rows /\ ui'[s] = c.arg ELSE ui'[s] # "none"
  <1>2. SUFFICES ASSUME "overlapped" \notin blame', NEW s \in P.rowFlags
                 PROVE  /\ \A c \in calls' : Touches(Op(c.op), s) => Marked(s, c)
                        /\ \A b, c \in calls' : Touches(Op(b.op), s) /\ Touches(Op(c.op), s) => b = c
    BY <1>1 DEF MarkInv, Op
  <1>3. /\ \A c \in calls : Touches(Op(c.op), s) =>
             IF Marks(P, c.op, s) THEN c.arg \in Rows /\ ui[s] = c.arg ELSE ui[s] # "none"
        /\ \A b, c \in calls : Touches(Op(b.op), s) /\ Touches(Op(c.op), s) => b = c
    BY <1>2, BlameGrows DEF MarkInv
  <1>4. s \in DOMAIN ui /\ Private(P, s) /\ \A c \in calls : c.op \in Ops
    BY <1>2 DEF MarkRule, PageInv, FormRule, CallOK, Ops
  <1>5. CASE Untouched(s)
    BY <1>3, <1>5 DEF Untouched
  <1>6. ASSUME NEW c \in calls, NEW b, GoesOn(s, c, b)
        PROVE  \A d \in calls' : Touches(Op(d.op), s) => d = b /\ Marked(s, d)
    BY <1>3, <1>6 DEF GoesOn
  <1>7. ASSUME NEW c \in calls, Leaves(s, c)
        PROVE  \A d \in calls' : ~Touches(Op(d.op), s)
    BY <1>3, <1>7 DEF Leaves
  <1>8. ASSUME NEW p \in P.panels, NEW o, NEW a, NEW b, Starts(s, p, o, a, b)
        PROVE  \A d \in calls' : Touches(Op(d.op), s) => d = b /\ Marked(s, d)
    <2>1. /\ o \in Ops /\ o \in DOMAIN p.offers /\ a \in Args(o) /\ Touches(Op(o), s)
          /\ Holds(ui, p.when, "none") /\ Holds(ui, p.offers[o], a)
          /\ s \in DOMAIN Op(o).pre
      BY <1>4, <1>8 DEF Starts, Private, Op, Ops
    <2>2. ui[s] \notin Rows
      BY <1>2, <1>8, <2>1 DEF Starts, Overlapped
    <2>3. ASSUME NEW c \in calls, Touches(Op(c.op), s)
          PROVE  FALSE
      <3>1. ~Marks(P, c.op, s) /\ ui[s] # "none"
        BY <1>3, <2>2, <2>3
      <3>2. OnlyWhile(P, o, s, "none")
        BY <1>4, <2>1, <2>3, <3>1 DEF MarkRule, Op, Ops
      <3>3. s \in DOMAIN p.offers[o] /\ p.offers[o][s] = {"none"}
        BY <2>1, <3>2 DEF OnlyWhile
      <3>4. ui[s] = "none"
        BY <2>1, <2>2, <3>3 DEF Holds
      <3> QED BY <3>1, <3>4
    <2>4. \A d \in calls' : Touches(Op(d.op), s) => d = b
      BY <1>8, <2>3 DEF Starts
    <2>5. Marked(s, b)
      <3>1. PICK z : ui'[s] = Value(Op(o).pre[s], ui[s], a, z)
        BY <1>8 DEF Starts
      <3>2. b.op = o /\ b.arg = IF Op(o).arg = "none" THEN "none" ELSE a
        BY <1>8 DEF Starts
      <3>3. CASE Marks(P, o, s)
        <4>1. OnRow(P, o)
          BY <2>1, <3>3 DEF MarkRule, Op, Ops
        <4>2. a \in Rows /\ Op(o).arg # "none"
          BY <2>1, <4>1, ClickOnRow
        <4>3. Op(o).pre[s] = "arg"
          BY <3>3 DEF Marks, Op
        <4>4. ui'[s] = a
          BY <3>1, <4>3 DEF Value
        <4> QED BY <3>2, <3>3, <4>2, <4>4
      <3>4. CASE ~Marks(P, o, s)
        <4>1. Op(o).pre[s] \notin {"arg", "drop", "patch", "flip", "none"}
          BY <2>1, <3>4 DEF MarkRule, Marks, Op, Ops
        <4>2. ui'[s] = Op(o).pre[s]
          BY <3>1, <4>1 DEF Value
        <4> QED BY <3>2, <3>4, <4>1, <4>2
      <3> QED BY <3>3, <3>4
    <2> QED BY <2>4, <2>5
  <1> QED BY <1>4, <1>5, <1>6, <1>7, <1>8, PrivateStep

LEMMA InitMark ==
  ASSUME Init, FormRule(P), MarkRule(P)
  PROVE  MarkInv
  <1>1. SUFFICES ASSUME NEW s \in P.rowFlags, NEW c \in calls, Touches(Op(c.op), s) PROVE FALSE
    BY DEF MarkInv
  <1>2. PICK o \in Mounted(page) : New(c, o, "none", Env(P.init))
    BY InitForm
  <1>3. c.op = o
    BY <1>2 DEF New, Call
  <1>4. o \in Effected(P) /\ o \in Ops
    BY InitForm, StartedAsync
  <1> QED BY <1>1, <1>3, <1>4 DEF MarkRule, Op, Ops

\* While a request about a row is in progress its busy mark (deletingId, togglingId) is
\* on that row, unless a second row was marked meanwhile, on every page whose table
\* follows the rule for marks: an answer about another row, a load or an effect never
\* takes it off.
THEOREM MarksStay ==
  (\A p \in DOMAIN Pages : FormRule(Pages[p]) /\ SlotRule(Pages[p]) /\ MarkRule(Pages[p]))
    => (Spec => []RowMarked)
  <1> DEFINE Rules == \A p \in DOMAIN Pages : FormRule(Pages[p]) /\ SlotRule(Pages[p]) /\ MarkRule(Pages[p])
             Inv == PageInv /\ SlotInv /\ MarkInv /\ MarkRule(P)
  <1>1. Rules /\ Init => Inv
    <2>1. SUFFICES ASSUME Rules, Init PROVE Inv
      OBVIOUS
    <2>2. FormRule(P) /\ SlotRule(P) /\ MarkRule(P)
      BY <2>1 DEF P, Init
    <2> QED BY <2>1, <2>2, InitForm, InitSlots, InitMark
  <1>2. Inv /\ [Next]_vars => Inv'
    <2>1. SUFFICES ASSUME Inv, [Next]_vars PROVE Inv'
      OBVIOUS
    <2>2. PageInv' /\ SlotInv' /\ MarkInv'
      BY <2>1, NextPage, NextSlots, NextMark
    <2>3. MarkRule(P)'
      BY <2>1, SamePage
    <2> QED BY <2>2, <2>3
  <1>3. Inv => RowMarked
    <2>1. SUFFICES ASSUME Inv, "overlapped" \notin blame, NEW c \in calls, NEW s \in P.rowFlags,
                          s \in DOMAIN Op(c.op).pre, Op(c.op).pre[s] = "arg"
                   PROVE  ui[s] = c.arg
      BY DEF RowMarked
    <2>2. Touches(Op(c.op), s) /\ Marks(P, c.op, s)
      BY <2>1 DEF Touches, Marks, Op
    <2> QED BY <2>1, <2>2 DEF MarkInv
  <1> HIDE DEF Rules, Inv
  <1>4. Rules => (Spec => []RowMarked)
    BY <1>1, <1>2, <1>3, PTL DEF Spec
  <1> QED BY <1>4 DEF Rules

-----------------------------------------------------------------------------
(* Rows changed in place.                                                  *)

\* No slot and no argument is a mixed row, and a handler that closed over the row it
\* changes still has that row on display.  All is lost for good when another row is
\* opened over it.
PatchInv ==
  \/ "reselected" \in blame
  \/ /\ \A s \in DOMAIN ui : ui[s] # "mixed"
     /\ \A c \in calls : c.arg # "mixed"
     /\ \A c \in calls : \A s \in DOMAIN Op(c.op).ok : Op(c.op).ok[s] = "patch" =>
           s \in DOMAIN c.env /\ (c.env[s] = c.arg => ui[s] = c.arg)

\* What an assignment other than a patch makes of a slot.
LEMMA PlainValue ==
  ASSUME NEW v, v # "patch", NEW x, NEW a, NEW z
  PROVE  Value(v, x, a, z) \in {a, x, "none", "a", "b", v}
  BY DEF Value

\* What the tables put into slot s.
Words(s) == UNION {{as[s] : as \in Later(Op(o)) \cup {Op(o).pre}} : o \in Ops}

\* Only an answer or a click without a request changes a slot that is patched.
LEMMA FollowsPatched ==
  ASSUME FormRule(P), PatchRule(P), NEW s \in P.patched, NEW w, s \in DOMAIN w,
         NEW O, NEW a, NEW e, NEW fin, fin = <<>>, NEW rest, NEW run, Follows(w, O, a, e, fin, rest, run),
         \A o \in O : o \in Ops /\ Async(o)
  PROVE  ui'[s] = w[s]
  <1>1. \A o \in run : o \in Ops /\ Async(o)
    BY StartedAsync DEF Follows
  <1>2. Opening(run) \subseteq Ops /\ Opening(O) \subseteq Ops
    BY <1>1, OpeningOps
  <1>3. \A o \in Ops : s \notin DOMAIN Op(o).pre
    BY DEF PatchRule, Op, Ops
  <1>4. s \notin DOMAIN fin
    OBVIOUS
  <1> QED BY <1>2, <1>3, <1>4 DEF Follows

LEMMA PatchedNoted ==
  ASSUME PageInv, PatchRule(P), [Next]_vars, NEW s \in P.patched
  PROVE  ui'[s] = ui[s] \/ Reselection \subseteq blame'
  <1>1. FormRule(P) /\ s \in DOMAIN ui
    BY DEF PageInv, FormRule
  <1>2. CASE Click
    <2>0. PICK o \in Ops : \E a : Refuse(o, a) \/ Local(o, a) \/ Send(o, a)
      BY <1>2, ClickForm
    <2>1. PICK a : Refuse(o, a) \/ Local(o, a) \/ Send(o, a)
      BY <2>0
    <2>2. CASE Refuse(o, a)
      <3> DEFINE w == Assign(ui, Op(o).refuse, a, Env(ui))
      <3>1. s \notin DOMAIN Op(o).refuse
        BY DEF PatchRule, Op, Ops
      <3>2. s \in DOMAIN w /\ w[s] = ui[s]
        BY <1>1, <3>1, AssignSlot
      <3> HIDE DEF w
      <3>3. PICK O, e, fin, run : Follows(w, O, a, e, fin, calls, run) /\ O = {} /\ fin = <<>>
        BY <2>2, RefuseFollows DEF w
      <3> QED BY <1>1, <3>2, <3>3, FollowsPatched
    <2>3. CASE Local(o, a) \/ Send(o, a)
      BY <2>3 DEF Local, Send, Noted
    <2> QED BY <2>1, <2>2, <2>3
  <1>3. CASE Reply
    BY <1>3 DEF Reply, Answer, Fail, Noted
  <1>4. ASSUME NEW t \in P.timers, Tick(t)
        PROVE  ui'[s] = ui[s]
    <2>1. PICK O, a, e, fin, R : Follows(ui, O, a, e, fin, calls, R) /\ O = {t.run} /\ fin = <<>>
      BY <1>1, <1>4, TickFollows
    <2>2. t.run \in Restarted(P)
      BY DEF Restarted, Polled
    <2>3. \A o \in O : o \in Ops /\ Async(o)
      BY <1>1, <2>1, <2>2, StartedAsync
    <2> QED BY <1>1, <2>1, <2>3, FollowsPatched
  <1>5. CASE UNCHANGED vars \/ (\E d \in Lists : Foreign(d)) \/ \E c \in calls : \E o \in c.out : Serve(c, o)
    BY <1>5 DEF vars, Foreign, Serve
  <1> QED BY <1>2, <1>3, <1>4, <1>5 DEF Next

LEMMA NextPatch ==
  ASSUME PageInv, SlotInv, PatchInv, PatchRule(P), [Next]_vars
  PROVE  PatchInv'
  <1>1. /\ P' = P /\ \A o : Op(o)' = Op(o)
        /\ FormRule(P) /\ SlotRule(P) /\ DOMAIN ui = DOMAIN P.init /\ \A c \in calls : CallOK(P, c)
    BY SamePage DEF PageInv, SlotInv, Op
  <1>2. SUFFICES ASSUME "reselected" \notin blame'
                 PROVE  /\ \A s \in DOMAIN ui : ui'[s] # "mixed"
                        /\ \A c \in calls' : c.arg # "mixed"
                        /\ \A c \in calls' : \A s \in DOMAIN Op(c.op).ok : Op(c.op).ok[s] = "patch" =>
                              s \in DOMAIN c.env /\ (c.env[s] = c.arg => ui'[s] = c.arg)
    <2>1. DOMAIN ui' = DOMAIN ui
      BY <1>1, NextPage DEF PageInv
    <2> QED BY <1>1, <2>1 DEF PatchInv
  <1>3. /\ \A s \in DOMAIN ui : ui[s] # "mixed"
        /\ \A c \in calls : c.arg # "mixed"
        /\ \A c \in calls : \A s \in DOMAIN Op(c.op).ok : Op(c.op).ok[s] = "patch" =>
              s \in DOMAIN c.env /\ (c.env[s] = c.arg => ui[s] = c.arg)
    BY <1>2, BlameGrows DEF PatchInv
  <1> DEFINE A == Arguments \ {"mixed"}
  <1>4. ASSUME NEW o \in Ops
        PROVE  Args(o) \subseteq A
    <2>1. CASE Op(o).arg = "row" \/ Op(o).arg = "none"
      BY <2>1, RowsAssumption DEF Args, Arguments
    <2>2. CASE Op(o).arg # "row" /\ Op(o).arg # "none"
      <3>1. Op(o).arg \in DOMAIN ui
        BY <1>1, <2>2 DEF ArgSlots, Op, Ops, SlotRule
      <3>2. Args(o) = {ui[Op(o).arg]}
        BY <2>2 DEF Args
      <3> QED BY <1>3, <3>1, <3>2, ArgsHold
    <2> QED BY <2>1, <2>2
  <1>5. "none" \in A /\ \A c \in calls : c.arg \in A
    BY <1>3 DEF SlotInv, Arguments
  <1>6. ASSUME NEW o \in Ops, NEW s \in DOMAIN Op(o).ok, Op(o).ok[s] = "patch"
        PROVE  /\ s \in P.patched /\ s \in P.closure /\ s \in DOMAIN ui /\ Op(o).put # {}
               /\ o \notin Restarted(P) \cup Awaited(P)
    BY <1>1, <1>6 DEF PatchRule, FormRule, Op, Ops
  <1>7. ASSUME NEW s \in DOMAIN ui
        PROVE  ui'[s] # "mixed"
    <2> DEFINE S == (Words(s) \cup A \cup {ui[s], "none", "a", "b", "off"}) \ {"mixed"}
    <2>1. ASSUME NEW o \in Ops, NEW as \in {Op(o).refuse, Op(o).ok, Op(o).bad, Op(o).end, Op(o).after, Op(o).pre},
                 s \in DOMAIN as, as[s] # "patch", NEW x \in S, NEW a \in A, NEW z
          PROVE  Value(as[s], x, a, z) \in S
      <3>1. as \in Later(Op(o)) \cup {Op(o).pre}
        BY DEF Later
      <3>2. as[s] \in Words(s)
        <4>1. as[s] \in {g[s] : g \in Later(Op(o)) \cup {Op(o).pre}}
          BY <3>1
        <4> QED BY <4>1 DEF Words
      <3>3. as[s] # "mixed"
        BY <1>1, <2>1, <3>1 DEF SlotRule, Fits, Op, Ops
      <3>4. Value(as[s], x, a, z) \in {a, x, "none", "a", "b", as[s]}
        BY <2>1, PlainValue
      <3> QED BY <3>2, <3>3, <3>4
    <2>2. ui[s] \in S
      BY <1>3
    <2>3. Closed(s, S, A)
      <3>1. \A o \in Ops : \A as \in {Op(o).pre, Op(o).refuse, Op(o).bad, Op(o).end, Op(o).after} :
               s \in DOMAIN as => as[s] # "patch"
        BY DEF PatchRule, Op, Ops
      <3> HIDE DEF S, A
      <3> QED BY <2>1, <3>1 DEF Closed
    <2>4. ASSUME NEW o \in Ops, NEW a \in A, s \in DOMAIN Op(o).ok
          PROVE  Value(Op(o).ok[s], ui[s], a, Was(Env(ui), s)) \in S
      <3>1. CASE Op(o).ok[s] = "patch"
        <4>1. s \in P.closure
          BY <1>6, <2>4, <3>1
        <4>2. Was(Env(ui), s) = ui[s]
          BY <4>1 DEF Was, Env
        <4>3. Value(Op(o).ok[s], ui[s], a, Was(Env(ui), s)) = ui[s]
          BY <3>1, <4>2 DEF Value
        <4> QED BY <2>2, <4>3
      <3>2. CASE Op(o).ok[s] # "patch"
        <4> HIDE DEF S, A
        <4> QED BY <2>1, <2>2, <2>4, <3>2
      <3> QED BY <3>1, <3>2
    <2>5. ASSUME NEW c \in calls, NEW o \in c.out, s \in DOMAIN Done(c, o)
          PROVE  Value(Done(c, o)[s], ui[s], c.arg, Was(c.env, s)) \in S
      <3>1. o \in Ops /\ (o = c.op \/ o \in Awaited(P))
        BY <1>1, OutOps
      <3>2. CASE Done(c, o)[s] = "off"
        <4> DEFINE v == Done(c, o)[s]
        <4>1. v = "off" => Value(v, ui[s], c.arg, Was(c.env, s)) = "off"
          BY DEF Value
        <4>2. "off" \in S
          OBVIOUS
        <4> HIDE DEF S
        <4> QED BY <3>2, <4>1, <4>2
      <3>3. CASE Done(c, o)[s] = Op(o).ok[s] /\ s \in DOMAIN Op(o).ok /\ Op(o).ok[s] = "patch"
        <4>1. o = c.op
          BY <1>6, <3>1, <3>3
        <4>2. s \in DOMAIN c.env /\ (c.env[s] = c.arg => ui[s] = c.arg)
          BY <1>3, <3>3, <4>1
        <4>3. Value(Done(c, o)[s], ui[s], c.arg, Was(c.env, s)) = ui[s]
          BY <3>3, <4>2 DEF Value, Was
        <4> QED BY <2>2, <4>3
      <3>4. CASE \/ Done(c, o)[s] = Op(o).ok[s] /\ s \in DOMAIN Op(o).ok /\ Op(o).ok[s] # "patch"
                 \/ Done(c, o)[s] = Op(o).end[s] /\ s \in DOMAIN Op(o).end
        <4>1. PICK as \in {Op(o).ok, Op(o).end} : s \in DOMAIN as /\ as[s] # "patch" /\ Done(c, o)[s] = as[s]
          BY <3>1, <3>4 DEF PatchRule, Op, Ops
        <4>2. c.arg \in A
          BY <1>5
        <4> HIDE DEF S, A
        <4> QED BY <2>1, <2>2, <3>1, <4>1, <4>2
      <3> QED BY <2>5, <3>2, <3>3, <3>4, DoneSlot
    <2> HIDE DEF S, A
    <2>6. ui'[s] \in S
      BY <1>4, <1>5, <2>2, <2>3, <2>4, <2>5, ClosedStep
    <2> QED BY <2>6 DEF S
  <1>8. ASSUME NEW c \in calls'
        PROVE  c.arg # "mixed"
    <2>1. CASE Carried(c) \/ Loaded(c)
      BY <1>3, <2>1 DEF Carried, Loaded
    <2>2. CASE Clicked(c)
      <3>0. PICK o \in Ops : \E a, e : a \in Args(o) /\ New(c, o, a, e)
        BY <2>2 DEF Clicked
      <3>1. PICK a, e : a \in Args(o) /\ New(c, o, a, e)
        BY <3>0
      <3>2. c.arg \in {"none", a}
        BY <3>1 DEF New, Call
      <3> QED BY <1>4, <3>1, <3>2
    <2> QED BY <2>1, <2>2, CallsStep
  <1>9. ASSUME NEW c \in calls', NEW s \in DOMAIN Op(c.op).ok, Op(c.op).ok[s] = "patch"
        PROVE  s \in DOMAIN c.env /\ (c.env[s] = c.arg => ui'[s] = c.arg)
    <2>1. CASE Carried(c)
      <3>1. PICK b \in calls : c.op = b.op /\ c.arg = b.arg /\ c.env = b.env
        BY <2>1 DEF Carried
      <3>2. s \in DOMAIN c.env /\ (c.env[s] = c.arg => ui[s] = c.arg)
        BY <1>3, <1>9, <3>1
      <3>3. s \in P.patched /\ Op(b.op).put # {}
        BY <1>1, <1>6, <1>9, <3>1 DEF CallOK, Ops
      <3>4. ui[s] = b.arg /\ ui'[s] # ui[s] => "reselected" \in Reselection
        BY <3>3 DEF Reselection
      <3> QED BY <1>2, <3>1, <3>2, <3>3, <3>4, PatchedNoted
    <2>2. CASE Loaded(c)
      <3>1. c.op \in Restarted(P) /\ c.op \in Ops
        BY <1>1, <2>2, StartedAsync DEF Loaded
      <3> QED BY <1>6, <1>9, <3>1
    <2>3. CASE Clicked(c)
      <3>0. PICK o \in Ops : \E a : Send(o, a) /\ New(c, o, a, Env(ui))
        BY <2>3 DEF Clicked
      <3>1. PICK a : Send(o, a) /\ New(c, o, a, Env(ui))
        BY <3>0
      <3>2. c.op = o /\ c.env = [t \in DOMAIN Env(ui) \cap UNION {Kept(l) : l \in Within(o)} |-> Env(ui)[t]]
        BY <3>1 DEF New, Call
      <3>3. s \in P.patched /\ s \in P.closure /\ s \in DOMAIN ui
        BY <1>6, <1>9, <3>2
      <3>4. s \in Kept(o) /\ o \in Within(o)
        BY <1>9, <3>2 DEF Kept, Within
      <3>5. s \in DOMAIN c.env /\ c.env[s] = ui[s]
        BY <3>2, <3>3, <3>4 DEF Env
      <3>6. ui'[s] = ui[s]
        <4>1. PICK O, e, fin, run : Follows(ui, O, a, e, fin, calls, run) /\ O = {o} /\ fin = <<>>
          BY <3>1, SendFollows
        <4>2. Async(o)
          BY <3>1 DEF Send
        <4> QED BY <1>1, <3>3, <4>1, <4>2, FollowsPatched
      <3> QED BY <3>5, <3>6
    <2> QED BY <2>1, <2>2, <2>3, CallsStep
  <1> QED BY <1>7, <1>8, <1>9

LEMMA InitPatch ==
  ASSUME Init, FormRule(P), SlotRule(P), PatchRule(P)
  PROVE  PatchInv
  <1>1. \A o \in Mounted(page) : o \in Effected(P) /\ o \in Ops /\ Async(o)
    BY InitForm, StartedAsync
  <1>2. ASSUME NEW c \in calls
        PROVE  c.arg = "none" /\ c.op \in Effected(P) /\ c.op \in Ops
    <2>1. PICK o \in Mounted(page) : New(c, o, "none", Env(P.init))
      BY InitForm
    <2> QED BY <1>1, <2>1 DEF New, Call
  <1>3. \A c \in calls : \A s \in DOMAIN Op(c.op).ok : Op(c.op).ok[s] # "patch"
    BY <1>2 DEF PatchRule, Op, Ops
  <1>4. ASSUME NEW s \in DOMAIN ui
        PROVE  ui[s] # "mixed"
    <2>1. s \in DOMAIN P.init /\ P.init[s] # "mixed"
      BY InitForm DEF PageInv, SlotRule
    <2>2. ASSUME NEW o \in Opening(Mounted(page)), s \in DOMAIN Op(o).pre
          PROVE  Op(o).pre[s] # "mixed" /\ Op(o).pre[s] # "patch"
      <3>1. o \in Ops
        BY <1>1, OpeningOps
      <3> QED BY <2>2, <3>1 DEF SlotRule, Fits, Later, PatchRule, Op, Ops
    <2>3. \/ ui[s] = P.init[s]
          \/ \E o \in Opening(Mounted(page)) :
               s \in DOMAIN Op(o).pre /\ ui[s] = Value(Op(o).pre[s], P.init[s], "none", Was(Env(P.init), s))
      BY <2>1, InitForm
    <2>4. CASE ui[s] = P.init[s]
      BY <2>1, <2>4
    <2>5. ASSUME NEW o \in Opening(Mounted(page)), s \in DOMAIN Op(o).pre,
                 ui[s] = Value(Op(o).pre[s], P.init[s], "none", Was(Env(P.init), s))
          PROVE  ui[s] # "mixed"
      BY <2>1, <2>2, <2>5, PlainValue
    <2> QED BY <2>3, <2>4, <2>5
  <1> QED BY <1>2, <1>3, <1>4 DEF PatchInv

\* A row on display is given new values in place only by an answer about that row (the
\* answer is compared with the id that the handler closed over), unless another row
\* was opened while the request was in progress, on every page whose table follows
\* the rule for patches.
THEOREM RowsUnmixed ==
  (\A p \in DOMAIN Pages : FormRule(Pages[p]) /\ SlotRule(Pages[p]) /\ PatchRule(Pages[p]))
    => (Spec => []NoMixedRow)
  <1> DEFINE Rules == \A p \in DOMAIN Pages : FormRule(Pages[p]) /\ SlotRule(Pages[p]) /\ PatchRule(Pages[p])
             Inv == PageInv /\ SlotInv /\ PatchInv /\ PatchRule(P)
  <1>1. Rules /\ Init => Inv
    <2>1. SUFFICES ASSUME Rules, Init PROVE Inv
      OBVIOUS
    <2>2. FormRule(P) /\ SlotRule(P) /\ PatchRule(P)
      BY <2>1 DEF P, Init
    <2> QED BY <2>1, <2>2, InitForm, InitSlots, InitPatch
  <1>2. Inv /\ [Next]_vars => Inv'
    <2>1. SUFFICES ASSUME Inv, [Next]_vars PROVE Inv'
      OBVIOUS
    <2>2. PageInv' /\ SlotInv' /\ PatchInv'
      BY <2>1, NextPage, NextSlots, NextPatch
    <2>3. PatchRule(P)'
      BY <2>1, SamePage
    <2> QED BY <2>2, <2>3
  <1>3. Inv => NoMixedRow
    <2>1. SUFFICES ASSUME Inv, "reselected" \notin blame, NEW s \in P.patched
                   PROVE  ui[s] # "mixed"
      BY DEF NoMixedRow
    <2>2. s \in DOMAIN ui
      BY <2>1 DEF PageInv, FormRule
    <2> QED BY <2>1, <2>2 DEF PatchInv
  <1> HIDE DEF Rules, Inv
  <1>4. Rules => (Spec => []NoMixedRow)
    BY <1>1, <1>2, <1>3, PTL DEF Spec
  <1> QED BY <1>4 DEF Rules

-----------------------------------------------------------------------------
(* Loads that are on their way.                                            *)

\* Handler c in progress is waiting for list d, or will come to ask for it: it waits for
\* loads only, which catch their own failures, and so goes on to its next stage.
Brings(c, d) ==
  \/ c.k = 0 /\ d \in Op(c.op).get
  \/ c.k > 0 /\ Loading(P, c.op, c.k) /\ \E l \in c.out : d \in Op(l).get
  \/ /\ c.k > 0
     /\ \E k \in DOMAIN Op(c.op).wait :
          /\ k > c.k /\ \A j \in c.k..k : Loading(P, c.op, j)
          /\ \E l \in Op(c.op).wait[k] : d \in Op(l).get

\* Request o of a call is over, and it was for list d.
Settles(d) ==
  \E c \in calls : \E o \in c.out : d \in Op(o).get /\ (Answer(c, o) \/ Fail(c, o))

\* A handler that asks for a list has begun to bring it.
LEMMA BegunBrings ==
  ASSUME NEW c, NEW o, NEW d, Begun(c, o), Op(o).ask \in BOOLEAN, AsksFor(P, o, d)
  PROVE  Brings(c, d)
  <1>1. CASE Op(o).ask
    BY <1>1 DEF Begun, AsksFor, Brings, Op
  <1>2. CASE ~Op(o).ask
    <2>1. c.op = o /\ c.k = 1 /\ c.out = Op(o).wait[1]
      BY <1>2 DEF Begun, First
    <2>2. Loading(P, o, 1) /\ \E l \in Op(o).wait[1] : d \in Op(l).get
      BY <1>2 DEF AsksFor, Op
    <2> QED BY <2>1, <2>2 DEF Brings
  <1> QED BY <1>1, <1>2

\* A call that brings a list goes on to, while its requests for other lists are over.
LEMMA BringsOn ==
  ASSUME PageInv, NEW c \in calls, NEW d, Brings(c, d), NEW o \in c.out, d \notin Op(o).get, NEW w, NEW O, NEW run,
         Waits(c, o, w, O, run) \/ Advances(c, o, w, O, run) \/ Ends(c, o, w, O, run)
  PROVE  \E b \in calls' : Brings(b, d)
  <1>1. /\ c.k \in 0..Len(Op(c.op).wait) /\ Op(c.op).wait \in Seq(SUBSET Ops)
        /\ c.k = 0 => c.out = {c.op}
    BY DEF PageInv, CallOK, FormRule, Op, Ops
  <1>2. c.k \in Nat /\ c.k > 0
    BY <1>1 DEF Brings
  <1>3. CASE Waits(c, o, w, O, run)
    <2>1. PICK b : /\ Continues(b, c) /\ b.out = c.out \ {o} /\ b.k = c.k
                   /\ Follows(w, O, c.arg, c.env, <<>>, (calls \ {c}) \cup {b}, run)
      BY <1>3 DEF Waits
    <2>2. b \in calls' /\ b.op = c.op
      BY <2>1 DEF Follows, Continues
    <2>3. Brings(b, d)
      BY <1>2, <2>1, <2>2 DEF Brings
    <2> QED BY <2>2, <2>3
  <1>4. CASE Advances(c, o, w, O, run)
    <2>1. PICK b, v : /\ Continues(b, c) /\ b.out = Op(c.op).wait[c.k + 1] /\ b.k = c.k + 1 /\ c.out = {o}
                      /\ Follows(v, O, c.arg, c.env, <<>>, (calls \ {c}) \cup {b}, run)
      BY <1>4 DEF Advances
    <2>2. b \in calls' /\ b.op = c.op
      BY <2>1 DEF Follows, Continues
    <2>3. PICK k \in DOMAIN Op(c.op).wait : /\ k > c.k /\ \A j \in c.k..k : Loading(P, c.op, j)
                                            /\ \E l \in Op(c.op).wait[k] : d \in Op(l).get
      BY <1>2, <2>1 DEF Brings
    <2>4. k \in Nat
      BY <1>1
    <2>5. b.k > 0 /\ b.k \in c.k..k /\ \A j \in b.k..k : Loading(P, b.op, j)
      BY <1>2, <2>1, <2>2, <2>3, <2>4
    <2>6. CASE k = b.k
      BY <2>1, <2>2, <2>3, <2>5, <2>6 DEF Brings
    <2>7. CASE k # b.k
      <3>1. k > b.k
        BY <2>4, <2>5, <2>7
      <3> QED BY <2>2, <2>3, <2>5, <3>1 DEF Brings
    <2> QED BY <2>2, <2>6, <2>7
  <1>5. CASE Ends(c, o, w, O, run)
    <2>1. c.out = {o} /\ c.k + 1 \notin DOMAIN Op(c.op).wait
      BY <1>5 DEF Ends
    <2>2. \E k \in DOMAIN Op(c.op).wait : k > c.k
      BY <1>2, <2>1 DEF Brings
    <2> QED BY <1>1, <1>2, <2>1, <2>2
  <1> QED BY <1>3, <1>4, <1>5

\* So in every step a list that is brought is brought on, or a request for it is over.
LEMMA BringsStep ==
  ASSUME PageInv, [Next]_vars, NEW c \in calls, NEW d, Brings(c, d), ~Settles(d)
  PROVE  \E b \in calls' : Brings(b, d)
  <1>1. CallOK(P, c) /\ FormRule(P)
    BY DEF PageInv
  <1>2. CASE c \in calls'
    BY <1>2
  <1>3. ASSUME NEW w, NEW O, NEW a, NEW e, NEW fin, NEW run, Follows(w, O, a, e, fin, calls, run)
        PROVE  c \in calls'
    BY <1>3 DEF Follows
  <1>4. ASSUME NEW x \in calls, x # c, NEW o \in x.out, Answer(x, o) \/ Fail(x, o)
        PROVE  c \in calls'
    <2>1. PICK w, O, run : GivesUp(x, run) \/ Waits(x, o, w, O, run) \/ Advances(x, o, w, O, run) \/ Ends(x, o, w, O, run)
      BY <1>4, AnswerForms, FailForms
    <2>2. PICK v, R, fin, rest : Follows(v, R, x.arg, x.env, fin, rest, run) /\ calls \ {x} \subseteq rest
      <3>1. CASE GivesUp(x, run)
        BY <3>1 DEF GivesUp
      <3>2. CASE Waits(x, o, w, O, run)
        BY <3>2 DEF Waits
      <3>3. CASE Advances(x, o, w, O, run)
        BY <3>3 DEF Advances
      <3>4. CASE Ends(x, o, w, O, run)
        BY <3>4 DEF Ends
      <3> QED BY <2>1, <3>1, <3>2, <3>3, <3>4
    <2> QED BY <1>4, <2>2 DEF Follows
  <1>5. ASSUME NEW o \in c.out, Answer(c, o)
        PROVE  \E b \in calls' : Brings(b, d)
    <2>1. d \notin Op(o).get
      BY <1>5 DEF Settles
    <2>2. PICK w, O, run : Waits(c, o, w, O, run) \/ Advances(c, o, w, O, run) \/ Ends(c, o, w, O, run)
      BY <1>5, AnswerForms
    <2> QED BY <2>1, <2>2, BringsOn
  <1>6. ASSUME NEW o \in c.out, Fail(c, o)
        PROVE  \E b \in calls' : Brings(b, d)
    <2>1. d \notin Op(o).get
      BY <1>6 DEF Settles
    <2>2. ~Part(c, o) /\ o # c.op
      <3>1. CASE c.k = 0
        BY <1>1, <2>1, <3>1 DEF CallOK, Brings
      <3>2. CASE c.k > 0
        <4>1. Loading(P, c.op, c.k)
          <5>1. c.k \in Nat /\ \A k \in DOMAIN Op(c.op).wait : k \in Nat /\ (k > c.k => c.k \in c.k..k)
            BY <1>1 DEF CallOK, FormRule, Op, Ops
          <5> QED BY <3>2, <5>1 DEF Brings
        <4>2. o \in P.ops[c.op].wait[c.k]
          BY <1>1, <3>2 DEF CallOK
        <4> QED BY <4>1, <4>2 DEF Loading, Part, Op
      <3> QED BY <1>1, <3>1, <3>2 DEF CallOK
    <2>3. PICK w, O, run : Waits(c, o, w, O, run) \/ Advances(c, o, w, O, run) \/ Ends(c, o, w, O, run)
      BY <1>6, <2>2, FailForms
    <2> QED BY <2>1, <2>3, BringsOn
  <1>7. ASSUME NEW x \in calls, NEW o \in x.out, Serve(x, o)
        PROVE  \E b \in calls' : Brings(b, d)
    <2>1. PICK b : Continues(b, x) /\ b.out = x.out /\ b.k = x.k /\ calls' = (calls \ {x}) \cup {b}
      BY <1>7, ServeForm
    <2>2. CASE x = c
      BY <2>1, <2>2 DEF Continues, Brings
    <2> QED BY <2>1, <2>2
  <1>8. CASE Click
    <2>0. PICK o \in Ops : \E a : Refuse(o, a) \/ Local(o, a) \/ Send(o, a)
      BY <1>8, ClickForm
    <2>1. PICK a : Refuse(o, a) \/ Local(o, a) \/ Send(o, a)
      BY <2>0
    <2>2. \E w, O, e, fin, run : Follows(w, O, a, e, fin, calls, run)
      BY <2>1, RefuseFollows, LocalFollows, SendFollows
    <2> QED BY <1>3, <2>2
  <1>9. ASSUME NEW t \in P.timers, Tick(t)
        PROVE  c \in calls'
    <2>1. \E w, O, a, e, fin, run : Follows(w, O, a, e, fin, calls, run)
      BY <1>1, <1>9, TickFollows
    <2> QED BY <1>3, <2>1
  <1>10. CASE UNCHANGED vars \/ \E x \in Lists : Foreign(x)
    BY <1>10 DEF vars, Foreign
  <1> QED BY <1>2, <1>4, <1>5, <1>6, <1>7, <1>8, <1>9, <1>10 DEF Next, Reply

-----------------------------------------------------------------------------
(* Queries.                                                                *)

\* A list that is not known to be out of date, and is not on its way, was loaded with the
\* filters as they are.
QueryInv ==
  /\ ListRule(P) /\ QueryRule(P)
  /\ \A d \in Lists :
       /\ DOMAIN shown[d].q \subseteq Filters(P, d)
       /\ d \in late \/ (\E c \in calls : Brings(c, d)) \/ \A s \in DOMAIN shown[d].q : shown[d].q[s] = ui[s]

\* A click that sets a filter starts the loads of the effect that watches it.
LEMMA FilterLoads ==
  ASSUME PageInv, QueryRule(P), NEW d \in Lists, NEW s \in Filters(P, d), NEW o \in Ops, NEW a,
         Offered(o), Local(o, a), s \in DOMAIN Op(o).ok, ui'[s] # ui[s]
  PROVE  \E b \in calls' : Brings(b, d)
  <1> DEFINE w == Assign(ui, Op(o).ok, a, Env(ui))
             begun == Before(w, Opening({}), a, Env(ui))
             started == Assign(begun, <<>>, a, Env(ui))
             run == Effects(ui, started)
  <1>1. FormRule(P) /\ DOMAIN ui = DOMAIN P.init /\ s \in DOMAIN P.init
    BY DEF PageInv, QueryRule, Lists
  <1>2. PICK e \in P.effects :
           /\ s \in e.watch /\ \E l \in e.runs : AsksFor(P, l, d)
           /\ DOMAIN e.when \subseteq DOMAIN P.init \ DOMAIN Op(o).ok
           /\ \A p \in P.panels : o \in DOMAIN p.offers => \A t \in DOMAIN e.when :
                t \in DOMAIN p.when /\ p.when[t] = e.when[t]
    BY DEF QueryRule, Lists, Touches, Later, Op, Ops
  <1>3. \A q \in Ops : s \notin DOMAIN Op(q).pre
    BY DEF QueryRule, Lists, Touches, Op, Ops
  <1>4. DOMAIN started = DOMAIN ui /\ \A t \in DOMAIN ui : started[t] = w[t]
    <2>1. DOMAIN w = DOMAIN ui
      BY AssignSlot
    <2>2. Opening({}) = {}
      BY DEF Opening
    <2> HIDE DEF w
    <2>3. DOMAIN begun = DOMAIN ui /\ \A t \in DOMAIN ui : begun[t] = w[t]
      BY <2>1, <2>2, BeforeSlot
    <2> HIDE DEF begun
    <2>4. \A t : t \notin DOMAIN <<>>
      OBVIOUS
    <2> QED BY <2>3, <2>4, AssignSlot
  <1>5. \A t \in DOMAIN ui \ DOMAIN Op(o).ok : w[t] = ui[t]
    BY AssignSlot
  <1>6. /\ ui' = Before(started, Opening(run), "none", Env(started))
        /\ {Call(Tag("effect", l), "effect", l, "none", Env(started)) : l \in run} \subseteq calls'
    BY DEF Local, Render
  <1>7. \A l \in run : l \in Ops /\ Async(l)
    BY <1>1, EffectsRestarted, StartedAsync
  <1> HIDE DEF w, begun, started
  <1>8. started[s] # ui[s]
    <2> HIDE DEF run
    <2>1. Opening(run) \subseteq Ops
      BY <1>1, <1>7, OpeningOps
    <2>2. ui'[s] = started[s]
      BY <1>1, <1>3, <1>4, <1>6, <2>1, BeforeSlot
    <2> QED BY <2>2
  <1>9. Holds(started, e.when, "none")
    <2>1. PICK p \in P.panels : o \in DOMAIN p.offers /\ Holds(ui, p.when, "none")
      BY DEF Offered
    <2>2. ASSUME NEW t \in DOMAIN e.when
          PROVE  /\ started[t] = ui[t]
                 /\ t \in DOMAIN p.when /\ p.when[t] = e.when[t]
      BY <1>1, <1>2, <1>4, <1>5, <2>1, <2>2
    <2> QED BY <2>1, <2>2 DEF Holds
  <1>10. e.runs \subseteq run
    BY <1>2, <1>8, <1>9 DEF Effects
  <1> HIDE DEF run
  <1>11. PICK l \in run : AsksFor(P, l, d)
    BY <1>2, <1>10
  <1> DEFINE b == Call(Tag("effect", l), "effect", l, "none", Env(started))
  <1>12. b \in calls'
    BY <1>6
  <1>13. \E x, y : New(b, l, x, y)
    BY DEF New
  <1> HIDE DEF b
  <1>14. Begun(b, l) /\ Op(l).ask \in BOOLEAN
    BY <1>1, <1>7, <1>13, NewShape DEF FormRule, Op, Ops
  <1> QED BY <1>11, <1>12, <1>14, BegunBrings

\* So a filter stays as it is, or the lists it is for are loaded.
LEMMA FilterStep ==
  ASSUME PageInv, QueryRule(P), [Next]_vars, NEW d \in Lists, NEW s \in Filters(P, d),
         ~ \E b \in calls' : Brings(b, d)
  PROVE  ui'[s] = ui[s]
  <1> DEFINE S == {ui[s]}
             A == {"none"} \cup {c.arg : c \in calls} \cup UNION {Args(o) : o \in Ops}
  <1>1. s \in DOMAIN ui
    BY DEF PageInv, QueryRule, Lists
  <1>2. ASSUME NEW o \in Ops, Touches(Op(o), s)
        PROVE  /\ ~Op(o).ask /\ o \notin Awaited(P)
               /\ \A as \in {Op(o).pre, Op(o).refuse, Op(o).bad, Op(o).end, Op(o).after} : s \notin DOMAIN as
    BY <1>2 DEF QueryRule, Lists, Op, Ops
  <1>3. Closed(s, S, A)
    <2>1. ASSUME NEW o \in Ops, NEW as \in {Op(o).pre, Op(o).refuse, Op(o).bad, Op(o).end, Op(o).after}
          PROVE  s \notin DOMAIN as
      BY <1>2 DEF Touches, Later
    <2> QED BY <2>1 DEF Closed
  <1>4. ASSUME NEW c \in calls, NEW o \in c.out
        PROVE  s \notin DOMAIN Done(c, o)
    <2>1. o \in Ops /\ (Op(o).ask \/ o \in Awaited(P))
      BY OutOps DEF PageInv
    <2>2. ~Touches(Op(o), s)
      BY <1>2, <2>1
    <2>3. s \notin DOMAIN Op(o).shut \cup DOMAIN Op(o).ok \cup DOMAIN Op(o).end
      BY <2>2 DEF Touches, Later
    <2> QED BY <2>3, DoneSlot
  <1>5. ASSUME NEW o \in Ops, NEW a \in A, Offered(o), Local(o, a), s \in DOMAIN Op(o).ok,
               Value(Op(o).ok[s], ui[s], a, Was(Env(ui), s)) \notin S
        PROVE  ui'[s] \in S
    BY <1>5, FilterLoads
  <1>6. "none" \in A /\ ui[s] \in S /\ (\A c \in calls : c.arg \in A) /\ \A o \in Ops : Args(o) \subseteq A
    OBVIOUS
  <1> HIDE DEF A, S
  <1>7. ui'[s] \in S
    BY <1>1, <1>3, <1>4, <1>5, <1>6, ClosedStep
  <1> QED BY <1>7 DEF S

LEMMA NextQuery ==
  ASSUME PageInv, VersionInv, QueryInv, [Next]_vars
  PROVE  QueryInv'
  <1>1. P' = P /\ Lists' = Lists /\ FormRule(P)
    BY SamePage DEF PageInv, Lists
  <1>2. \A o \in Ops : /\ Op(o).get \cap (Op(o).put \cup Op(o).patch) = {} /\ Op(o).blank \subseteq Op(o).get
                       /\ \A d \in Op(o).get : Op(o).reads \subseteq Filters(P, d)
    BY DEF QueryInv, ListRule, Filters, Op, Ops
  <1>3. ASSUME NEW d \in Lists
        PROVE  /\ DOMAIN shown'[d].q \subseteq Filters(P, d)
               /\ \/ d \in late' \/ \E c \in calls' : Brings(c, d)
                  \/ \A s \in DOMAIN shown'[d].q : shown'[d].q[s] = ui'[s]
    <2>1. ASSUME NEW c \in calls, NEW o \in c.out, Answer(c, o), d \in Op(o).get
          PROVE  /\ DOMAIN shown'[d].q \subseteq Filters(P, d)
                 /\ d \in late' \/ \A s \in DOMAIN shown'[d].q : shown'[d].q[s] = ui'[s]
      <3> DEFINE q == [s \in Op(o).reads |-> c.env[s]]
                 clean == \A s \in Op(o).reads : q[s] = ui'[s]
      <3>1. PICK at \in {c.from, srv}, got \in Received(o) :
               /\ shown'[d] = IF d \in got THEN [v |-> at[d], q |-> q]
                              ELSE IF d \in Op(o).blank THEN [v |-> 0, q |-> q]
                              ELSE IF d \in Op(o).patch THEN [shown[d] EXCEPT !.v = srv[d]]
                              ELSE shown[d]
               /\ d \in late' <=> d \notin got \/ ~clean
        BY <2>1 DEF Answer
      <3>2. o \in Ops
        BY OutOps DEF PageInv
      <3>3. d \notin Op(o).patch /\ DOMAIN q \subseteq Filters(P, d)
        BY <1>2, <2>1, <3>2
      <3>4. d \in got /\ clean => \A s \in DOMAIN shown'[d].q : shown'[d].q[s] = ui'[s]
        BY <3>1
      <3>5. DOMAIN shown'[d].q \subseteq Filters(P, d)
        <4>1. DOMAIN shown[d].q \subseteq Filters(P, d)
          BY DEF QueryInv
        <4> HIDE DEF q, clean
        <4> QED BY <3>1, <3>3, <4>1
      <3> QED BY <3>1, <3>4, <3>5
    <2>2. ASSUME NEW c \in calls, NEW o \in c.out, Fail(c, o), d \in Op(o).get
          PROVE  d \in late' /\ shown' = shown
      BY <2>2 DEF Fail
    <2>3. CASE ~Settles(d)
      <3>1. shown'[d].q = shown[d].q /\ (d \in late => d \in late')
        <4>1. ASSUME NEW c \in calls, NEW o \in c.out, Answer(c, o)
              PROVE  shown'[d].q = shown[d].q /\ (d \in late => d \in late')
          <5>1. d \notin Op(o).get /\ o \in Ops
            BY <2>3, <4>1, OutOps DEF Settles, PageInv
          <5>2. d \notin Op(o).blank /\ \A got \in Received(o) : d \notin got
            BY <1>2, <5>1 DEF Received
          <5>3. shown'[d] = (IF d \in Op(o).patch THEN [shown[d] EXCEPT !.v = srv[d]] ELSE shown[d])
            BY <4>1, <5>2 DEF Answer
          <5>4. shown[d] = [v |-> shown[d].v, q |-> shown[d].q]
            BY DEF VersionInv
          <5>5. [shown[d] EXCEPT !.v = srv[d]].q = shown[d].q
            BY <5>4
          <5>6. d \in late => d \in late'
            BY <4>1, <5>1 DEF Answer
          <5> QED BY <5>3, <5>5, <5>6
        <4>2. ASSUME NEW c \in calls, NEW o \in c.out, Fail(c, o)
              PROVE  shown' = shown /\ late \subseteq late'
          BY <4>2 DEF Fail
        <4>3. \/ UNCHANGED <<shown, late>>
              \/ \E c \in calls : \E o \in c.out : Answer(c, o) \/ Fail(c, o)
          BY DEF Next, Click, Refuse, Local, Send, Serve, Reply, Tick, Foreign, vars
        <4> QED BY <4>1, <4>2, <4>3
      <3>2. (\E c \in calls : Brings(c, d)) => \E c \in calls' : Brings(c, d)
        BY <2>3, BringsStep
      <3>3. \A s \in Filters(P, d) : ui'[s] = ui[s] \/ \E c \in calls' : Brings(c, d)
        BY FilterStep DEF QueryInv
      <3> QED BY <3>1, <3>2, <3>3 DEF QueryInv
    <2>4. \/ ~Settles(d)
          \/ \E c \in calls : \E o \in c.out : Answer(c, o) /\ d \in Op(o).get
          \/ \E c \in calls : \E o \in c.out : Fail(c, o) /\ d \in Op(o).get
      BY DEF Settles
    <2>5. DOMAIN shown[d].q \subseteq Filters(P, d)
      BY DEF QueryInv
    <2> QED BY <2>1, <2>2, <2>3, <2>4, <2>5
  <1> QED BY <1>1, <1>3 DEF QueryInv, Brings, Op

\* When all answers are in, a list shows the result of the query that the filters on
\* the page describe, on every page whose table follows the rules for lists and for
\* filters (an effect that lists the filter among what it watches, mounted where the
\* filter is): a change of the filter while a load with the old value is in progress
\* starts another one, and whichever of the two is answered last, the list does not
\* keep the answer to the old question unnoticed.
THEOREM QueriesShown ==
  (\A p \in DOMAIN Pages : FormRule(Pages[p]) /\ ListRule(Pages[p]) /\ QueryRule(Pages[p]))
    => (Spec => []SettledShowsQuery)
  <1> DEFINE Rules == \A p \in DOMAIN Pages : FormRule(Pages[p]) /\ ListRule(Pages[p]) /\ QueryRule(Pages[p])
             Inv == PageInv /\ VersionInv /\ QueryInv
  <1>1. Rules /\ Init => Inv
    <2>1. SUFFICES ASSUME Rules, Init PROVE Inv
      OBVIOUS
    <2>2. FormRule(P) /\ ListRule(P) /\ QueryRule(P)
      BY <2>1 DEF P, Init
    <2>3. \A d \in Lists : DOMAIN shown[d].q = {}
      BY <2>1 DEF Init
    <2>4. QueryInv
      BY <2>2, <2>3 DEF QueryInv
    <2> QED BY <2>1, <2>2, <2>4, InitForm, InitVersions
  <1>2. Inv /\ [Next]_vars => Inv'
    BY NextPage, NextVersions, NextQuery
  <1>3. Inv => SettledShowsQuery
    BY DEF QueryInv, SettledShowsQuery
  <1> HIDE DEF Rules, Inv
  <1>4. Rules => (Spec => []SettledShowsQuery)
    BY <1>1, <1>2, <1>3, PTL DEF Spec
  <1> QED BY <1>4 DEF Rules

-----------------------------------------------------------------------------
(* The page's own writes.                                                  *)

\* A list of which no write is known to be missing, and that is not on its way, is as
\* new as the page's last write to it.
OwnInv ==
  /\ ListRule(P) /\ RefreshRule(P)
  /\ \A d \in Lists : d \in stale \/ (\E c \in calls : Brings(c, d)) \/ shown[d].v >= own[d]

\* The answer to a write patches the list that it changed, or its load is on the way.
LEMMA WriteRefreshes ==
  ASSUME PageInv, RefreshRule(P), NEW c \in calls, NEW o \in c.out, Answer(c, o),
         NEW d \in Op(o).put \ Unrefreshed(o)
  PROVE  d \in Op(o).patch \/ \E b \in calls' : Brings(b, d)
  <1>1. FormRule(P) /\ CallOK(P, c) /\ o \in Ops /\ c.op \in Ops
    BY OutOps DEF PageInv
  <1>2. \/ d \in Op(o).patch
        \/ \E l \in Op(o).go : AsksFor(P, l, d)
        \/ /\ Op(o).ask /\ o \notin Awaited(P)
           /\ \E k \in DOMAIN Op(o).wait :
                /\ \A j \in 1..k : Loading(P, o, j)
                /\ \E l \in Op(o).wait[k] : d \in Op(l).get
    BY <1>1 DEF RefreshRule, Unrefreshed, Op, Ops
  <1>3. PICK w, O, run : /\ O = Gone(c, o)
                         /\ Waits(c, o, w, O, run) \/ Advances(c, o, w, O, run) \/ Ends(c, o, w, O, run)
    BY AnswerForms
  <1>4. ASSUME NEW l \in Op(o).go, AsksFor(P, l, d)
        PROVE  \E b \in calls' : Brings(b, d)
    <2>1. l \in O
      BY <1>3 DEF Gone, Part
    <2>2. l \in Ops
      BY <1>1, GoneChained, StartedAsync, <1>3, <2>1 DEF Restarted
    <2>3. PICK v, fin, rest : Follows(v, O, c.arg, c.env, fin, rest, run)
      BY <1>3 DEF Waits, Advances, Ends
    <2>4. PICK b \in calls' : Begun(b, l)
      BY <2>1, <2>3 DEF Follows
    <2>5. Op(l).ask \in BOOLEAN
      BY <1>1, <2>2 DEF FormRule, Op, Ops
    <2> QED BY <1>4, <2>4, <2>5, BegunBrings
  <1>5. ASSUME Op(o).ask, o \notin Awaited(P),
               NEW k \in DOMAIN Op(o).wait, \A j \in 1..k : Loading(P, o, j), \E l \in Op(o).wait[k] : d \in Op(l).get
        PROVE  \E b \in calls' : Brings(b, d)
    <2>1. o = c.op /\ c.k = 0 /\ c.out = {o}
      BY <1>1, <1>5, OutOps DEF CallOK
    <2>2. Op(o).wait \in Seq(SUBSET Ops) /\ k \in 1..Len(Op(o).wait) /\ 1 \in DOMAIN Op(o).wait
      BY <1>1 DEF FormRule, Op, Ops
    <2>3. Advances(c, o, w, O, run)
      <3>1. ~Waits(c, o, w, O, run)
        BY <2>1 DEF Waits, Continues, CallOK
      <3>2. ~Ends(c, o, w, O, run)
        BY <2>1, <2>2 DEF Ends
      <3> QED BY <1>3, <3>1, <3>2
    <2>4. PICK b, v : /\ Continues(b, c) /\ b.out = Op(c.op).wait[c.k + 1] /\ b.k = c.k + 1
                      /\ Follows(v, O, c.arg, c.env, <<>>, (calls \ {c}) \cup {b}, run)
      BY <2>3 DEF Advances
    <2>5. b \in calls' /\ b.op = o /\ b.k = 1 /\ b.out = Op(o).wait[1]
      BY <2>1, <2>4 DEF Follows, Continues
    <2>6. CASE k = 1
      BY <1>5, <2>5, <2>6 DEF Brings
    <2>7. CASE k > 1
      BY <1>5, <2>5, <2>7 DEF Brings
    <2> QED BY <2>2, <2>5, <2>6, <2>7
  <1> QED BY <1>2, <1>4, <1>5

LEMMA NextOwn ==
  ASSUME PageInv, VersionInv, OwnInv, [Next]_vars
  PROVE  OwnInv'
  <1>1. P' = P /\ Lists' = Lists /\ FormRule(P)
    BY SamePage DEF PageInv, Lists
  <1>2. \A o \in Ops : Op(o).get \cap (Op(o).put \cup Op(o).patch) = {} /\ Op(o).blank \subseteq Op(o).get
    BY DEF OwnInv, ListRule, Op, Ops
  <1>3. ASSUME NEW d \in Lists
        PROVE  d \in stale' \/ (\E c \in calls' : Brings(c, d)) \/ shown'[d].v >= own'[d]
    <2>1. /\ srv[d] \in Nat /\ own[d] \in Nat /\ own[d] <= srv[d]
          /\ shown[d] = [v |-> shown[d].v, q |-> shown[d].q] /\ shown[d].v \in 0..srv[d]
      BY DEF VersionInv
    <2>2. ASSUME NEW c \in calls, NEW o \in c.out, Answer(c, o), d \in Op(o).get
          PROVE  d \in stale' \/ shown'[d].v >= own'[d]
      <3> DEFINE q == [s \in Op(o).reads |-> c.env[s]]
      <3>0. PICK at \in {c.from, srv}, got \in Received(o) :
               /\ shown'[d] = IF d \in got THEN [v |-> at[d], q |-> q]
                              ELSE IF d \in Op(o).blank THEN [v |-> 0, q |-> q]
                              ELSE IF d \in Op(o).patch THEN [shown[d] EXCEPT !.v = srv[d]]
                              ELSE shown[d]
               /\ d \in stale' <=> d \notin got \/ c.from[d] < own[d]
        BY <2>2 DEF Answer
      <3>1. d \notin stale' => d \in got /\ ~(c.from[d] < own[d]) /\ shown'[d].v = at[d]
        BY <3>0
      <3> HIDE DEF q
      <3>2. own'[d] = own[d]
        BY <1>2, <2>2, OutOps DEF Answer, Wrote, PageInv
      <3>3. c.from[d] \in Nat
        <4>1. d \in Fetched(c.op)
          BY <2>2, OutFetched DEF PageInv
        <4> QED BY <2>1, <4>1 DEF VersionInv
      <3> QED BY <2>1, <3>0, <3>1, <3>2, <3>3
    <2>3. ASSUME NEW c \in calls, NEW o \in c.out, Fail(c, o), d \in Op(o).get
          PROVE  d \in stale'
      BY <2>3 DEF Fail
    <2>4. CASE ~Settles(d)
      <3> DEFINE Carries == /\ own'[d] = own[d] /\ shown'[d].v >= shown[d].v
                            /\ d \in stale => d \in stale'
                 Current == \/ d \in stale' \/ shown'[d].v >= own'[d]
                            \/ \E b \in calls' : Brings(b, d)
      <3>1. ASSUME NEW c \in calls, NEW o \in c.out, Answer(c, o)
            PROVE  Carries \/ Current
        <4>1. d \notin Op(o).get /\ o \in Ops
          BY <2>4, <3>1, OutOps DEF Settles, PageInv
        <4>2. d \notin Op(o).blank /\ \A got \in Received(o) : d \notin got
          BY <1>2, <4>1 DEF Received
        <4>3. shown'[d] = (IF d \in Op(o).patch THEN [shown[d] EXCEPT !.v = srv[d]] ELSE shown[d])
          BY <3>1, <4>2 DEF Answer
        <4>4. [shown[d] EXCEPT !.v = srv[d]].v = srv[d]
          BY <2>1
        <4>5. d \in stale' <=> d \in Unrefreshed(o) \/ (d \in stale /\ d \notin Op(o).put \ Op(o).patch)
          BY <3>1, <4>1 DEF Answer
        <4>6. own'[d] = IF d \in Op(o).put THEN srv[d] ELSE own[d]
          BY <3>1 DEF Answer, Wrote
        <4>7. CASE d \in Op(o).put
          <5>1. d \in Op(o).put \ Unrefreshed(o) => d \in Op(o).patch \/ \E b \in calls' : Brings(b, d)
            BY <3>1, WriteRefreshes DEF OwnInv
          <5> QED BY <2>1, <4>3, <4>4, <4>5, <4>6, <4>7, <5>1
        <4>8. CASE d \notin Op(o).put
          BY <2>1, <4>3, <4>4, <4>5, <4>6, <4>8
        <4> QED BY <4>7, <4>8
      <3>2. ASSUME NEW c \in calls, NEW o \in c.out, Fail(c, o)
            PROVE  Carries \/ Current
        <4>1. shown' = shown /\ stale \subseteq stale'
          BY <3>2 DEF Fail
        <4>2. CASE o \in c.done
          <5>1. own'[d] = (IF d \in Op(o).put THEN srv[d] ELSE own[d]) /\ Op(o).put \subseteq stale'
            BY <3>2, <4>2 DEF Fail, Wrote
          <5> QED BY <2>1, <4>1, <5>1
        <4>3. CASE o \notin c.done
          <5>1. own' = own
            BY <3>2, <4>3 DEF Fail
          <5> QED BY <2>1, <4>1, <5>1
        <4> QED BY <4>2, <4>3
      <3>3. \/ UNCHANGED <<shown, own, stale>>
            \/ \E c \in calls : \E o \in c.out : Answer(c, o) \/ Fail(c, o)
        BY DEF Next, Click, Refuse, Local, Send, Serve, Reply, Tick, Foreign, vars
      <3>4. (\E c \in calls : Brings(c, d)) => \E c \in calls' : Brings(c, d)
        BY <2>4, BringsStep
      <3>5. Carries \/ Current
        <4>1. UNCHANGED <<shown, own, stale>> => Carries
          BY <2>1
        <4> HIDE DEF Carries, Current
        <4> QED BY <3>1, <3>2, <3>3, <4>1
      <3>6. shown'[d].v \in Nat
        <4>1. VersionInv'
          BY NextVersions
        <4>2. shown'[d].v \in 0..srv'[d] /\ srv'[d] \in Nat
          BY <1>1, <4>1 DEF VersionInv
        <4> QED BY <4>2
      <3>7. d \in stale \/ (\E c \in calls : Brings(c, d)) \/ shown[d].v >= own[d]
        BY DEF OwnInv
      <3>8. Carries /\ shown[d].v >= own[d] => shown'[d].v >= own'[d]
        BY <2>1, <3>6
      <3> QED BY <3>4, <3>5, <3>7, <3>8
    <2>5. \/ ~Settles(d)
          \/ \E c \in calls : \E o \in c.out : Answer(c, o) /\ d \in Op(o).get
          \/ \E c \in calls : \E o \in c.out : Fail(c, o) /\ d \in Op(o).get
      BY DEF Settles
    <2> QED BY <2>2, <2>3, <2>4, <2>5
  <1> QED BY <1>1, <1>3 DEF OwnInv, Brings, Op

\* On every page whose table follows the rules for lists and for reloads (what a handler
\* writes it patches or loads again, unless the table names the list as unrefreshed for
\* that handler): when all answers are in, what the page wrote is on display.  Excepted
\* is a list, until its next load, if that write was one of an unrefreshed list, or its
\* answer was lost, or if the last load failed or was sent before the write.  No order of
\* the answers, no other handler and no other page brings an old list back.
THEOREM OwnWritesStay ==
  (\A p \in DOMAIN Pages : FormRule(Pages[p]) /\ ListRule(Pages[p]) /\ RefreshRule(Pages[p]))
    => (Spec => []OwnWritesShown)
  <1> DEFINE Rules == \A p \in DOMAIN Pages : FormRule(Pages[p]) /\ ListRule(Pages[p]) /\ RefreshRule(Pages[p])
             Inv == PageInv /\ VersionInv /\ OwnInv
  <1>1. Rules /\ Init => Inv
    <2>1. SUFFICES ASSUME Rules, Init PROVE Inv
      OBVIOUS
    <2>2. FormRule(P) /\ ListRule(P) /\ RefreshRule(P)
      BY <2>1 DEF P, Init
    <2>3. \A d \in Lists : shown[d].v >= own[d]
      BY <2>1 DEF Init
    <2>4. OwnInv
      BY <2>2, <2>3 DEF OwnInv
    <2> QED BY <2>1, <2>2, <2>4, InitForm, InitVersions
  <1>2. Inv /\ [Next]_vars => Inv'
    BY NextPage, NextVersions, NextOwn
  <1>3. Inv => OwnWritesShown
    BY DEF OwnInv, OwnWritesShown
  <1> HIDE DEF Rules, Inv
  <1>4. Rules => (Spec => []OwnWritesShown)
    BY <1>1, <1>2, <1>3, PTL DEF Spec
  <1> QED BY <1>4 DEF Rules
-----------------------------------------------------------------------------
(* Slots that clicks and answers assign.                                   *)

\* The assignments as, with argument a, are all that a step does to the slots W.
Makes(W, as, a) ==
  \A s \in W : IF s \in DOMAIN as THEN \E z : ui'[s] = Value(as[s], ui[s], a, z) ELSE ui'[s] = ui[s]

\* No handler that starts without a click assigns a steady slot before its first await.
LEMMA SteadyOpening ==
  ASSUME FormRule(P), NEW W, Steady(P, W), NEW s \in W, NEW O,
         \A o \in O : o \in Ops /\ Async(o) /\ (o \in Unclicked(P) \/ s \notin DOMAIN Op(o).pre),
         NEW o \in Opening(O)
  PROVE  s \notin DOMAIN Op(o).pre
  <1>1. PICK q \in O : o = q \/ o \in First(q)
    BY DEF Opening
  <1>2. ASSUME o # q PROVE o \in Ops /\ o \in Awaited(P)
    <2>1. ~Op(q).ask /\ o \in Op(q).wait[1]
      BY <1>1, <1>2 DEF First
    <2>2. Op(q).wait \in Seq(SUBSET Ops) /\ Op(q).wait # <<>> /\ q \in Ops
      BY <2>1 DEF FormRule, Op, Ops, Async
    <2>3. 1 \in DOMAIN Op(q).wait
      BY <2>2
    <2> QED BY <2>1, <2>2, <2>3 DEF Awaited, Op, Ops
  <1>3. ASSUME NEW q2 \in Ops, q2 \in Unclicked(P) PROVE s \notin DOMAIN Op(q2).pre
    BY <1>3 DEF Steady, Op, Ops
  <1> QED BY <1>1, <1>2, <1>3 DEF Unclicked

\* Where the page goes on without a click, it stays as it is.
LEMMA FollowsSteady ==
  ASSUME FormRule(P), NEW W, Steady(P, W), NEW s \in W, NEW w, s \in DOMAIN w, NEW O, O \subseteq Restarted(P),
         NEW a, NEW e, NEW fin, s \notin DOMAIN fin, NEW rest, NEW run, Follows(w, O, a, e, fin, rest, run)
  PROVE  ui'[s] = w[s]
  <1>1. run \subseteq Restarted(P)
    BY DEF Follows
  <1>2. \A o \in O \cup run : o \in Ops /\ Async(o) /\ o \in Unclicked(P)
    BY <1>1, StartedAsync DEF Unclicked
  <1>3. \A o \in Opening(O) \cup Opening(run) : s \notin DOMAIN Op(o).pre
    BY <1>2, SteadyOpening
  <1> QED BY <1>3 DEF Follows

\* A click without a request, and one that sends a request.
LEMMA LocalSteady ==
  ASSUME PageInv, NEW W, W \subseteq DOMAIN ui, Steady(P, W), NEW o, NEW a, Local(o, a)
  PROVE  Makes(W, Op(o).ok, a)
  <1> DEFINE w == Assign(ui, Op(o).ok, a, Env(ui))
  <1>1. PICK O, e, fin, run : Follows(w, O, a, e, fin, calls, run) /\ O = {} /\ fin = <<>>
    BY LocalFollows
  <1>2. \A s \in DOMAIN ui : s \in DOMAIN w /\ w[s] = IF s \in DOMAIN Op(o).ok THEN Value(Op(o).ok[s], ui[s], a, Was(Env(ui), s)) ELSE ui[s]
    BY AssignSlot
  <1> HIDE DEF w
  <1>3. \A s : s \notin DOMAIN <<>>
    OBVIOUS
  <1>4. \A s \in W : ui'[s] = w[s]
    BY <1>1, <1>2, <1>3, FollowsSteady DEF PageInv
  <1> QED BY <1>2, <1>4 DEF Makes

LEMMA SendSteady ==
  ASSUME PageInv, NEW W, W \subseteq DOMAIN ui, Steady(P, W), NEW o \in Ops, NEW a, Send(o, a)
  PROVE  Makes(W, Op(o).pre, a)
  <1>1. PICK O, e, fin, run : Follows(ui, O, a, e, fin, calls, run) /\ O = {o} /\ fin = <<>>
    BY SendFollows
  <1>2. Async(o) /\ FormRule(P)
    BY DEF Send, PageInv
  <1>3. ASSUME NEW s \in W
        PROVE  IF s \in DOMAIN Op(o).pre THEN \E z : ui'[s] = Value(Op(o).pre[s], ui[s], a, z) ELSE ui'[s] = ui[s]
    <2>1. \A q \in run : q \in Ops /\ Async(q) /\ q \in Unclicked(P)
      BY <1>1, <1>2, StartedAsync DEF Follows, Unclicked
    <2>2. \A q \in Opening(run) : s \notin DOMAIN Op(q).pre
      BY <1>2, <2>1, SteadyOpening
    <2>3. \A x : x \notin DOMAIN <<>>
      OBVIOUS
    <2>4. \/ \E q \in Opening({o}) : s \in DOMAIN Op(q).pre /\ ui'[s] = Value(Op(q).pre[s], ui[s], a, Was(e, s))
          \/ ui'[s] = ui[s] /\ \A q \in Opening({o}) : s \notin DOMAIN Op(q).pre
      BY <1>1, <2>2, <2>3 DEF Follows
    <2>5. o \in Opening({o})
      BY DEF Opening
    <2>6. CASE s \notin DOMAIN Op(o).pre
      <3>1. \A q \in Opening({o}) : s \notin DOMAIN Op(q).pre
        BY <1>2, <2>6, SteadyOpening
      <3> QED BY <2>4, <2>6, <3>1
    <2>7. CASE s \in DOMAIN Op(o).pre
      <3>1. ASSUME NEW q \in First(o), q # o PROVE s \notin DOMAIN Op(q).pre
        <4>1. ~Op(o).ask /\ q \in Op(o).wait[1]
          BY <3>1 DEF First
        <4>2. Op(o).wait \in Seq(SUBSET Ops) /\ Op(o).wait # <<>>
          BY <1>2, <4>1 DEF FormRule, Op, Ops, Async
        <4>3. 1 \in DOMAIN Op(o).wait
          BY <4>2
        <4>4. q \in Unclicked(P) /\ q \in Ops
          BY <4>1, <4>2, <4>3 DEF Unclicked, Awaited, Op, Ops
        <4> QED BY <4>4 DEF Steady, Op, Ops
      <3>2. \A q \in Opening({o}) : s \in DOMAIN Op(q).pre => q = o
        BY <3>1 DEF Opening
      <3> QED BY <2>4, <2>5, <2>7, <3>2
    <2> QED BY <2>6, <2>7
  <1> QED BY <1>3 DEF Makes

\* A call of which a request was answered.
LEMMA ResumedSteady ==
  ASSUME PageInv, NEW W, Steady(P, W), NEW s \in W, NEW c \in calls, NEW o \in c.out, NEW w, s \in DOMAIN w,
         NEW O, O \subseteq Chained(P), NEW run,
         Waits(c, o, w, O, run) \/ Advances(c, o, w, O, run) \/ Ends(c, o, w, O, run)
  PROVE  ui'[s] = w[s]
  <1>1. FormRule(P) /\ CallOK(P, c) /\ c.op \in Ops /\ O \subseteq Restarted(P)
    BY DEF PageInv, CallOK, Ops, Restarted
  <1>2. \A x : x \notin DOMAIN <<>>
    OBVIOUS
  <1>3. CASE Waits(c, o, w, O, run)
    <2>1. PICK a, e, fin, rest : Follows(w, O, a, e, fin, rest, run) /\ fin = <<>>
      BY <1>3 DEF Waits
    <2> QED BY <1>1, <1>2, <2>1, FollowsSteady
  <1>4. CASE Advances(c, o, w, O, run)
    <2>1. PICK b, a, e, fin, rest :
             /\ Follows(Before(w, b.out, a, e), O, a, e, fin, rest, run) /\ fin = <<>>
             /\ b.out = Op(c.op).wait[c.k + 1]
      BY <1>4 DEF Advances
    <2>2. c.k + 1 \in DOMAIN Op(c.op).wait
      BY <1>4 DEF Advances
    <2>3. \A l \in b.out : l \in Awaited(P) /\ l \in Ops
      BY <1>1, <2>1, <2>2 DEF Awaited, Op, Ops, FormRule
    <2>4. \A l \in b.out : s \notin DOMAIN Op(l).pre
      BY <2>3 DEF Steady, Unclicked, Op, Ops
    <2> DEFINE v == Before(w, b.out, a, e)
    <2>5. s \in DOMAIN v /\ v[s] = w[s]
      BY <2>4, BeforeSlot
    <2> HIDE DEF v
    <2>6. Follows(v, O, a, e, fin, rest, run)
      BY <2>1 DEF v
    <2> QED BY <1>1, <1>2, <2>1, <2>5, <2>6, FollowsSteady
  <1>5. CASE Ends(c, o, w, O, run)
    <2>1. PICK a, e, fin, rest : Follows(w, O, a, e, fin, rest, run) /\ fin = Merged(Op(c.op).end, Op(c.op).after)
      BY <1>5 DEF Ends
    <2>2. s \notin DOMAIN fin
      BY <1>1, <2>1 DEF Merged, Steady, Op, Ops
    <2> QED BY <1>1, <2>1, <2>2, FollowsSteady
  <1> QED BY <1>3, <1>4, <1>5

\* A good answer.
LEMMA AnswerSteady ==
  ASSUME PageInv, NEW W, W \subseteq DOMAIN ui, Steady(P, W), NEW c \in calls, NEW o \in c.out, Answer(c, o)
  PROVE  Makes(W, Op(o).ok, c.arg) /\ ~Plain(Op(o))
  <1> DEFINE w == Assign(ui, Done(c, o), c.arg, c.env)
  <1>1. PICK O, run : /\ Waits(c, o, w, O, run) \/ Advances(c, o, w, O, run) \/ Ends(c, o, w, O, run)
                      /\ O = Gone(c, o)
    BY AnswerForms
  <1>2. o \in Ops /\ FormRule(P) /\ ((o = c.op /\ Op(o).ask) \/ o \in Awaited(P))
    BY OutOps DEF PageInv
  <1>3. O \subseteq Chained(P)
    BY <1>1, <1>2, GoneChained
  <1>4. \A s \in DOMAIN ui : s \in DOMAIN w /\ w[s] = IF s \in DOMAIN Done(c, o) THEN Value(Done(c, o)[s], ui[s], c.arg, Was(c.env, s)) ELSE ui[s]
    BY AssignSlot
  <1> HIDE DEF w
  <1>5. ASSUME NEW s \in W
        PROVE  IF s \in DOMAIN Op(o).ok THEN \E z : ui'[s] = Value(Op(o).ok[s], ui[s], c.arg, z) ELSE ui'[s] = ui[s]
    <2>1. ui'[s] = w[s]
      BY <1>1, <1>3, <1>4, ResumedSteady
    <2>2. s \notin DOMAIN Op(o).shut /\ s \notin DOMAIN Op(o).end
      BY <1>2 DEF Steady, Op, Ops
    <2>3. s \in DOMAIN Done(c, o) <=> s \in DOMAIN Op(o).ok
      BY <2>2 DEF Done, Merged
    <2>4. s \in DOMAIN Done(c, o) => Done(c, o)[s] = Op(o).ok[s]
      BY <2>2, DoneSlot
    <2> QED BY <1>4, <2>1, <2>3, <2>4
  <1>6. ~Plain(Op(o))
    BY <1>2 DEF Steady, Plain, Op, Ops
  <1> QED BY <1>5, <1>6 DEF Makes

\* A failure: of the handler, or of a load that it awaits.
LEMMA FailSteady ==
  ASSUME PageInv, NEW W, W \subseteq DOMAIN ui, Steady(P, W), NEW c \in calls, NEW o \in c.out, Fail(c, o)
  PROVE  \E h \in {o, c.op} : h \in Ops /\ Makes(W, Op(h).bad, c.arg)
  <1> DEFINE v(h) == Assign(ui, Merged(Op(h).end, Op(h).bad), c.arg, c.env)
  <1>1. o \in Ops /\ c.op \in Ops /\ FormRule(P)
    BY OutOps DEF PageInv
  <1>2. PICK h \in {o, c.op} : \A s \in W : ui'[s] = v(h)[s]
    <2>1. PICK run : \/ GivesUp(c, run)
                     \/ Waits(c, o, v(o), {}, run) \/ Advances(c, o, v(o), {}, run) \/ Ends(c, o, v(o), {}, run)
      BY FailForms
    <2>2. CASE GivesUp(c, run)
      <3>1. PICK w, O, a, e, fin, rest : Follows(w, O, a, e, fin, rest, run) /\ O = {} /\ fin = <<>> /\ w = v(c.op)
        BY <2>2 DEF GivesUp
      <3>2. \A s \in W : s \in DOMAIN w /\ s \notin DOMAIN fin
        BY <3>1, AssignSlot
      <3>3. O \subseteq Restarted(P)
        BY <3>1
      <3> HIDE DEF v
      <3>4. \A s \in W : ui'[s] = w[s]
        BY <1>1, <3>1, <3>2, <3>3, FollowsSteady
      <3> QED BY <3>1, <3>4
    <2>3. CASE Waits(c, o, v(o), {}, run) \/ Advances(c, o, v(o), {}, run) \/ Ends(c, o, v(o), {}, run)
      <3>1. \A s \in W : s \in DOMAIN v(o)
        BY AssignSlot
      <3>2. {} \subseteq Chained(P)
        OBVIOUS
      <3> HIDE DEF v
      <3>3. \A s \in W : ui'[s] = v(o)[s]
        BY <2>3, <3>1, <3>2, ResumedSteady
      <3> QED BY <3>3
    <2> QED BY <2>1, <2>2, <2>3
  <1>3. ASSUME NEW s \in W
        PROVE  IF s \in DOMAIN Op(h).bad THEN \E z : ui'[s] = Value(Op(h).bad[s], ui[s], c.arg, z) ELSE ui'[s] = ui[s]
    <2> DEFINE as == Merged(Op(h).end, Op(h).bad)
    <2>1. s \notin DOMAIN Op(h).end
      BY <1>1 DEF Steady, Op, Ops
    <2>2. (s \in DOMAIN as <=> s \in DOMAIN Op(h).bad) /\ (s \in DOMAIN as => as[s] = Op(h).bad[s])
      BY <2>1 DEF Merged
    <2> HIDE DEF as
    <2>3. ui'[s] = IF s \in DOMAIN as THEN Value(as[s], ui[s], c.arg, Was(c.env, s)) ELSE ui[s]
      BY <1>2, AssignSlot DEF as
    <2> QED BY <2>2, <2>3
  <1> QED BY <1>1, <1>3 DEF Makes

\* So every step leaves steady slots alone, or is a click or an answer that assigns them.
LEMMA SteadyStep ==
  ASSUME PageInv, [Next]_vars, NEW W, W \subseteq DOMAIN ui, Steady(P, W)
  PROVE  \/ \A s \in W : ui'[s] = ui[s]
         \/ \E p \in InFront : \E o \in DOMAIN p.offers : \E a \in Args(o) :
              /\ o \in Ops /\ p \in P.panels /\ Holds(ui, p.when, "none") /\ Holds(ui, p.offers[o], a)
              /\ \/ Local(o, a) /\ Makes(W, Op(o).ok, a)
                 \/ Send(o, a) /\ Makes(W, Op(o).pre, a)
         \/ \E c \in calls : \E o \in c.out :
              \/ Answer(c, o) /\ Makes(W, Op(o).ok, c.arg) /\ ~Plain(Op(o))
              \/ Fail(c, o) /\ \E h \in {o, c.op} : h \in Ops /\ Makes(W, Op(h).bad, c.arg)
  <1>1. FormRule(P) /\ \A x : x \notin DOMAIN <<>>
    BY DEF PageInv
  <1>2. ASSUME NEW o \in Ops, NEW a, Refuse(o, a), NEW s \in W
        PROVE  ui'[s] = ui[s]
    <2> DEFINE w == Assign(ui, Op(o).refuse, a, Env(ui))
    <2>1. s \notin DOMAIN Op(o).refuse
      BY DEF Steady, Op, Ops
    <2>2. s \in DOMAIN w /\ w[s] = ui[s]
      BY <2>1, AssignSlot
    <2> HIDE DEF w
    <2>3. PICK O, e, fin, run : Follows(w, O, a, e, fin, calls, run) /\ O = {} /\ fin = <<>>
      BY <1>2, RefuseFollows DEF w
    <2>4. O \subseteq Restarted(P) /\ s \notin DOMAIN fin
      BY <1>1, <2>3
    <2>5. ui'[s] = w[s]
      BY <1>1, <2>2, <2>3, <2>4, FollowsSteady
    <2> QED BY <2>2, <2>5
  <1>3. CASE Click
    <2>1. PICK p \in InFront : \E o \in DOMAIN p.offers : \E a \in Args(o) :
             /\ o \in Ops /\ p \in P.panels /\ Holds(ui, p.when, "none") /\ Holds(ui, p.offers[o], a)
             /\ Refuse(o, a) \/ Local(o, a) \/ Send(o, a)
      BY <1>3, ClickForm
    <2> QED BY <1>2, <2>1, LocalSteady, SendSteady
  <1>4. CASE Reply
    BY <1>4, AnswerSteady, FailSteady DEF Reply
  <1>5. ASSUME NEW t \in P.timers, Tick(t), NEW s \in W
        PROVE  ui'[s] = ui[s]
    <2>1. PICK O, a, e, fin, R : Follows(ui, O, a, e, fin, calls, R) /\ O = {t.run} /\ fin = <<>>
      BY <1>1, <1>5, TickFollows
    <2>2. O \subseteq Restarted(P) /\ s \notin DOMAIN fin
      BY <1>1, <2>1 DEF Restarted, Polled
    <2> QED BY <1>1, <2>1, <2>2, FollowsSteady
  <1>6. CASE UNCHANGED vars \/ (\E x \in Lists : Foreign(x)) \/ \E b \in calls : \E o \in b.out : Serve(b, o)
    BY <1>6 DEF vars, Foreign, Serve
  <1> QED BY <1>3, <1>4, <1>5, <1>6 DEF Next
-----------------------------------------------------------------------------
(* What is shown next to the row selected: loads on their way.             *)

\* A call that asks for what d shows waits for one request, with which it comes.
LEMMA AskedOut ==
  ASSUME PageInv, NEW d, AskRule(P, d), NEW c \in calls, Asks(P, d, c.op)
  PROVE  \E l : c.out = {l} /\ d.shows \in DOMAIN Op(l).ok
  <1>1. CallOK(P, c) /\ Op(c.op).wait \in Seq(SUBSET Ops)
    BY DEF PageInv, CallOK, FormRule, Op, Ops
  <1>2. CASE Op(c.op).ask
    <2>1. Op(c.op).wait = <<>> /\ d.shows \in DOMAIN Op(c.op).ok
      BY <1>2 DEF Asks, Op
    <2>2. c.k = 0 /\ c.out = {c.op}
      BY <1>1, <2>1 DEF CallOK, Op
    <2> QED BY <2>1, <2>2
  <1>3. CASE ~Op(c.op).ask
    <2>1. PICK l : Op(c.op).wait = <<{l}>> /\ d.shows \in DOMAIN Op(l).ok
      BY <1>3 DEF Asks, Op
    <2>2. c.k = 1 /\ c.out \subseteq {l} /\ c.out # {}
      BY <1>1, <1>3, <2>1 DEF CallOK, Op
    <2> QED BY <2>1, <2>2
  <1> QED BY <1>2, <1>3

\* Conversely, a call that waits for such a request asks for it, and for the row of
\* the call.
LEMMA ShownAsked ==
  ASSUME PageInv, NEW d, AskRule(P, d), NEW c \in calls, NEW o \in c.out, d.shows \in DOMAIN Op(o).ok
  PROVE  Asks(P, d, c.op) /\ Op(o).ok[d.shows] = "arg" /\ d.of \notin DOMAIN Op(o).ok
  <1>1. /\ c.op \in Ops /\ o \in Ops /\ FormRule(P)
        /\ \/ o = c.op /\ c.k = 0 /\ Op(c.op).ask
           \/ o \in Awaited(P) /\ c.k \in DOMAIN Op(c.op).wait /\ o \in Op(c.op).wait[c.k]
    BY OutOps DEF PageInv
  <1>2. ~Plain(Op(o))
    BY <1>1 DEF AskRule, Steady, Plain, Op, Ops
  <1>3. /\ Op(o).ask /\ Op(o).wait = <<>> /\ Op(o).ok[d.shows] = "arg" /\ d.of \notin DOMAIN Op(o).ok
        /\ \A q \in Ops : \A k \in DOMAIN Op(q).wait : o \in Op(q).wait[k] => Asks(P, d, q)
    BY <1>1, <1>2 DEF AskRule, Op, Ops
  <1>4. CASE o = c.op
    BY <1>3, <1>4 DEF Asks, Op
  <1> QED BY <1>1, <1>3, <1>4

\* Selecting another row meanwhile is noted.
LEMMA SelectionNoted ==
  ASSUME PageInv, [Next]_vars, NEW d, AskRule(P, d), NEW c \in calls, Asks(P, d, c.op),
         ui'[d.of] # ui[d.of]
  PROVE  "moved" \in blame'
  <1> DEFINE W == {d.of}
  <1>1. FormRule(P) /\ Steady(P, W) /\ W \subseteq DOMAIN ui /\ d \in P.details
    BY DEF AskRule, PageInv
  <1>2. "moved" \in Reselection
    <2>1. PICK l : c.out = {l} /\ d.shows \in DOMAIN Op(l).ok
      BY AskedOut
    <2>2. d \in Shows(l)
      BY <1>1, <2>1 DEF Shows
    <2>3. d \in UNION {Shows(o) : o \in c.out}
      BY <2>1, <2>2
    <2> QED BY <1>1, <2>3 DEF Moves, Reselection
  <1>3. CASE \E o, a : Local(o, a) \/ Send(o, a)
    BY <1>2, <1>3 DEF Local, Send, Noted
  <1>4. CASE \E b, o : Answer(b, o) \/ Fail(b, o)
    BY <1>2, <1>4 DEF Answer, Fail, Noted
  <1> QED BY <1>1, <1>3, <1>4, SteadyStep

\* A call that asks for what d shows asks for the row that is selected, until another
\* one is selected.
AskInv(d) ==
  AskRule(P, d) => \A c \in calls : Asks(P, d, c.op) =>
     c.arg \in Rows /\ ("moved" \in blame \/ c.arg = ui[d.of])

LEMMA NextAsk ==
  ASSUME PageInv, SlotInv, [Next]_vars, NEW d, AskInv(d)
  PROVE  AskInv(d)'
  <1>1. P' = P
    BY SamePage
  <1>2. SUFFICES ASSUME AskRule(P, d), NEW c \in calls', Asks(P, d, c.op)
                 PROVE  c.arg \in Rows /\ ("moved" \in blame' \/ c.arg = ui'[d.of])
    BY <1>1 DEF AskInv
  <1>3. Steady(P, {d.of}) /\ {d.of} \subseteq DOMAIN ui /\ d.of \notin {"row", "none"} /\ FormRule(P)
    BY <1>2 DEF AskRule, PageInv
  <1>4. CASE Carried(c)
    <2>1. PICK b \in calls : c.op = b.op /\ c.arg = b.arg
      BY <1>4 DEF Carried
    <2>2. c.arg \in Rows /\ ("moved" \in blame \/ c.arg = ui[d.of])
      BY <1>2, <2>1 DEF AskInv
    <2>3. "moved" \in blame' \/ ui'[d.of] = ui[d.of]
      BY <1>2, <2>1, SelectionNoted
    <2> QED BY <2>2, <2>3, BlameGrows
  <1>5. CASE Loaded(c)
    <2>1. c.op \in Restarted(P) /\ c.op \in Ops
      BY <1>3, <1>5, StartedAsync DEF Loaded
    <2> QED BY <1>2, <2>1 DEF AskRule, Op, Ops
  <1>6. CASE Clicked(c)
    <2>0. PICK o \in Ops : \E a, e : Offered(o) /\ a \in Args(o) /\ Send(o, a) /\ New(c, o, a, e)
      BY <1>6 DEF Clicked
    <2>1. PICK a, e : Offered(o) /\ a \in Args(o) /\ Send(o, a) /\ New(c, o, a, e)
      BY <2>0
    <2>2. c.op = o /\ c.arg = IF Op(o).arg = "none" THEN "none" ELSE a
      BY <2>1 DEF New, Call
    <2>3. PICK p \in P.panels : o \in DOMAIN p.offers /\ Holds(ui, p.when, "none")
      BY <2>1 DEF Offered
    <2>4. OnRow(P, o) /\ IF d.of \in DOMAIN Op(o).pre THEN Op(o).pre[d.of] = "arg" ELSE Op(o).arg = d.of
      BY <1>2, <2>2, <2>3 DEF AskRule, Op, Ops
    <2>5. a \in Rows /\ c.arg = a
      BY <2>1, <2>2, <2>3, <2>4, ClickOnRow
    <2>6. Makes({d.of}, Op(o).pre, a)
      BY <1>3, <2>1, SendSteady
    <2>7. CASE d.of \in DOMAIN Op(o).pre
      BY <2>4, <2>5, <2>6, <2>7 DEF Makes, Value
    <2>8. CASE d.of \notin DOMAIN Op(o).pre
      <3>1. ui'[d.of] = ui[d.of]
        BY <2>6, <2>8 DEF Makes
      <3>2. a = ui[d.of]
        BY <1>3, <2>1, <2>4, <2>8 DEF Args
      <3> QED BY <2>5, <3>1, <3>2
    <2> QED BY <2>7, <2>8
  <1> QED BY <1>4, <1>5, <1>6, CallsStep

LEMMA InitAsk ==
  ASSUME Init, FormRule(P), NEW d
  PROVE  AskInv(d)
  <1>1. SUFFICES ASSUME AskRule(P, d), NEW c \in calls, Asks(P, d, c.op) PROVE FALSE
    BY DEF AskInv
  <1>2. PICK o \in Mounted(page) : New(c, o, "none", Env(P.init))
    BY InitForm
  <1>3. c.op = o
    BY <1>2 DEF New, Call
  <1>4. o \in Effected(P) /\ o \in Ops
    BY InitForm, StartedAsync
  <1> QED BY <1>1, <1>3, <1>4 DEF AskRule, Op, Ops
-----------------------------------------------------------------------------
(* What is in view only while it shows the row selected.                   *)

\* The slots that d is about.
Slots(d) == {d.shows, d.of} \cup DOMAIN d.when

\* What d shows is the row selected; or this row was changed in place.
Shown(d) ==
  \/ ui[d.of] = ui[d.shows] /\ ui[d.of] \in Rows
  \/ ui[d.of] = "mixed" /\ d.of \in P.patched

MatchInv(d, X) ==
  Matched(P, d, X) => blame \cap X # {} \/ (Holds(ui, d.when, "none") => Shown(d))

\* An assignment that takes d out of view does.
LEMMA Hidden ==
  ASSUME NEW d, NEW as, NEW a, Makes(Slots(d), as, a), Hides(d, as)
  PROVE  ~Holds(ui', d.when, "none")
  <1>1. PICK t \in DOMAIN as \cap DOMAIN d.when : Closes(d.when[t], as[t])
    BY DEF Hides
  <1>2. PICK z : ui'[t] = Value(as[t], ui[t], a, z)
    BY DEF Makes, Slots
  <1>3. ui'[t] = as[t]
    BY <1>1, <1>2 DEF Closes, Value
  <1> QED BY <1>1, <1>3 DEF Closes, Holds

\* One that fills d and selects the row, or is about the row selected, shows it.
LEMMA Filled ==
  ASSUME NEW d, NEW o, NEW as, NEW a \in Arguments, Makes(Slots(d), as, a), FillsBoth(P, d, o, as),
         d.of \notin DOMAIN as => a = ui[d.of], Holds(ui', d.when, "none")
  PROVE  ui'[d.of] = ui'[d.shows] /\ ui'[d.of] \in Rows
  <1>1. d.shows \in DOMAIN as /\ as[d.shows] = "arg" /\ d.shows \in DOMAIN d.when /\ d.when[d.shows] = {"some"}
    BY DEF FillsBoth
  <1>2. ui'[d.shows] = a
    BY <1>1 DEF Makes, Slots, Value
  <1>3. a = "some" \/ a \in Rows
    BY <1>1, <1>2 DEF Holds
  <1>4. a \in Rows
    BY <1>3 DEF Arguments
  <1>5. ui'[d.of] = a
    <2>1. CASE d.of \in DOMAIN as
      BY <2>1 DEF FillsBoth, Makes, Slots, Value
    <2>2. CASE d.of \notin DOMAIN as
      BY <2>2 DEF Makes, Slots
    <2> QED BY <2>1, <2>2
  <1> QED BY <1>2, <1>4, <1>5

\* What is shut out by d is not clicked while d is in view.
LEMMA NotClicked ==
  ASSUME NEW d, Holds(ui, d.when, "none"), Shown(d), NEW p \in InFront, NEW o \in DOMAIN p.offers
  PROVE  ~ShutOut(P, d, o)
  <1>1. SUFFICES ASSUME ShutOut(P, d, o) PROVE FALSE
    OBVIOUS
  <1>2. /\ p \in P.panels /\ Holds(ui, p.when, "none")
        /\ \A q \in P.panels : Holds(ui, q.when, "none") => q.level <= p.level
    BY DEF InFront, Visible
  <1>3. CASE d.of \in DOMAIN p.when /\ p.when[d.of] = {"none"}
    BY <1>2, <1>3, RowsAssumption DEF Holds, Shown
  <1>4. ASSUME NEW q \in P.panels, ~(q.level <= p.level), NEW t \in DOMAIN q.when,
               \/ t \in DOMAIN d.when /\ d.when[t] \subseteq q.when[t]
               \/ t = d.of /\ "some" \in q.when[t] /\ (t \in P.patched => "mixed" \in q.when[t])
               \/ t \in DOMAIN p.when /\ p.when[t] \subseteq q.when[t]
        PROVE  \/ ui[t] \in q.when[t]
               \/ "other" \in q.when[t] /\ ui[t] # "none"
               \/ "some" \in q.when[t] /\ ui[t] \in Rows
    BY <1>2, <1>4 DEF Holds, Shown
  <1>5. ASSUME NEW q \in P.panels, ~(q.level <= p.level),
               \A t \in DOMAIN q.when :
                 \/ t \in DOMAIN d.when /\ d.when[t] \subseteq q.when[t]
                 \/ t = d.of /\ "some" \in q.when[t] /\ (t \in P.patched => "mixed" \in q.when[t])
                 \/ t \in DOMAIN p.when /\ p.when[t] \subseteq q.when[t]
        PROVE  FALSE
    <2>1. Holds(ui, q.when, "none")
      BY <1>4, <1>5 DEF Holds
    <2> QED BY <1>2, <1>5, <2>1
  <1> QED BY <1>1, <1>2, <1>3, <1>5 DEF ShutOut

\* A click keeps d.
LEMMA ClickMatch ==
  ASSUME SlotInv, NEW d, d.of \notin {d.shows, "row", "none"}, Holds(ui, d.when, "none") => Shown(d),
         NEW p \in InFront, NEW o \in DOMAIN p.offers, o \in Ops, NEW a \in Args(o),
         NEW as, Makes(Slots(d), as, a), ClickKeeps(P, d, o, as), P' = P, Holds(ui', d.when, "none")
  PROVE  Shown(d)'
  <1>1. a \in Arguments
    BY ArgsHold
  <1>2. CASE ({d.shows, d.of} \cup DOMAIN d.when) \cap DOMAIN as = {}
    <2>1. \A s \in Slots(d) : ui'[s] = ui[s]
      BY <1>2 DEF Makes, Slots
    <2>2. Holds(ui, d.when, "none")
      BY <2>1 DEF Holds, Slots
    <2> QED BY <2>1, <2>2 DEF Shown, Slots
  <1>3. CASE Hides(d, as)
    BY <1>3, Hidden
  <1>4. CASE FillsBoth(P, d, o, as)
    <2>1. d.of \notin DOMAIN as => a = ui[d.of]
      BY <1>4 DEF FillsBoth, Args, Op
    <2>2. ui'[d.of] = ui'[d.shows] /\ ui'[d.of] \in Rows
      BY <1>1, <1>4, <2>1, Filled
    <2> QED BY <2>2 DEF Shown
  <1>5. CASE ({d.shows} \cup DOMAIN d.when) \cap DOMAIN as = {} /\ ShutOut(P, d, o)
    <2>1. \A s \in DOMAIN d.when : ui'[s] = ui[s]
      BY <1>5 DEF Makes, Slots
    <2>2. Holds(ui, d.when, "none")
      BY <2>1 DEF Holds
    <2> QED BY <1>5, <2>2, NotClicked
  <1> QED BY <1>2, <1>3, <1>4, <1>5 DEF ClickKeeps

\* A good answer keeps it, but for the ways that X lists.
LEMMA AnswerMatch ==
  ASSUME PageInv, SlotInv, NEW d, d.of # d.shows, AskInv(d), Holds(ui, d.when, "none") => Shown(d),
         NEW c \in calls, NEW o \in c.out, Answer(c, o), Makes(Slots(d), Op(o).ok, c.arg),
         NEW X, blame' \cap X = {}, blame \subseteq blame', AnswerKeeps(P, d, X, o, Op(o).ok),
         P' = P, Holds(ui', d.when, "none")
  PROVE  Shown(d)'
  <1> DEFINE as == Op(o).ok
  <1>1. c.arg \in Arguments
    BY DEF SlotInv
  <1>2. ASSUME \A s \in DOMAIN d.when : ui'[s] = ui[s]
        PROVE  Holds(ui, d.when, "none") /\ Shown(d)
    BY <1>2 DEF Holds
  <1>3. CASE ({d.shows, d.of} \cup DOMAIN d.when) \cap DOMAIN as = {}
    <2>1. \A s \in Slots(d) : ui'[s] = ui[s]
      BY <1>3 DEF Makes, Slots
    <2> QED BY <1>2, <2>1 DEF Shown, Slots
  <1>4. CASE Hides(d, as)
    BY <1>4, Hidden
  <1>5. CASE d.of \in DOMAIN as /\ FillsBoth(P, d, o, as)
    <2>1. ui'[d.of] = ui'[d.shows] /\ ui'[d.of] \in Rows
      BY <1>1, <1>5, Filled
    <2> QED BY <2>1 DEF Shown
  <1>6. CASE d.shows \in DOMAIN as /\ "moved" \in X /\ AskRule(P, d)
    <2>1. Asks(P, d, c.op) /\ as[d.shows] = "arg" /\ d.of \notin DOMAIN as
      BY <1>6, ShownAsked
    <2>2. c.arg \in Rows /\ c.arg = ui[d.of]
      BY <1>6, <2>1 DEF AskInv
    <2>3. ui'[d.shows] = c.arg /\ ui'[d.of] = ui[d.of]
      BY <1>6, <2>1 DEF Makes, Slots, Value
    <2> QED BY <2>2, <2>3 DEF Shown
  <1>7. CASE /\ d.of \in DOMAIN as /\ (({d.shows} \cup DOMAIN d.when) \ {d.of}) \cap DOMAIN as = {}
             /\ \/ as[d.of] = "patch" /\ d.of \in P.patched
                \/ as[d.of] = "drop" /\ d.of \in P.selections /\ "dropped" \in X
                \/ as[d.of] = "arg" /\ d.of \in P.selections \ DOMAIN d.when /\ "replaced" \in X
    <2>1. /\ ui'[d.shows] = ui[d.shows] /\ \A s \in DOMAIN d.when \ {d.of} : ui'[s] = ui[s]
          /\ \E z : ui'[d.of] = Value(as[d.of], ui[d.of], c.arg, z)
      BY <1>7 DEF Makes, Slots
    <2>2. CASE ui'[d.of] = ui[d.of]
      BY <1>2, <2>1, <2>2 DEF Shown
    <2>3. CASE as[d.of] = "patch" /\ d.of \in P.patched /\ ui'[d.of] # ui[d.of]
      <3>1. ui'[d.of] = "mixed"
        BY <2>1, <2>3 DEF Value
      <3> QED BY <2>3, <3>1 DEF Shown
    <2>4. CASE as[d.of] = "drop" /\ d.of \in P.selections /\ "dropped" \in X /\ ui'[d.of] # ui[d.of]
      <3>1. ui'[d.of] = "none"
        BY <2>1, <2>4 DEF Value
      <3>2. "dropped" \in Dropped
        BY <2>4, <3>1 DEF Dropped
      <3>3. "dropped" \in blame'
        BY <3>2 DEF Answer, Noted
      <3> QED BY <2>4, <3>3
    <2>5. CASE as[d.of] = "arg" /\ d.of \in P.selections \ DOMAIN d.when /\ "replaced" \in X /\ ui'[d.of] # ui[d.of]
      <3>1. ui'[d.of] = c.arg
        BY <2>1, <2>5 DEF Value
      <3>2. Shown(d)
        BY <1>2, <2>1, <2>5
      <3>3. ui[d.of] # "none"
        BY <3>2, RowsAssumption DEF Shown
      <3>4. "replaced" \in Replaced(o, c.arg)
        BY <1>7, <2>5, <3>1, <3>3 DEF Replaced
      <3>5. "replaced" \in blame'
        BY <3>4 DEF Answer, Noted
      <3> QED BY <2>5, <3>5
    <2> QED BY <1>7, <2>2, <2>3, <2>4, <2>5
  <1> QED BY <1>3, <1>4, <1>5, <1>6, <1>7 DEF AnswerKeeps

\* A failure leaves it alone, or counts among them.
LEMMA FailMatch ==
  ASSUME PageInv, NEW d, Holds(ui, d.when, "none") => Shown(d),
         NEW c \in calls, NEW o \in c.out, Fail(c, o), NEW h \in {o, c.op}, h \in Ops,
         Makes(Slots(d), Op(h).bad, c.arg), NEW X, blame' \cap X = {}, Matched(P, d, X),
         P' = P, Holds(ui', d.when, "none")
  PROVE  Shown(d)'
  <1>1. CASE ({d.shows, d.of} \cup DOMAIN d.when) \cap DOMAIN Op(h).bad = {}
    <2>1. \A s \in Slots(d) : ui'[s] = ui[s]
      BY <1>1 DEF Makes, Slots
    <2>2. Holds(ui, d.when, "none")
      BY <2>1 DEF Holds, Slots
    <2> QED BY <2>1, <2>2 DEF Shown, Slots
  <1>2. CASE "formless" \in X /\ Op(h).wait = <<>> /\ P.forms \cap DOMAIN Op(h).ok # {}
    <2>1. h = o
      <3>1. CASE h = c.op
        <4>1. CallOK(P, c)
          BY DEF PageInv
        <4>2. c.k = 0 /\ c.out = {c.op}
          BY <1>2, <3>1, <4>1 DEF CallOK, Op
        <4> QED BY <3>1, <4>2
      <3> QED BY <3>1
    <2>2. "formless" \in blame'
      BY <1>2, <2>1 DEF Fail, Noted
    <2> QED BY <1>2, <2>2
  <1> QED BY <1>1, <1>2 DEF Matched, Op, Ops

LEMMA NextMatch ==
  ASSUME PageInv, SlotInv, [Next]_vars, NEW d, NEW X, AskInv(d), MatchInv(d, X)
  PROVE  MatchInv(d, X)'
  <1>1. P' = P /\ blame \subseteq blame'
    BY SamePage, BlameGrows
  <1>2. SUFFICES ASSUME Matched(P, d, X), blame' \cap X = {}, Holds(ui', d.when, "none")
                 PROVE  Shown(d)'
    BY <1>1 DEF MatchInv
  <1>3. Holds(ui, d.when, "none") => Shown(d)
    BY <1>1, <1>2 DEF MatchInv
  <1>4. Steady(P, Slots(d)) /\ Slots(d) \subseteq DOMAIN ui /\ d.of \notin {d.shows, "row", "none"}
    BY <1>2 DEF Matched, Slots, PageInv
  <1>5. CASE \A s \in Slots(d) : ui'[s] = ui[s]
    <2>1. Holds(ui, d.when, "none")
      BY <1>2, <1>5 DEF Holds, Slots
    <2> QED BY <1>1, <1>3, <1>5, <2>1 DEF Shown, Slots
  <1>6. ASSUME NEW p \in InFront, NEW o \in DOMAIN p.offers, o \in Ops, NEW a \in Args(o),
               \/ Local(o, a) /\ Makes(Slots(d), Op(o).ok, a)
               \/ Send(o, a) /\ Makes(Slots(d), Op(o).pre, a)
        PROVE  Shown(d)'
    <2>1. CASE Local(o, a) /\ Makes(Slots(d), Op(o).ok, a)
      <3>1. Plain(Op(o))
        BY <2>1 DEF Local, Async, Plain
      <3>2. ClickKeeps(P, d, o, Op(o).ok)
        BY <1>2, <1>6, <3>1 DEF Matched, Op, Ops
      <3> QED BY <1>1, <1>2, <1>3, <1>4, <1>6, <2>1, <3>2, ClickMatch
    <2>2. CASE Send(o, a) /\ Makes(Slots(d), Op(o).pre, a)
      <3>1. ClickKeeps(P, d, o, Op(o).pre)
        BY <1>2, <1>6 DEF Matched, Op, Ops
      <3> QED BY <1>1, <1>2, <1>3, <1>4, <1>6, <2>2, <3>1, ClickMatch
    <2> QED BY <1>6, <2>1, <2>2
  <1>7. ASSUME NEW c \in calls, NEW o \in c.out, Answer(c, o), Makes(Slots(d), Op(o).ok, c.arg), ~Plain(Op(o))
        PROVE  Shown(d)'
    <2>1. o \in Ops
      BY OutOps DEF PageInv
    <2>2. AnswerKeeps(P, d, X, o, Op(o).ok)
      BY <1>2, <1>7, <2>1 DEF Matched, Op, Ops
    <2> QED BY <1>1, <1>2, <1>3, <1>4, <1>7, <2>2, AnswerMatch
  <1>8. ASSUME NEW c \in calls, NEW o \in c.out, Fail(c, o), NEW h \in {o, c.op}, h \in Ops,
               Makes(Slots(d), Op(h).bad, c.arg)
        PROVE  Shown(d)'
    BY <1>1, <1>2, <1>3, <1>8, FailMatch
  <1> QED BY <1>4, <1>5, <1>6, <1>7, <1>8, SteadyStep

LEMMA InitMatch ==
  ASSUME Init, FormRule(P), NEW d, NEW X
  PROVE  MatchInv(d, X)
  <1>1. SUFFICES ASSUME Matched(P, d, X) PROVE ~Holds(ui, d.when, "none")
    BY DEF MatchInv
  <1>2. PICK t \in DOMAIN d.when : Closes(d.when[t], P.init[t])
    BY <1>1 DEF Matched
  <1>3. Steady(P, Slots(d)) /\ t \in Slots(d) /\ t \in DOMAIN P.init
    BY <1>1 DEF Matched, Slots
  <1>4. \A o \in Mounted(page) : o \in Ops /\ Async(o) /\ o \in Unclicked(P)
    BY InitForm, StartedAsync DEF Unclicked
  <1>5. \A o \in Opening(Mounted(page)) : t \notin DOMAIN Op(o).pre
    BY <1>3, <1>4, SteadyOpening
  <1>6. ui[t] = P.init[t]
    BY <1>3, <1>5, InitForm
  <1> QED BY <1>2, <1>6 DEF Closes, Holds
-----------------------------------------------------------------------------
(* What is loaded when a row is selected.                                  *)

\* What d shows is the row selected, or is being loaded.
FollowInv(d, X) ==
  Followed(P, d) /\ "moved" \in X /\ ("missed" \in X \/ ("formless" \in X /\ d.shows \in P.forms)) =>
     \/ blame \cap X # {}
     \/ \E c \in calls : Asks(P, d, c.op)
     \/ ui[d.of] \in Rows => ui[d.shows] = ui[d.of]

\* A call waits on, unless a request of it is answered.
LEMMA CallStays ==
  ASSUME PageInv, [Next]_vars, NEW c \in calls
  PROVE  (\E b \in calls' : b.op = c.op) \/ (\E o \in c.out : Answer(c, o) \/ Fail(c, o))
  <1>1. FormRule(P)
    BY DEF PageInv
  <1>2. ASSUME NEW w, NEW O, NEW a, NEW e, NEW fin, NEW run, Follows(w, O, a, e, fin, calls, run)
        PROVE  c \in calls'
    BY <1>2 DEF Follows
  <1>3. ASSUME NEW x \in calls, x # c, NEW o \in x.out, Answer(x, o) \/ Fail(x, o)
        PROVE  c \in calls'
    <2>1. PICK w, O, run : GivesUp(x, run) \/ Waits(x, o, w, O, run) \/ Advances(x, o, w, O, run) \/ Ends(x, o, w, O, run)
      BY <1>3, AnswerForms, FailForms
    <2>2. PICK v, R, fin, rest : Follows(v, R, x.arg, x.env, fin, rest, run) /\ calls \ {x} \subseteq rest
      <3>1. CASE GivesUp(x, run)
        BY <3>1 DEF GivesUp
      <3>2. CASE Waits(x, o, w, O, run)
        BY <3>2 DEF Waits
      <3>3. CASE Advances(x, o, w, O, run)
        BY <3>3 DEF Advances
      <3>4. CASE Ends(x, o, w, O, run)
        BY <3>4 DEF Ends
      <3> QED BY <2>1, <3>1, <3>2, <3>3, <3>4
    <2> QED BY <1>3, <2>2 DEF Follows
  <1>4. ASSUME NEW x \in calls, NEW o \in x.out, Serve(x, o)
        PROVE  \E b \in calls' : b.op = c.op
    <2>1. PICK b : Continues(b, x) /\ calls' = (calls \ {x}) \cup {b}
      BY <1>4, ServeForm
    <2> QED BY <2>1 DEF Continues
  <1>5. CASE Click
    <2>0. PICK o \in Ops : \E a : Refuse(o, a) \/ Local(o, a) \/ Send(o, a)
      BY <1>5, ClickForm
    <2>1. PICK a : Refuse(o, a) \/ Local(o, a) \/ Send(o, a)
      BY <2>0
    <2>2. \E w, O, e, fin, run : Follows(w, O, a, e, fin, calls, run)
      BY <2>1, RefuseFollows, LocalFollows, SendFollows
    <2> QED BY <1>2, <2>2
  <1>6. ASSUME NEW t \in P.timers, Tick(t)
        PROVE  c \in calls'
    <2>1. \E w, O, a, e, fin, run : Follows(w, O, a, e, fin, calls, run)
      BY <1>1, <1>6, TickFollows
    <2> QED BY <1>2, <2>1
  <1>7. CASE UNCHANGED vars \/ \E x \in Lists : Foreign(x)
    BY <1>7 DEF vars, Foreign
  <1> QED BY <1>3, <1>4, <1>5, <1>6, <1>7 DEF Next, Reply

\* The answer that a call has asked for shows the row selected.
LEMMA AskedAnswer ==
  ASSUME PageInv, NEW d, AskRule(P, d), d.shows \in DOMAIN P.init, Steady(P, {d.shows, d.of}), AskInv(d), "moved" \notin blame,
         NEW c \in calls, NEW o \in c.out, Answer(c, o), d.shows \in DOMAIN Op(o).ok
  PROVE  ui'[d.shows] = ui'[d.of]
  <1>1. Asks(P, d, c.op) /\ Op(o).ok[d.shows] = "arg" /\ d.of \notin DOMAIN Op(o).ok
    BY ShownAsked
  <1>2. c.arg = ui[d.of]
    BY <1>1 DEF AskInv
  <1>3. Makes({d.shows, d.of}, Op(o).ok, c.arg)
    BY AnswerSteady DEF AskRule, PageInv
  <1>4. ui'[d.shows] = c.arg /\ ui'[d.of] = ui[d.of]
    BY <1>1, <1>3 DEF Makes, Value
  <1> QED BY <1>2, <1>4

LEMMA NextFollow ==
  ASSUME PageInv, SlotInv, [Next]_vars, NEW d, NEW X, AskInv(d), FollowInv(d, X)
  PROVE  FollowInv(d, X)'
  <1>1. P' = P /\ blame \subseteq blame'
    BY SamePage, BlameGrows
  <1>2. SUFFICES ASSUME Followed(P, d), "moved" \in X, "missed" \in X \/ ("formless" \in X /\ d.shows \in P.forms),
                        blame' \cap X = {}, ~ \E c \in calls' : Asks(P, d, c.op), ui'[d.of] \in Rows
                 PROVE  ui'[d.shows] = ui'[d.of]
    BY <1>1 DEF FollowInv
  <1> DEFINE W == {d.shows, d.of}
  <1>3. /\ AskRule(P, d) /\ Steady(P, W) /\ W \subseteq DOMAIN ui /\ d.shows \in DOMAIN P.init
        /\ d \in P.details /\ d.shows # d.of /\ "moved" \notin blame
        /\ (\E c \in calls : Asks(P, d, c.op)) \/ (ui[d.of] \in Rows => ui[d.shows] = ui[d.of])
    BY <1>1, <1>2 DEF Followed, AskRule, PageInv, FollowInv
  <1>4. ASSUME NEW o \in Ops
        PROVE  /\ W \cap DOMAIN Op(o).bad = {} /\ d.shows \notin DOMAIN Op(o).pre
               /\ d.of \in DOMAIN Op(o).pre => Asks(P, d, o)
               /\ d.of \in DOMAIN Op(o).ok => Op(o).ok[d.of] \in {"none", "drop"}
               /\ d.shows \in DOMAIN Op(o).ok /\ Plain(Op(o)) => d.of \in DOMAIN Op(o).ok /\ Op(o).ok[d.of] = "none"
    BY <1>2 DEF Followed, Op, Ops
  <1>5. ASSUME NEW c \in calls, Asks(P, d, c.op)
        PROVE  ui'[d.shows] = ui'[d.of]
    <2>1. PICK o \in c.out : Answer(c, o) \/ Fail(c, o)
      BY <1>2, <1>5, CallStays
    <2>2. PICK l : c.out = {l} /\ d.shows \in DOMAIN Op(l).ok
      BY <1>3, <1>5, AskedOut
    <2>3. CASE Answer(c, o)
      BY <1>3, <2>2, <2>3, AskedAnswer
    <2>4. CASE Fail(c, o)
      <3>1. d \in Shows(o)
        BY <1>3, <2>2 DEF Shows
      <3>2. "missed" \in blame'
        BY <2>4, <3>1 DEF Fail, Noted
      <3>3. d.shows \in P.forms => "formless" \in blame'
        BY <2>2, <2>4 DEF Fail, Noted
      <3> QED BY <1>2, <3>2, <3>3
    <2> QED BY <2>1, <2>3, <2>4
  <1>6. SUFFICES ASSUME ui[d.of] \in Rows => ui[d.shows] = ui[d.of]
                 PROVE  ui'[d.shows] = ui'[d.of]
    BY <1>3, <1>5
  <1>7. CASE \A s \in W : ui'[s] = ui[s]
    BY <1>2, <1>6, <1>7
  <1>8. ASSUME NEW as, NEW a, Makes(W, as, a), d.shows \notin DOMAIN as, d.of \in DOMAIN as => as[d.of] \in {"none", "drop"}
        PROVE  ui'[d.shows] = ui'[d.of]
    <2>1. ui'[d.shows] = ui[d.shows]
      BY <1>8 DEF Makes
    <2>2. ui'[d.of] = ui[d.of] \/ ui'[d.of] = "none"
      BY <1>8 DEF Makes, Value
    <2> QED BY <1>2, <1>6, <2>1, <2>2, RowsAssumption
  <1>9. ASSUME NEW o \in Ops, NEW a, Local(o, a), Makes(W, Op(o).ok, a)
        PROVE  ui'[d.shows] = ui'[d.of]
    <2>1. Plain(Op(o))
      BY <1>9 DEF Local, Async, Plain
    <2>2. CASE d.shows \in DOMAIN Op(o).ok
      <3>1. d.of \in DOMAIN Op(o).ok /\ Op(o).ok[d.of] = "none"
        BY <1>4, <2>1, <2>2
      <3>2. ui'[d.of] = "none"
        BY <1>9, <3>1 DEF Makes, Value
      <3> QED BY <1>2, <3>2, RowsAssumption
    <2> QED BY <1>4, <1>8, <1>9, <2>2
  <1>10. ASSUME NEW o \in Ops, NEW a, Send(o, a), Makes(W, Op(o).pre, a)
         PROVE  ui'[d.shows] = ui'[d.of]
    <2>1. PICK O, e, fin, run : Follows(ui, O, a, e, fin, calls, run) /\ O = {o}
      BY <1>10, SendFollows
    <2>2. PICK c \in calls' : c.op = o
      BY <2>1 DEF Follows, Begun
    <2>3. d.of \notin DOMAIN Op(o).pre
      BY <1>2, <1>4, <2>2
    <2> QED BY <1>4, <1>8, <1>10, <2>3
  <1>11. ASSUME NEW c \in calls, NEW o \in c.out, Answer(c, o), Makes(W, Op(o).ok, c.arg)
         PROVE  ui'[d.shows] = ui'[d.of]
    <2>1. o \in Ops
      BY OutOps DEF PageInv
    <2>2. CASE d.shows \in DOMAIN Op(o).ok
      BY <1>3, <1>11, <2>2, AskedAnswer
    <2> QED BY <1>4, <1>8, <1>11, <2>1, <2>2
  <1>12. ASSUME NEW c \in calls, NEW h \in Ops, Makes(W, Op(h).bad, c.arg)
         PROVE  ui'[d.shows] = ui'[d.of]
    BY <1>4, <1>8, <1>12
  <1> QED BY <1>3, <1>7, <1>9, <1>10, <1>11, <1>12, SteadyStep

LEMMA InitFollow ==
  ASSUME Init, FormRule(P), NEW d, NEW X
  PROVE  FollowInv(d, X)
  <1>1. SUFFICES ASSUME Followed(P, d) PROVE ui[d.of] \notin Rows
    BY DEF FollowInv
  <1>2. Steady(P, {d.of}) /\ d.of \in DOMAIN P.init /\ P.init[d.of] = "none"
    BY <1>1 DEF Followed, AskRule
  <1>3. \A o \in Mounted(page) : o \in Ops /\ Async(o) /\ o \in Unclicked(P)
    BY InitForm, StartedAsync DEF Unclicked
  <1>4. \A o \in Opening(Mounted(page)) : d.of \notin DOMAIN Op(o).pre
    BY <1>2, <1>3, SteadyOpening
  <1>5. ui[d.of] = "none"
    BY <1>2, <1>4, InitForm
  <1> QED BY <1>5, RowsAssumption

-----------------------------------------------------------------------------
(* The three together, and the details on display.                         *)

ShowInv(X) == \A d : AskInv(d) /\ MatchInv(d, X) /\ FollowInv(d, X)

LEMMA NextShow ==
  ASSUME PageInv, SlotInv, [Next]_vars, NEW X, ShowInv(X)
  PROVE  ShowInv(X)'
  <1>1. ASSUME NEW d
        PROVE  AskInv(d)' /\ MatchInv(d, X)' /\ FollowInv(d, X)'
    <2>1. AskInv(d) /\ MatchInv(d, X) /\ FollowInv(d, X)
      BY DEF ShowInv
    <2> QED BY <2>1, NextAsk, NextMatch, NextFollow
  <1> QED BY <1>1 DEF ShowInv

LEMMA InitShow ==
  ASSUME Init, FormRule(P), NEW X
  PROVE  ShowInv(X)
  BY InitAsk, InitMatch, InitFollow DEF ShowInv

\* When all answers are in, the details on display are those of the row selected,
\* unless another row was selected while they were loaded, their load failed, or a
\* late answer closed the row, on every page whose table follows the rule for details:
\* no other order of clicks and answers leaves the details of one row next to another.
THEOREM DetailsFollow ==
  (\A p \in DOMAIN Pages : FormRule(Pages[p]) /\ SlotRule(Pages[p]) /\ DetailRule(Pages[p]))
    => (Spec => []DetailOfSelection)
  <1> DEFINE Rules == \A p \in DOMAIN Pages : FormRule(Pages[p]) /\ SlotRule(Pages[p]) /\ DetailRule(Pages[p])
             X == {"moved", "missed", "dropped"}
             Inv == PageInv /\ SlotInv /\ ShowInv(X) /\ DetailRule(P)
  <1>1. Rules /\ Init => Inv
    <2>1. SUFFICES ASSUME Rules, Init PROVE Inv
      OBVIOUS
    <2>2. FormRule(P) /\ SlotRule(P) /\ DetailRule(P)
      BY <2>1 DEF P, Init
    <2> HIDE DEF X
    <2> QED BY <2>1, <2>2, InitForm, InitSlots, InitShow
  <1>2. Inv /\ [Next]_vars => Inv'
    <2>1. SUFFICES ASSUME Inv, [Next]_vars PROVE Inv'
      OBVIOUS
    <2> HIDE DEF X
    <2>2. PageInv' /\ SlotInv' /\ ShowInv(X)'
      BY <2>1, NextPage, NextSlots, NextShow
    <2>3. DetailRule(P)'
      BY <2>1, SamePage
    <2> QED BY <2>2, <2>3
  <1>3. Inv => DetailOfSelection
    <2>1. SUFFICES ASSUME Inv, calls = {}, NEW d \in P.details, Holds(ui, d.when, "none"), ui[d.of] \in Rows,
                          blame \cap X = {}
                   PROVE  ui[d.shows] = ui[d.of]
      BY DEF DetailOfSelection
    <2>2. CASE Matched(P, d, X)
      <3>1. Shown(d)
        BY <2>1, <2>2 DEF ShowInv, MatchInv
      <3> QED BY <2>1, <3>1, RowsAssumption DEF Shown
    <2>3. CASE Followed(P, d)
      BY <2>1, <2>3 DEF ShowInv, FollowInv
    <2> QED BY <2>1, <2>2, <2>3 DEF DetailRule
  <1> HIDE DEF Rules, Inv
  <1>4. Rules => (Spec => []DetailOfSelection)
    BY <1>1, <1>2, <1>3, PTL DEF Spec
  <1> QED BY <1>4 DEF Rules
-----------------------------------------------------------------------------
(* Forms.                                                                  *)

\* While what d shows is being loaded flag b is up, and it is loaded once; all is lost
\* for good when another row is selected meanwhile.
SingleInv(d, b) ==
  AskRule(P, d) /\ Single(P, d, b) =>
     \/ "moved" \in blame
     \/ /\ \A c \in calls : Asks(P, d, c.op) => ui[b] = "on"
        /\ \A c, x \in calls : Asks(P, d, c.op) /\ Asks(P, d, x.op) => c = x

LEMMA NextSingle ==
  ASSUME PageInv, [Next]_vars, NEW d, NEW b, AskInv(d), SingleInv(d, b)
  PROVE  SingleInv(d, b)'
  <1>1. P' = P /\ blame \subseteq blame' /\ FormRule(P) /\ FormRule(P)' /\ PageInv'
    BY SamePage, BlameGrows, NextPage DEF PageInv
  <1>2. SUFFICES ASSUME AskRule(P, d), Single(P, d, b), "moved" \notin blame'
                 PROVE  /\ \A c \in calls' : Asks(P, d, c.op) => ui'[b] = "on"
                        /\ \A c, x \in calls' : Asks(P, d, c.op) /\ Asks(P, d, x.op) => c = x
    BY <1>1 DEF SingleInv
  <1>3. /\ \A c \in calls : Asks(P, d, c.op) => ui[b] = "on"
        /\ \A c, x \in calls : Asks(P, d, c.op) /\ Asks(P, d, x.op) => c = x
    BY <1>1, <1>2 DEF SingleInv
  <1>4. b \in DOMAIN ui /\ Private(P, b)
    BY <1>2 DEF Single, PageInv
  <1>5. \A o \in Ops : Touches(Op(o), b) <=> Asks(P, d, o)
    BY <1>2 DEF Single, Op, Ops
  <1>6. (\A c \in calls : c.op \in Ops) /\ (\A c \in calls' : c.op \in Ops)
    BY <1>1 DEF PageInv, CallOK, Ops
  <1>7. CASE Untouched(b)
    BY <1>3, <1>5, <1>6, <1>7 DEF Untouched
  <1>8. ASSUME NEW c \in calls, NEW x, GoesOn(b, c, x)
        PROVE  \A y \in calls' : Asks(P, d, y.op) => y = x /\ ui'[b] = "on"
    BY <1>3, <1>5, <1>6, <1>8 DEF GoesOn
  <1>9. ASSUME NEW c \in calls, Leaves(b, c)
        PROVE  \A y \in calls' : ~Asks(P, d, y.op)
    BY <1>3, <1>5, <1>6, <1>9 DEF Leaves
  <1>10. ASSUME NEW p \in P.panels, NEW o, NEW a, NEW x, Starts(b, p, o, a, x)
         PROVE  \A y \in calls' : Asks(P, d, y.op) => y = x /\ ui'[b] = "on"
    <2>1. /\ o \in Ops /\ o \in DOMAIN p.offers /\ Touches(Op(o), b) /\ Send(o, a)
          /\ Holds(ui, p.offers[o], a)
      BY <1>10 DEF Starts
    <2>2. /\ Op(o).pre[b] = "on" /\ d.of \in DOMAIN Op(o).pre
          /\ d.of \in DOMAIN p.offers[o] /\ p.offers[o][d.of] = {"other"}
      BY <1>2, <2>1 DEF Single, Op, Ops
    <2>3. Op(o).pre[d.of] = "arg"
      BY <1>2, <1>5, <2>1, <2>2 DEF AskRule, Op, Ops
    <2>4. ui'[b] = "on"
      BY <1>10, <2>2 DEF Starts, Value
    <2>5. ASSUME NEW c \in calls, Asks(P, d, c.op)
          PROVE  FALSE
      <3>1. c.arg \in Rows /\ c.arg = ui[d.of]
        BY <1>1, <1>2, <2>5 DEF AskInv
      <3>2. ui[d.of] # a
        BY <2>1, <2>2, <3>1, RowsAssumption DEF Holds
      <3>3. Makes({d.of}, Op(o).pre, a)
        BY <1>2, <2>1, SendSteady DEF AskRule, PageInv
      <3>4. ui'[d.of] = a
        BY <2>2, <2>3, <3>3 DEF Makes, Value
      <3> QED BY <1>2, <2>5, <3>2, <3>4, SelectionNoted
    <2> QED BY <1>5, <1>6, <1>10, <2>4, <2>5 DEF Starts
  <1> QED BY <1>4, <1>7, <1>8, <1>9, <1>10, PrivateStep

LEMMA InitSingle ==
  ASSUME Init, FormRule(P), NEW d, NEW b
  PROVE  SingleInv(d, b)
  <1>1. SUFFICES ASSUME AskRule(P, d), NEW c \in calls, Asks(P, d, c.op) PROVE FALSE
    BY DEF SingleInv
  <1>2. PICK o \in Mounted(page) : New(c, o, "none", Env(P.init))
    BY InitForm
  <1>3. c.op = o
    BY <1>2 DEF New, Call
  <1>4. o \in Effected(P) /\ o \in Ops
    BY InitForm, StartedAsync
  <1> QED BY <1>1, <1>3, <1>4 DEF AskRule, Op, Ops

\* A row's form is sent to another row only by a click on a button in view.
LEMMA CrossedClick ==
  ASSUME PageInv, [Next]_vars, "crossed" \in blame' \ blame
  PROVE  \E p \in P.panels : \E o \in DOMAIN p.offers : \E a \in Args(o) :
           /\ o \in Ops /\ Holds(ui, p.when, "none") /\ Holds(ui, p.offers[o], a)
           /\ a \in Rows /\ \E f \in Op(o).body : ui[f] \in Rows \ {a}
  <1>1. "crossed" \notin Reselection
    BY DEF Reselection, Moves
  <1>2. CASE Click
    <2>1. PICK p \in P.panels : \E o \in DOMAIN p.offers : \E a \in Args(o) :
             /\ o \in Ops /\ Holds(ui, p.when, "none") /\ Holds(ui, p.offers[o], a)
             /\ Refuse(o, a) \/ Local(o, a) \/ Send(o, a)
      BY <1>2, ClickForm
    <2>2. PICK o \in DOMAIN p.offers : \E a \in Args(o) :
             /\ o \in Ops /\ Holds(ui, p.when, "none") /\ Holds(ui, p.offers[o], a)
             /\ Refuse(o, a) \/ Local(o, a) \/ Send(o, a)
      BY <2>1
    <2>3. PICK a \in Args(o) :
             /\ o \in Ops /\ Holds(ui, p.when, "none") /\ Holds(ui, p.offers[o], a)
             /\ Refuse(o, a) \/ Local(o, a) \/ Send(o, a)
      BY <2>2
    <2>4. ~Refuse(o, a) /\ ~Local(o, a)
      BY <1>1 DEF Refuse, Local, Noted
    <2>5. "crossed" \in Crossed(o, a)
      <3>1. "crossed" \notin Overlapped(o, a)
        BY DEF Overlapped
      <3> QED BY <1>1, <2>3, <2>4, <3>1 DEF Send, Noted
    <2>6. a \in Rows /\ \E f \in Op(o).body : ui[f] \in Rows \ {a}
      BY <2>5 DEF Crossed
    <2> QED BY <2>3, <2>6
  <1>3. ASSUME NEW c, NEW o, Answer(c, o)
        PROVE  FALSE
    <2>1. "crossed" \notin Replaced(o, c.arg) /\ "crossed" \notin Dropped
      BY DEF Replaced, Dropped
    <2> QED BY <1>1, <1>3, <2>1 DEF Answer, Noted
  <1>4. ASSUME NEW c, NEW o, Fail(c, o)
        PROVE  FALSE
    BY <1>1, <1>4 DEF Fail, Noted
  <1>5. CASE ~Click /\ ~Reply
    BY <1>5 DEF Next, Serve, Tick, Foreign, vars
  <1> QED BY <1>2, <1>3, <1>4, <1>5 DEF Reply

\* A save does not send a row's form to another row, unless one of X has happened.
Excuses == {"formless", "replaced", "dropped", "moved"}

OwnerInv ==
  /\ ShowInv(Excuses) /\ (\A d, b : SingleInv(d, b))
  /\ blame \cap Excuses # {} \/ "crossed" \notin blame

LEMMA NextOwner ==
  ASSUME PageInv, SlotInv, OwnerInv, FillRule(P), [Next]_vars
  PROVE  OwnerInv'
  <1>1. ShowInv(Excuses) /\ ShowInv(Excuses)'
    <2>1. PICK X : X = Excuses
      OBVIOUS
    <2>2. ShowInv(X)
      BY <2>1 DEF OwnerInv
    <2>3. ShowInv(X)'
      BY <2>2, NextShow
    <2> QED BY <2>1, <2>2, <2>3
  <1>2. (\A d, b : SingleInv(d, b)) /\ \A d, b : SingleInv(d, b)'
    <2>1. \A d : AskInv(d)
      BY <1>1 DEF ShowInv
    <2>2. \A d, b : SingleInv(d, b)
      BY DEF OwnerInv
    <2> QED BY <2>1, <2>2, NextSingle
  <1>3. ASSUME blame' \cap Excuses = {}, "crossed" \in blame'
        PROVE  FALSE
    <2>1. blame \cap Excuses = {} /\ "crossed" \notin blame
      BY <1>3, BlameGrows DEF OwnerInv
    <2>2. PICK p \in P.panels : \E o \in DOMAIN p.offers : \E a \in Args(o) :
             /\ o \in Ops /\ Holds(ui, p.when, "none") /\ Holds(ui, p.offers[o], a)
             /\ a \in Rows /\ \E f \in Op(o).body : ui[f] \in Rows \ {a}
      BY <1>3, <2>1, CrossedClick
    <2>3. PICK o \in DOMAIN p.offers : \E a \in Args(o) :
             /\ o \in Ops /\ Holds(ui, p.when, "none") /\ Holds(ui, p.offers[o], a)
             /\ a \in Rows /\ \E f \in Op(o).body : ui[f] \in Rows \ {a}
      BY <2>2
    <2>4. PICK a \in Args(o), f \in Op(o).body :
             /\ o \in Ops /\ Holds(ui, p.when, "none") /\ Holds(ui, p.offers[o], a)
             /\ a \in Rows /\ ui[f] \in Rows \ {a}
      BY <2>3
    <2> DEFINE s == Op(o).arg
    <2>5. /\ s \notin {"row", "none"}
          /\ \/ \E g \in DOMAIN P.init \ {f} : Matched(P, Form(f, s, g), Excuses) /\ (g = s \/ OnlyBehind(P, o, g))
             \/ \E d \in P.details : \E b \in P.flags :
                  /\ d.shows = f /\ d.of = s /\ f \in P.forms /\ Followed(P, d) /\ Single(P, d, b)
                  /\ \A q \in P.panels : o \in DOMAIN q.offers => b \in DOMAIN q.when /\ q.when[b] = {"off"}
      BY <2>4 DEF FillRule, Excuses, Op, Ops
    <2>6. a = ui[s]
      BY <2>4, <2>5 DEF Args
    <2>7. ASSUME NEW g \in DOMAIN P.init \ {f}, Matched(P, Form(f, s, g), Excuses), g = s \/ OnlyBehind(P, o, g)
          PROVE  FALSE
      <3> DEFINE d == Form(f, s, g)
      <3>1. /\ d.of = s /\ d.shows = f /\ DOMAIN d.when = {f, g}
            /\ d.when[f] = {"some"} /\ d.when[g] = IF g = s THEN {"some"} ELSE {"on"}
        BY <2>7 DEF Form
      <3>2. g # s => ui[g] = "on"
        BY <2>2, <2>4, <2>7 DEF OnlyBehind, Holds
      <3> HIDE DEF d
      <3>3. Holds(ui, d.when, "none")
        BY <2>4, <2>6, <3>1, <3>2 DEF Holds
      <3>4. MatchInv(d, Excuses)
        BY <1>1 DEF ShowInv
      <3>5. Shown(d)
        BY <2>1, <2>7, <3>3, <3>4 DEF MatchInv, d
      <3> QED BY <2>4, <2>6, <3>1, <3>5, RowsAssumption DEF Shown
    <2>8. ASSUME NEW d \in P.details, NEW b \in P.flags, d.shows = f, d.of = s, f \in P.forms, Followed(P, d),
                 Single(P, d, b),
                 \A q \in P.panels : o \in DOMAIN q.offers => b \in DOMAIN q.when /\ q.when[b] = {"off"}
          PROVE  FALSE
      <3>1. ui[b] = "off"
        BY <2>2, <2>4, <2>8 DEF Holds
      <3>2. AskRule(P, d)
        BY <2>8 DEF Followed
      <3>3. \A c \in calls : ~Asks(P, d, c.op)
        <4>1. SingleInv(d, b)
          BY <1>2
        <4>2. "moved" \notin blame
          BY <2>1 DEF Excuses
        <4> QED BY <2>8, <3>1, <3>2, <4>1, <4>2 DEF SingleInv
      <3>4. FollowInv(d, Excuses)
        BY <1>1 DEF ShowInv
      <3>5. "moved" \in Excuses /\ "formless" \in Excuses
        BY DEF Excuses
      <3>6. ui[s] \in Rows => ui[f] = ui[s]
        BY <2>1, <2>8, <3>3, <3>4, <3>5 DEF FollowInv
      <3> QED BY <2>4, <2>6, <3>6
    <2> QED BY <2>5, <2>7, <2>8
  <1> QED BY <1>1, <1>2, <1>3 DEF OwnerInv

\* A save sends row a's form to row a, unless the load that fills the form failed, or
\* an answer that came late opened, closed or replaced a row behind the form, on every
\* page whose table follows the rule for forms: no other order of clicks, answers and
\* failures fills an open form from one row and saves it to another.
THEOREM FormsOwned ==
  (\A p \in DOMAIN Pages : FormRule(Pages[p]) /\ SlotRule(Pages[p]) /\ FillRule(Pages[p]))
    => (Spec => []FormOwner)
  <1> DEFINE Rules == \A p \in DOMAIN Pages : FormRule(Pages[p]) /\ SlotRule(Pages[p]) /\ FillRule(Pages[p])
             Inv == PageInv /\ SlotInv /\ OwnerInv /\ FillRule(P)
  <1>1. Rules /\ Init => Inv
    <2>1. SUFFICES ASSUME Rules, Init PROVE Inv
      OBVIOUS
    <2>2. FormRule(P) /\ SlotRule(P) /\ FillRule(P)
      BY <2>1 DEF P, Init
    <2>3. ShowInv(Excuses) /\ \A d, b : SingleInv(d, b)
      BY <2>1, <2>2, InitShow, InitSingle
    <2>4. blame = {}
      BY <2>1 DEF Init
    <2> QED BY <2>1, <2>2, <2>3, <2>4, InitForm, InitSlots DEF OwnerInv
  <1>2. Inv /\ [Next]_vars => Inv'
    <2>1. SUFFICES ASSUME Inv, [Next]_vars PROVE Inv'
      OBVIOUS
    <2>2. PageInv' /\ SlotInv' /\ OwnerInv'
      BY <2>1, NextPage, NextSlots, NextOwner
    <2>3. FillRule(P)'
      BY <2>1, SamePage
    <2> QED BY <2>2, <2>3
  <1>3. Inv => FormOwner
    BY DEF OwnerInv, FormOwner, Excuses
  <1> HIDE DEF Rules, Inv
  <1>4. Rules => (Spec => []FormOwner)
    BY <1>1, <1>2, <1>3, PTL DEF Spec
  <1> QED BY <1>4 DEF Rules
=============================================================================
