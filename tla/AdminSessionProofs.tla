------------------------- MODULE AdminSessionProofs -------------------------
(***************************************************************************)
(* What AdminSession guarantees for any number of tabs, logins and         *)
(* requests.  The invariant says why the two copies of the token differ    *)
(* when they do, and that a tab with a login in progress is not signed in: *)
(* its own login cannot take the token away from its own store.            *)
(***************************************************************************)
EXTENDS AdminSession, TLAPS

\* A tab that is signed in and whose token is not the one in localStorage has seen
\* another tab sign in, when there is a token, and a logout or 401, when there is none.
Accounted ==
  \A t \in Tabs : Authed(t) /\ tab[t].token # storage =>
     IF storage = None THEN blame[t] \cap {"logout", "401"} # {} ELSE "login" \in blame[t]

IInv == TypeOK /\ Accounted

\* The invariant holds initially.
LEMMA InitIInv == Init => IInv
BY BoundsAssumption DEF Init, IInv, TypeOK, Accounted, Authed, Store, None

\* Every step keeps the types.
LEMMA TypeStep == ASSUME TypeOK, [Next]_vars PROVE TypeOK'
<1> USE BoundsAssumption
<1>1. ASSUME NEW t \in Tabs, hydrate(t) PROVE TypeOK'
  BY <1>1 DEF TypeOK, hydrate, Store, None
<1>2. ASSUME NEW t \in Tabs, ShellMounted(t) PROVE TypeOK'
  BY <1>2 DEF TypeOK, ShellMounted, Store, None
<1>3. ASSUME NEW t \in Tabs, Reload(t) PROVE TypeOK'
  BY <1>3 DEF TypeOK, Reload, Store, None
<1>4. ASSUME NEW t \in Tabs, handleSubmit(t) PROVE TypeOK'
  BY <1>4 DEF TypeOK, handleSubmit
<1>5. ASSUME NEW t \in Tabs, login(t) PROVE TypeOK'
  <2>1. /\ issued' = issued + 1 /\ issued' \in 0..MaxLogins
        /\ 0..issued \subseteq 0..issued' /\ 1..issued \subseteq 1..issued'
        /\ issued + 1 \in 0..issued' /\ issued + 1 \in 1..issued'
    BY <1>5 DEF TypeOK, login
  <2>2. storage' \in 0..issued' /\ valid' \subseteq 1..issued'
    BY <1>5, <2>1 DEF TypeOK, login, Stored
  <2>3. tab' \in [Tabs -> [mounted : {"none", "login", "shell", "page"}, token : 0..issued']]
    BY <1>5, <2>1 DEF TypeOK, login
  <2>4. requests' \subseteq [n : 1..sent', tab : Tabs, token : 0..issued', held : 0..issued']
    BY <1>5, <2>1 DEF TypeOK, login
  <2>5. signing' \in [Tabs -> {"idle", "sent", "stored"}] /\ sent' \in 0..MaxSent
    BY <1>5 DEF TypeOK, login
  <2>6. blame' \in [Tabs -> SUBSET {"login", "logout", "401"}]
    BY <1>5 DEF TypeOK, login, Stored
  <2>7. (\A u \in Tabs : signing[u] # "idle" => tab[u].mounted = "login")'
    BY <1>5 DEF TypeOK, login
  <2> QED
    BY <2>1, <2>2, <2>3, <2>4, <2>5, <2>6, <2>7 DEF TypeOK
<1>6. ASSUME NEW t \in Tabs, LoginFails(t) PROVE TypeOK'
  BY <1>6 DEF TypeOK, LoginFails
<1>7. ASSUME NEW t \in Tabs, setToken(t) PROVE TypeOK'
  BY <1>7 DEF TypeOK, setToken, Store
<1>8. ASSUME NEW t \in Tabs, logout(t) PROVE TypeOK'
  BY <1>8 DEF TypeOK, logout, Stored, Store, None
<1>9. ASSUME NEW t \in Tabs, apiFetch(t) PROVE TypeOK'
  <2>1. sent' = sent + 1 /\ sent' \in 0..MaxSent /\ 1..sent \subseteq 1..sent' /\ sent + 1 \in 1..sent'
    BY <1>9 DEF TypeOK, apiFetch
  <2>2. [n |-> sent + 1, tab |-> t, token |-> storage, held |-> tab[t].token] \in
          [n : 1..sent', tab : Tabs, token : 0..issued, held : 0..issued]
    BY <2>1 DEF TypeOK
  <2>3. requests \subseteq [n : 1..sent', tab : Tabs, token : 0..issued, held : 0..issued]
    BY <2>1 DEF TypeOK
  <2>4. requests' \subseteq [n : 1..sent', tab : Tabs, token : 0..issued', held : 0..issued']
    BY <1>9, <2>2, <2>3 DEF apiFetch
  <2> QED
    BY <1>9, <2>1, <2>4 DEF TypeOK, apiFetch
<1>10. ASSUME NEW r \in requests, Answered(r) PROVE TypeOK'
  BY <1>10 DEF TypeOK, Answered
<1>11. ASSUME NEW r \in requests, Unauthorized(r) PROVE TypeOK'
  BY <1>11 DEF TypeOK, Unauthorized, None
<1>12. ASSUME NEW k \in valid, Expire(k) PROVE TypeOK'
  BY <1>12 DEF TypeOK, Expire
<1>13. CASE UNCHANGED vars
  BY <1>13 DEF TypeOK, vars
<1> QED
  BY <1>1, <1>2, <1>3, <1>4, <1>5, <1>6, <1>7, <1>8, <1>9, <1>10, <1>11, <1>12, <1>13 DEF Next

\* Every step keeps the reasons.
LEMMA AccountedStep ==
  ASSUME IInv, [Next]_vars PROVE Accounted'
<1> USE DEF IInv, Accounted, Authed
<1>1. ASSUME NEW t \in Tabs, hydrate(t) PROVE Accounted'
  BY <1>1 DEF TypeOK, hydrate, Store, None
<1>2. ASSUME NEW t \in Tabs, ShellMounted(t) PROVE Accounted'
  BY <1>2 DEF TypeOK, ShellMounted, Store, None
<1>3. ASSUME NEW t \in Tabs, Reload(t) PROVE Accounted'
  BY <1>3 DEF TypeOK, Reload, Store, None
<1>4. ASSUME NEW t \in Tabs, handleSubmit(t) PROVE Accounted'
  BY <1>4 DEF TypeOK, handleSubmit
<1>5. ASSUME NEW t \in Tabs, login(t) PROVE Accounted'
  <2>1. ~Authed(t) /\ storage' = issued + 1 /\ storage' # None
    BY <1>5 DEF TypeOK, login, Stored, None
  <2>2. ASSUME NEW u \in Tabs, Authed(u)' PROVE "login" \in blame'[u]
    <3>1. u # t /\ Authed(u)
      BY <1>5, <2>1, <2>2 DEF login
    <3> QED
      BY <1>5, <3>1 DEF login, Stored, TypeOK
  <2> QED
    BY <2>1, <2>2
<1>6. ASSUME NEW t \in Tabs, LoginFails(t) PROVE Accounted'
  BY <1>6 DEF TypeOK, LoginFails
<1>7. ASSUME NEW t \in Tabs, setToken(t) PROVE Accounted'
  BY <1>7 DEF TypeOK, setToken, Store
<1>8. ASSUME NEW t \in Tabs, logout(t) PROVE Accounted'
  <2>1. ~Authed(t)' /\ storage' = None
    BY <1>8 DEF TypeOK, logout, Stored, Store
  <2>2. ASSUME NEW u \in Tabs, Authed(u)' PROVE "logout" \in blame'[u]
    <3>1. u # t /\ Authed(u)
      BY <1>8, <2>1, <2>2 DEF logout, Store, TypeOK
    <3> QED
      BY <1>8, <3>1 DEF logout, Stored, TypeOK
  <2> QED
    BY <2>1, <2>2
<1>9. ASSUME NEW t \in Tabs, apiFetch(t) PROVE Accounted'
  BY <1>9 DEF TypeOK, apiFetch
<1>10. ASSUME NEW r \in requests, Answered(r) PROVE Accounted'
  BY <1>10 DEF TypeOK, Answered
<1>11. ASSUME NEW r \in requests, Unauthorized(r) PROVE Accounted'
  BY <1>11 DEF TypeOK, Unauthorized
<1>12. ASSUME NEW k \in valid, Expire(k) PROVE Accounted'
  BY <1>12 DEF TypeOK, Expire
<1>13. CASE UNCHANGED vars
  BY <1>13 DEF vars
<1> QED
  BY <1>1, <1>2, <1>3, <1>4, <1>5, <1>6, <1>7, <1>8, <1>9, <1>10, <1>11, <1>12, <1>13 DEF Next

\* The inductive invariant is an invariant of the session.
LEMMA Inductive == Spec => []IInv
<1>1. IInv /\ [Next]_vars => IInv'
  BY TypeStep, AccountedStep DEF IInv
<1> QED
  BY InitIInv, <1>1, PTL DEF Spec

\* The types of the session state (lib/store.ts, lib/api.ts) are kept for any number
\* of tabs and requests, and a tab with a login in progress stays on the LoginPage.
THEOREM TypeCorrect == Spec => []TypeOK
<1>1. IInv => TypeOK
  BY DEF IInv
<1> QED
  BY Inductive, <1>1, PTL

\* apiFetch acts as another login, or as nobody, only for the reasons named.
THEOREM RequestsActAsTheirTab == Spec => ActsAsItself
<1> DEFINE Sends == \A r \in requests' \ requests : r.token # r.held =>
                       IF r.token = None THEN blame[r.tab] \cap {"logout", "401"} # {}
                                         ELSE "login" \in blame[r.tab]
<1>1. IInv /\ [Next]_vars => [Sends]_vars
  <2> SUFFICES ASSUME IInv, Next, NEW r \in requests' \ requests, r.token # r.held
               PROVE  IF r.token = None THEN blame[r.tab] \cap {"logout", "401"} # {}
                                        ELSE "login" \in blame[r.tab]
    OBVIOUS
  <2>1. PICK t \in Tabs : apiFetch(t)
    BY DEF Next, hydrate, ShellMounted, Reload, handleSubmit, login, LoginFails, setToken,
           logout, Answered, Unauthorized, Expire
  <2>2. r.tab = t /\ r.token = storage /\ r.held = tab[t].token /\ Authed(t)
    BY <2>1 DEF apiFetch, Authed
  <2> QED
    BY <2>2 DEF IInv, Accounted
<1> QED
  BY Inductive, <1>1, PTL DEF ActsAsItself, Spec

\* A valid token leaves localStorage only for a newer one, by a logout, or by the
\* 401 of a request that was sent with another token.
THEOREM ValidTokensKept == Spec => ValidTokenKept
<1> DEFINE Kept == storage' # storage /\ storage \in valid =>
       \/ storage' = issued' /\ issued' > issued
       \/ \E t \in Tabs : tab[t].mounted = "page" /\ tab'[t].mounted = "login"
       \/ \E r \in requests \ requests' : r.token # storage
<1>1. IInv /\ [Next]_vars => [Kept]_vars
  <2> SUFFICES ASSUME IInv, Next, storage' # storage, storage \in valid
               PROVE  \/ storage' = issued' /\ issued' > issued
                      \/ \E t \in Tabs : tab[t].mounted = "page" /\ tab'[t].mounted = "login"
                      \/ \E r \in requests \ requests' : r.token # storage
    OBVIOUS
  <2>1. \/ \E t \in Tabs : login(t) \/ logout(t)
        \/ \E r \in requests : Unauthorized(r)
    BY DEF Next, hydrate, ShellMounted, Reload, handleSubmit, LoginFails, setToken,
           apiFetch, Answered, Expire
  <2>2. ASSUME NEW t \in Tabs, login(t) PROVE storage' = issued' /\ issued' > issued
    BY <2>2 DEF login, Stored, IInv, TypeOK
  <2>3. ASSUME NEW t \in Tabs, logout(t)
        PROVE  tab[t].mounted = "page" /\ tab'[t].mounted = "login"
    BY <2>3 DEF logout, Store, IInv, TypeOK
  <2>4. ASSUME NEW r \in requests, Unauthorized(r)
        PROVE  r \in requests \ requests' /\ r.token # storage
    BY <2>4 DEF Unauthorized
  <2> QED
    BY <2>1, <2>2, <2>3, <2>4
<1> QED
  BY Inductive, <1>1, PTL DEF ValidTokenKept, Spec
=============================================================================
