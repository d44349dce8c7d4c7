---------------------------- MODULE AdminSession ----------------------------
(***************************************************************************)
(* Authentication in the administration front end.  The tabs of one        *)
(* browser share the token in localStorage; each tab has its own zustand    *)
(* store (lib/store.ts), filled once; and every request reads the token    *)
(* from localStorage at the moment it is sent (lib/api.ts).                *)
(***************************************************************************)
EXTENDS Naturals, FiniteSets

CONSTANTS Tabs,
          MaxLogins,    \* bound: tokens the server issues
          MaxRequests,  \* bound: requests in progress at a time
          MaxSent       \* bound: requests

ASSUME BoundsAssumption == MaxLogins \in Nat /\ MaxRequests \in Nat /\ MaxSent \in Nat

\* No token.  The empty string counts as none wherever a token is read.
None == 0

VARIABLES storage,   \* localStorage.soul_token
          tab,       \* per tab: what is mounted, and token and isAuthenticated of the store
          signing,   \* per tab: progress of handleSubmit
          requests,  \* in progress: tab, token each was sent with, token of the tab's store
          valid,     \* tokens the server accepts
          issued,    \* number of tokens issued
          sent,      \* number of requests sent
          blame      \* history, per tab: who changed localStorage under it

vars == <<storage, tab, signing, requests, valid, issued, sent, blame>>

\* mounted: "none" before AppWrapper's effect, "login" the LoginPage, "shell" the
\* AdminShell before its effect, "page" the AdminShell with the page.
Store(m, k) == [mounted |-> m, token |-> k]
Authed(t) == tab[t].mounted \in {"shell", "page"}

Init ==
  /\ storage = None
  /\ tab = [t \in Tabs |-> Store("none", None)]
  /\ signing = [t \in Tabs |-> "idle"]
  /\ requests = {} /\ valid = {} /\ issued = 0 /\ sent = 0
  /\ blame = [t \in Tabs |-> {}]

\* Tab t writes k into localStorage: the other tabs that are signed in are affected.
Stored(t, k, what) ==
  /\ storage' = k
  /\ blame' = [u \in Tabs |-> IF u # t /\ Authed(u) THEN blame[u] \cup {what} ELSE blame[u]]

\* AppWrapper's effect: the store is filled from localStorage.
hydrate(t) ==
  /\ tab[t].mounted = "none"
  /\ tab' = [tab EXCEPT ![t] = Store(IF storage = None THEN "login" ELSE "shell", storage)]
  /\ blame' = [blame EXCEPT ![t] = {}]
  /\ UNCHANGED <<storage, signing, requests, valid, issued, sent>>

\* AdminShell's effect hydrates again, which leaves the store alone when there is
\* no token.
ShellMounted(t) ==
  /\ tab[t].mounted = "shell"
  /\ tab' = [tab EXCEPT ![t] = Store("page", IF storage = None THEN tab[t].token ELSE storage)]
  /\ UNCHANGED <<storage, signing, requests, valid, issued, sent, blame>>

\* The user loads the page again: store, requests and a login in progress are gone.
Reload(t) ==
  /\ tab[t].mounted # "none"
  /\ tab' = [tab EXCEPT ![t] = Store("none", None)]
  /\ signing' = [signing EXCEPT ![t] = "idle"]
  /\ requests' = {r \in requests : r.tab # t}
  /\ UNCHANGED <<storage, valid, issued, sent, blame>>

\* The submit button is disabled while a login is in progress.
handleSubmit(t) ==
  /\ tab[t].mounted = "login"
  /\ signing[t] = "idle"
  /\ signing' = [signing EXCEPT ![t] = "sent"]
  /\ UNCHANGED <<storage, tab, requests, valid, issued, sent, blame>>

\* Mutant: the answer is not checked, and what was never issued is stored.
login_unchecked(t) ==
  /\ signing[t] = "sent"
  /\ signing' = [signing EXCEPT ![t] = "stored"]
  /\ Stored(t, issued + 1, "login")
  /\ UNCHANGED <<tab, requests, valid, issued, sent>>

\* The server accepts the password, and the token goes to localStorage.
login(t) ==
  /\ signing[t] = "sent"
  /\ issued < MaxLogins
  /\ issued' = issued + 1
  /\ valid' = valid \cup {issued + 1}
  /\ signing' = [signing EXCEPT ![t] = "stored"]
  /\ Stored(t, issued + 1, "login")
  /\ UNCHANGED <<tab, requests, sent>>

LoginFails(t) ==
  /\ signing[t] = "sent"
  /\ signing' = [signing EXCEPT ![t] = "idle"]
  /\ UNCHANGED <<storage, tab, requests, valid, issued, sent, blame>>

\* The rest of handleSubmit reads the token back from localStorage, where another
\* tab may have changed or removed it, and stores what it found.
setToken(t) ==
  /\ signing[t] = "stored"
  /\ signing' = [signing EXCEPT ![t] = "idle"]
  /\ tab' = [tab EXCEPT ![t] = Store("shell", storage)]
  /\ blame' = [blame EXCEPT ![t] = {}]
  /\ UNCHANGED <<storage, requests, valid, issued, sent>>

\* Mutant: localStorage is cleared and the store is not.
logout_storage_only(t) ==
  /\ tab[t].mounted = "page"
  /\ Stored(t, None, "logout")
  /\ UNCHANGED <<tab, signing, requests, valid, issued, sent>>

\* The store is emptied, so that AppWrapper shows the LoginPage again.
logout(t) ==
  /\ tab[t].mounted = "page"
  /\ tab' = [tab EXCEPT ![t] = Store("login", None)]
  /\ Stored(t, None, "logout")
  /\ UNCHANGED <<signing, requests, valid, issued, sent>>

\* A page asks for something, with the token that localStorage holds now.
apiFetch(t) ==
  /\ tab[t].mounted = "page"
  /\ sent < MaxSent /\ Cardinality(requests) < MaxRequests
  /\ sent' = sent + 1
  /\ requests' = requests \cup {[n |-> sent + 1, tab |-> t, token |-> storage, held |-> tab[t].token]}
  /\ UNCHANGED <<storage, tab, signing, valid, issued, blame>>

\* The server accepted the token, whatever else it answered.
Answered(r) ==
  /\ r.token \in valid
  /\ requests' = requests \ {r}
  /\ UNCHANGED <<storage, tab, signing, valid, issued, sent, blame>>

\* Mutant: localStorage is cleared after any error.
Unauthorized_any_error(r) ==
  /\ requests' = requests \ {r}
  /\ storage' = None
  /\ blame' = [u \in Tabs |-> IF Authed(u) THEN blame[u] \cup {"401"} ELSE blame[u]]
  /\ UNCHANGED <<tab, signing, valid, issued, sent>>

\* 401: localStorage is cleared, whatever token it holds by now; no store is.
Unauthorized(r) ==
  /\ r.token \notin valid
  /\ requests' = requests \ {r}
  /\ storage' = None
  /\ blame' = [u \in Tabs |-> IF Authed(u) THEN blame[u] \cup {"401"} ELSE blame[u]]
  /\ UNCHANGED <<tab, signing, valid, issued, sent>>

\* The server no longer accepts a token.
Expire(k) ==
  /\ k \in valid
  /\ valid' = valid \ {k}
  /\ UNCHANGED <<storage, tab, signing, requests, issued, sent, blame>>

Next ==
  \/ \E t \in Tabs : \/ hydrate(t) \/ ShellMounted(t) \/ Reload(t) \/ handleSubmit(t)
                     \/ login(t) \/ LoginFails(t) \/ setToken(t) \/ logout(t) \/ apiFetch(t)
  \/ \E r \in requests : Answered(r) \/ Unauthorized(r)
  \/ \E k \in valid : Expire(k)

Spec == Init /\ [][Next]_vars

-----------------------------------------------------------------------------
(* Properties *)

\* Nobody holds, sends or accepts a token that the server has not issued, and a
\* tab with a login in progress shows the LoginPage.
TypeOK ==
  /\ issued \in 0..MaxLogins /\ sent \in 0..MaxSent
  /\ storage \in 0..issued
  /\ tab \in [Tabs -> [mounted : {"none", "login", "shell", "page"}, token : 0..issued]]
  /\ signing \in [Tabs -> {"idle", "sent", "stored"}]
  /\ \A t \in Tabs : signing[t] # "idle" => tab[t].mounted = "login"
  /\ requests \subseteq [n : 1..sent, tab : Tabs, token : 0..issued, held : 0..issued]
  /\ valid \subseteq 1..issued
  /\ blame \in [Tabs -> SUBSET {"login", "logout", "401"}]

\* apiFetch sends what localStorage holds, not what the store of the tab says: the
\* two copies of the token never drift apart through the tab's own logins, logouts
\* and reloads.  A tab whose store says one login acts as another one only if
\* another tab signed in, and as nobody only after another tab's logout or a 401.
ActsAsItself ==
  [][\A r \in requests' \ requests : r.token # r.held =>
        IF r.token = None THEN blame[r.tab] \cap {"logout", "401"} # {}
                          ELSE "login" \in blame[r.tab]]_vars

\* A token that the server still accepts leaves localStorage only for a newer one,
\* by a logout, or by the late 401 of a request that was sent with another token
\* (clearToken in apiFetch does not look at what it removes).
ValidTokenKept ==
  [][storage' # storage /\ storage \in valid =>
       \/ storage' = issued' /\ issued' > issued
       \/ \E t \in Tabs : tab[t].mounted = "page" /\ tab'[t].mounted = "login"
       \/ \E r \in requests \ requests' : r.token # storage]_vars
=============================================================================
