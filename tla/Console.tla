-------------------------------- MODULE Console --------------------------------
(***************************************************************************)
(* The Streamlit console (ui/app.py, ui/api_client.py): browser sessions   *)
(* that sign in, ask, list and change things over the API and share one    *)
(* cache of lists, keyed by their tokens (security/tokens.py).             *)
(*                                                                         *)
(* The script of a session runs from top to bottom for every interaction,  *)
(* and a new interaction ends the run at its next output.  Sessions run    *)
(* side by side.  All data the lists are made of is one counter, the       *)
(* number of changes made to it.                                           *)
(***************************************************************************)
EXTENDS Naturals, FiniteSets

CONSTANTS
  Sessions, Users,
  Seconds,     \* seconds in which users sign in; any sign-in may fall into any of them
  None,        \* None
  Ttl,         \* ttl of the cache, in ticks
  MaxFiles,    \* bound: files of one upload
  MaxChanges   \* bound: changes

\* A token says whose it is and in which second it was issued, and nothing else: two
\* sign-ins of a user within one second are given the same.
Tokens == [of : Users, issued : Seconds]

ASSUME ConsoleAssumption ==
  /\ None \notin Users /\ None \notin Tokens
  /\ {Ttl, MaxFiles, MaxChanges} \subseteq Nat

VARIABLES
  token,      \* token[s]: the token of session s, or None
  user,       \* user[s]: the user it knows it is signed in as, or None
  history,    \* history[s]: whose answers are in chat_history
  busy,       \* busy[s]: what its script waits for
  fetched,    \* fetched[s]: the changes in the list it fetches
  succeeded,  \* succeeded[s]: files of its upload that are in
  rendered,   \* rendered[s]: the list on its page, <<>> if none
  cache,      \* _cached_lookup: a list per token, <<>> if there is none
  changes,    \* API: changes made so far
  told        \* history: told[s] = the last change session s reported as done

sessionVars == <<token, user, history, busy, fetched, succeeded, rendered, told>>
consoleVars == <<sessionVars, cache, changes>>

\* A list: whose it is, the session that fetched it, the changes it holds, and its age
\* in the cache.
Lists == [of : Users, by : Sessions, changes : 0 .. MaxChanges, age : 0 .. Ttl]
Renderings == [of : Users, by : Sessions, changes : 0 .. MaxChanges]

NoLists == [t \in Tokens |-> <<>>]

ConsoleInit ==
  /\ token = [s \in Sessions |-> None]
  /\ user = [s \in Sessions |-> None]
  /\ history = [s \in Sessions |-> {}]
  /\ busy = [s \in Sessions |-> "no"]
  /\ fetched = [s \in Sessions |-> 0]
  /\ succeeded = [s \in Sessions |-> 0]
  /\ rendered = [s \in Sessions |-> <<>>]
  /\ cache = NoLists
  /\ changes = 0
  /\ told = [s \in Sessions |-> 0]

-------------------------------------------------------------------------------
Waits(s, for) == busy' = [busy EXCEPT ![s] = for]

\* A new interaction draws the page anew.
Interacts(s, for) == Waits(s, for) /\ rendered' = [rendered EXCEPT ![s] = <<>>]

\* Mutant: the chat stays on the screen.
LogoutKeepsChat(s) ==
  /\ token' = [token EXCEPT ![s] = None]
  /\ user' = [user EXCEPT ![s] = None]
  /\ UNCHANGED history

Logout(s) ==
  /\ token' = [token EXCEPT ![s] = None]
  /\ user' = [user EXCEPT ![s] = None]
  /\ history' = [history EXCEPT ![s] = {}]

\* The login page again, with nothing pending.
BackToLogin(s) ==
  /\ Logout(s)
  /\ Waits(s, "no")
  /\ fetched' = [fetched EXCEPT ![s] = 0]
  /\ succeeded' = [succeeded EXCEPT ![s] = 0]
  /\ rendered' = [rendered EXCEPT ![s] = <<>>]
  /\ told' = [told EXCEPT ![s] = 0]

\* show_error on a 401: the token expired, or the account was deactivated.
SessionExpires(s) ==
  /\ busy[s] # "no"
  /\ BackToLogin(s)
  /\ UNCHANGED <<cache, changes>>

\* show_error on anything else, a request that is not answered included.
ShowError(s) ==
  /\ busy[s] \in {"ask", "fetch", "change", "share"}
  /\ Waits(s, "no")
  /\ fetched' = [fetched EXCEPT ![s] = 0]
  /\ UNCHANGED <<token, user, history, succeeded, rendered, told, cache, changes>>

ClearLookups == cache' = NoLists

\* Sign in: login, then me.  If me fails the token is kept, but not the user.
SignIn(s) ==
  /\ token[s] = None
  /\ \E t \in Tokens :
       /\ token' = [token EXCEPT ![s] = t]
       /\ \/ user' = [user EXCEPT ![s] = t.of] /\ ClearLookups
          \/ UNCHANGED <<user, cache>>
  /\ UNCHANGED <<history, busy, fetched, succeeded, rendered, told, changes>>

Ready(s) == user[s] # None /\ busy[s] = "no"

\* The button is in the sidebar, before the page: it also ends what the page waits for.
SignOut(s) ==
  /\ user[s] # None /\ busy[s] \in {"no", "ask"}
  /\ BackToLogin(s)
  /\ ClearLookups
  /\ UNCHANGED changes

\* The page is loaded anew, with a session of its own; without a user nothing else works.
Reload(s) ==
  /\ BackToLogin(s)
  /\ UNCHANGED <<cache, changes>>

-------------------------------------------------------------------------------
(* Chat.                                                                   *)

Ask(s) ==
  /\ Ready(s)
  /\ Interacts(s, "ask")
  /\ UNCHANGED <<token, user, history, fetched, succeeded, told, cache, changes>>

\* The answer joins the chat, unless another interaction came before it was written.
Answered(s) ==
  /\ busy[s] = "ask"
  /\ history' = [history EXCEPT ![s] = @ \union {token[s].of}]
  /\ Waits(s, "no")
  /\ UNCHANGED <<token, user, fetched, succeeded, rendered, told, cache, changes>>

-------------------------------------------------------------------------------
(* Lists.                                                                  *)

CacheKey(s) == token[s]

Render(s, l) ==
  rendered' = [rendered EXCEPT ![s] = <<[of |-> l.of, by |-> l.by, changes |-> l.changes]>>]

ListCached(s) ==
  /\ Ready(s) /\ cache[CacheKey(s)] # <<>>
  /\ Render(s, cache[CacheKey(s)][1])
  /\ UNCHANGED <<token, user, history, busy, fetched, succeeded, told, cache, changes>>

\* The API reads what there is.
Fetch(s) ==
  /\ Ready(s) /\ cache[CacheKey(s)] = <<>>
  /\ Interacts(s, "fetch")
  /\ fetched' = [fetched EXCEPT ![s] = changes]
  /\ UNCHANGED <<token, user, history, succeeded, told, cache, changes>>

\* The list is cached, even if the cache was cleared since, and rendered.
Fetched(s) ==
  LET l == [of |-> token[s].of, by |-> s, changes |-> fetched[s], age |-> 0] IN
  /\ busy[s] = "fetch"
  /\ cache' = [cache EXCEPT ![CacheKey(s)] = <<l>>]
  /\ Render(s, l)
  /\ Waits(s, "no")
  /\ fetched' = [fetched EXCEPT ![s] = 0]
  /\ UNCHANGED <<token, user, history, succeeded, told, changes>>

\* The button clears the lists; the next one is read anew.
Refresh(s) ==
  /\ Ready(s)
  /\ ClearLookups
  /\ UNCHANGED <<sessionVars, changes>>

CacheAges ==
  /\ cache' = [t \in Tokens |->
                 CASE cache[t] = <<>> -> <<>>
                   [] cache[t] # <<>> /\ cache[t][1].age < Ttl -> <<[cache[t][1] EXCEPT !.age = @ + 1]>>
                   [] OTHER -> <<>>]
  /\ UNCHANGED <<sessionVars, changes>>

-------------------------------------------------------------------------------
(* Changes.                                                                *)

\* A department, user, membership or text is created or changed, an account is
\* deactivated or a document deleted.
Change(s) ==
  /\ Ready(s) /\ changes < MaxChanges
  /\ changes' = changes + 1
  /\ Interacts(s, "change")
  /\ UNCHANGED <<token, user, history, fetched, succeeded, told, cache>>

\* Mutant: the lists that hold the change's predecessor stay in the cache.
ChangeDoneUncleared(s) ==
  /\ busy[s] = "change"
  /\ UNCHANGED cache
  /\ told' = [told EXCEPT ![s] = changes]
  /\ Waits(s, "no")
  /\ UNCHANGED <<token, user, history, fetched, succeeded, rendered, changes>>

ChangeDone(s) ==
  /\ busy[s] = "change"
  /\ ClearLookups
  /\ told' = [told EXCEPT ![s] = changes]
  /\ Waits(s, "no")
  /\ UNCHANGED <<token, user, history, fetched, succeeded, rendered, changes>>

\* Sharing does not clear the lists, though a document may come into one or leave it.
Share(s) ==
  /\ Ready(s) /\ changes < MaxChanges
  /\ changes' = changes + 1
  /\ Interacts(s, "share")
  /\ UNCHANGED <<token, user, history, fetched, succeeded, told, cache>>

Shared(s) ==
  /\ busy[s] = "share"
  /\ Waits(s, "no")
  /\ UNCHANGED <<token, user, history, fetched, succeeded, rendered, told, cache, changes>>

Upload(s) ==
  /\ Ready(s)
  /\ Interacts(s, "upload")
  /\ UNCHANGED <<token, user, history, fetched, succeeded, told, cache, changes>>

\* One file after another; one that cannot be read or is refused leaves it at that.
UploadFile(s) ==
  /\ busy[s] = "upload" /\ succeeded[s] < MaxFiles /\ changes < MaxChanges
  /\ changes' = changes + 1
  /\ succeeded' = [succeeded EXCEPT ![s] = @ + 1]
  /\ UNCHANGED <<token, user, history, busy, fetched, rendered, told, cache>>

\* The lists are cleared once, after the last file.
UploadDone(s) ==
  /\ busy[s] = "upload"
  /\ IF succeeded[s] > 0
     THEN ClearLookups /\ told' = [told EXCEPT ![s] = changes]
     ELSE UNCHANGED <<cache, told>>
  /\ succeeded' = [succeeded EXCEPT ![s] = 0]
  /\ Waits(s, "no")
  /\ UNCHANGED <<token, user, history, fetched, rendered, changes>>

\* Another interaction ends the run between two files, with the lists not cleared.
UploadInterrupted(s) ==
  /\ busy[s] = "upload"
  /\ succeeded' = [succeeded EXCEPT ![s] = 0]
  /\ Waits(s, "no")
  /\ UNCHANGED <<token, user, history, fetched, rendered, told, cache, changes>>

-------------------------------------------------------------------------------
ConsoleNext ==
  \/ CacheAges
  \/ \E s \in Sessions :
       \/ SignIn(s) \/ SignOut(s) \/ Reload(s) \/ SessionExpires(s) \/ ShowError(s)
       \/ Ask(s) \/ Answered(s)
       \/ ListCached(s) \/ Fetch(s) \/ Fetched(s) \/ Refresh(s)
       \/ Change(s) \/ ChangeDone(s) \/ Share(s) \/ Shared(s)
       \/ Upload(s) \/ UploadFile(s) \/ UploadDone(s) \/ UploadInterrupted(s)

ConsoleSpec == ConsoleInit /\ [][ConsoleNext]_consoleVars

-------------------------------------------------------------------------------
(* Properties.                                                             *)

\* The values the variables take.
ConsoleTypeOK ==
  /\ token \in [Sessions -> Tokens \union {None}]
  /\ user \in [Sessions -> Users \union {None}]
  /\ history \in [Sessions -> SUBSET Users]
  /\ busy \in [Sessions -> {"no", "ask", "fetch", "change", "share", "upload"}]
  /\ fetched \in [Sessions -> 0 .. MaxChanges]
  /\ succeeded \in [Sessions -> 0 .. MaxFiles]
  /\ rendered \in [Sessions -> {<<>>} \union {<<l>> : l \in Renderings}]
  /\ cache \in [Tokens -> {<<>>} \union {<<l>> : l \in Lists}]
  /\ changes \in 0 .. MaxChanges
  /\ told \in [Sessions -> 0 .. MaxChanges]

\* Whoever signs in next, and however the session before ended, the chat on the
\* screen is the user's own: an answer is filtered for the one who asked.
ChatIsOwn ==
  \A s \in Sessions :
    /\ history[s] \subseteq {user[s]}
    /\ user[s] # None => token[s] \in Tokens /\ user[s] = token[s].of

\* "Keyed on the token so one user's lists never leak into another's session after
\* a logout/login" (_cached_lookup), not even when sessions of a user share a token; and
\* a session that reported a change as done never renders a list of its own fetching
\* without it, whatever other sessions fetch and clear meanwhile.  (A list fetched by a
\* session that shares the token may be older: it is stored even if the cache was cleared
\* after it was read.)
ListsAreOwn ==
  \A s \in Sessions :
    rendered[s] # <<>> =>
      /\ rendered[s][1].of = user[s]
      /\ rendered[s][1].by = s => rendered[s][1].changes >= told[s]
===============================================================================
