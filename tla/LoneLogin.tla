----------------------------- MODULE LoneLogin -----------------------------
(***************************************************************************)
(* EaSession with a history variable, for what the code promises of a      *)
(* login that runs alone: whether another goroutine was under way at some  *)
(* time during each request. The variable only watches: every behaviour of *)
(* EaSession is one of this module, and the other way round.               *)
(***************************************************************************)
EXTENDS EaSession

VARIABLE crowded  \* for each request, whether another goroutine ran during it

loneVars == <<vars, crowded>>

OthersUnderWay(r) == \E p \in Procs \ {r} : ~At(p, "idle")

LoneInit == Init /\ crowded = [r \in Requests |-> FALSE]

LoneNext ==
  /\ Next
  /\ crowded' = [r \in Requests |->
                   /\ loc'[r].pc # "idle"
                   /\ crowded[r] \/ OthersUnderWay(r) \/ OthersUnderWay(r)']

LoneSpec == LoneInit /\ [][LoneNext]_loneVars

\* With the fairness of FairSpec.
LoneFairSpec ==
  /\ LoneSpec
  /\ \A p \in Procs : WF_vars(Continue(p))
  /\ WF_vars(StartUpdates(Job))

-----------------------------------------------------------------------------

\* A login during which no other goroutine ran leaves the account with the API
\* user who logged in, whatever the table held before (LoginPost).
LoneLoginReplacesWebUser ==
  [][\A r \in Requests :
       LoginEnds(r) /\ ~crowded[r] => row'[loc[r].name].web = loc[r].by]_loneVars

\* Such a login, for a name in lower case, leaves its cookie in the row, although
\* only the deferred call stores it (LoginPost, UpdateCookie).
LoneLoginUpdatesCookie ==
  [][\A r \in Requests :
       LoginEnds(r) /\ ~crowded[r] /\ Lower[loc[r].name] = loc[r].name
         => row'[loc[r].name].cookie = loc[r].jar]_loneVars

-----------------------------------------------------------------------------
(* Why it does, when no statement fails.                                   *)

\* The deferred UpdateCookie of a login starts from a userModel without a cookie.
LoginShape(l) ==
  /\ l.pc \in {"login_site", "login_save", "defer_read", "defer_save"}
  /\ l.model = None /\ l.todo = {} /\ l.webs = {} /\ ~l.panicked
  /\ l.pc # "login_site" => l.jar # None

\* What the login stored is what the table has, and what it is about to save back.
LoginStands(l) ==
  /\ l.pc \in {"defer_read", "defer_save"} => l.name \in stored /\ row[l.name].web = l.by
  /\ l.pc = "defer_save" => l.copy = row[Lower[l.name]]

\* A request nothing overlapped finds the others idle, and if it is a login, its
\* row as it stored it (LoginPost, UpdateUser, SetCookieForUser).
LoneInv ==
  /\ crowded \in [Requests -> BOOLEAN]
  /\ \A r \in Requests :
       /\ loc[r].op = "login" => LoginShape(loc[r])
       /\ ~At(r, "idle") /\ ~crowded[r] =>
            /\ ~OthersUnderWay(r)
            /\ loc[r].op = "login" => LoginStands(loc[r])

=============================================================================
