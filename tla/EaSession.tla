------------------------------ MODULE EaSession ------------------------------
(***************************************************************************)
(* The table eaGateUser (db/user_db/sql.go), which links an e-amusement    *)
(* account to an API user and keeps the cookie of its site session, and    *)
(* every goroutine that reads and writes it: the request handlers of       *)
(* common/user.go, the handlers of ddr/ and drs/ that act for a user       *)
(* through an EaClient (eagate/util/ea_client.go), and the hourly job of   *)
(* jobs/job_manager.go.                                                    *)
(*                                                                         *)
(* No statement of the code opens a transaction: an operation is a         *)
(* sequence of single database statements and site requests, and every     *)
(* write stores a whole row (gorm's Save) that was read some steps before. *)
(* One action here is one such statement or request, so that the steps of  *)
(* different goroutines interleave as they do in the program.              *)
(***************************************************************************)
EXTENDS Naturals, FiniteSets

CONSTANTS
  Names,     \* e-amusement login names as users type them, in any case
  Lower,     \* strings.ToLower, a function on Names
  WebUsers,  \* API users: the lower-cased "sub" of a token
  Cookies,   \* session cookies the site may issue; finite in a check, so a bound
  None,      \* the empty string: no web user, no cookie, no name
  Requests,  \* goroutines that serve HTTP requests
  Job,       \* the goroutine of StartJobs
  MayRun,    \* what each goroutine may start, a subset of Kinds
  Faults     \* what may go wrong outside the program, a subset of FaultKinds

Kinds == {"login", "logout", "loginGet", "ddr", "drs", "updates"}

\* net: a request gets no answer.  db: a statement fails.  rotate: the site
\* answers with a new cookie.  anon: it does so when it refuses a session.
\* busy: it refuses one with a status of its own, an error or maintenance page.
\* race: the runtime catches a fan-out reading the jar while it is written.
FaultKinds == {"net", "db", "rotate", "anon", "busy", "race"}

Procs == Requests \cup {Job}

ASSUME NamesAssumption ==
  /\ Lower \in [Names -> Names]
  /\ \A n \in Names : Lower[Lower[n]] = Lower[n]

ASSUME ConstantsAssumption ==
  /\ None \notin Names \cup WebUsers \cup Cookies
  /\ Job \notin Requests
  /\ MayRun \in [Procs -> SUBSET Kinds]
  /\ MayRun[Job] \subseteq {"updates"}
  /\ Faults \subseteq FaultKinds

VARIABLES
  stored,  \* names that have a row
  row,     \* the row of each name; Blank where there is none
  issued,  \* cookies the site has handed out
  owner,   \* the account a cookie was issued to, None for an anonymous visitor
  live,    \* cookies the site still accepts
  proven,  \* history: <<w, a>> where w gave the site the password of account a
  loc      \* the local variables of each goroutine

db   == <<stored, row>>
site == <<issued, owner, live, proven>>
vars == <<stored, row, issued, owner, live, proven, loc>>

(***************************************************************************)
(* A row keeps web_user, login_cookie and whether cookie_expiration is     *)
(* set; nickname and subscription are payload nothing here depends on.     *)
(***************************************************************************)
Row == [web : WebUsers \cup {None}, cookie : Cookies \cup {None}, timed : BOOLEAN]

Blank == [web |-> None, cookie |-> None, timed |-> FALSE]

Item == [name : Names, row : Row]

Steps == {"idle", "next", "fetch", "client_read", "client_check", "use",
          "login_site", "login_save", "logout_read", "logout_save",
          "clear", "upd_check", "upd_sub", "upd_save", "select_profiles",
          "defer_read", "defer_save"}

(***************************************************************************)
(* pc: the next statement.  op: the operation being run.  by: the API user *)
(* it runs for.  name, model: Name and Cookie of the userModel the client  *)
(* was given.  jar: the cookie in the client's jar.  copy: the row last    *)
(* read in order to be written back.  todo, webs: what is left of a loop.  *)
(* panicked: a panic is unwinding the goroutine.                           *)
(***************************************************************************)
Local == [pc : Steps, op : Kinds \cup {"profile", "none"},
          by : WebUsers \cup {None}, name : Names \cup {None},
          model : Cookies \cup {None}, jar : Cookies \cup {None},
          copy : Row, todo : SUBSET Item, webs : SUBSET (Names \X WebUsers),
          panicked : BOOLEAN]

Idle == [pc |-> "idle", op |-> "none", by |-> None, name |-> None,
         model |-> None, jar |-> None, copy |-> Blank, todo |-> {},
         webs |-> {}, panicked |-> FALSE]

TypeOK ==
  /\ stored \subseteq Names
  /\ row \in [Names -> Row]
  /\ issued \subseteq Cookies
  /\ owner \in [Cookies -> Names \cup {None}]
  /\ live \subseteq issued
  /\ proven \subseteq WebUsers \X Names
  /\ loc \in [Procs -> Local]

Init ==
  /\ stored = {}
  /\ row = [n \in Names |-> Blank]
  /\ issued = {}
  /\ owner = [c \in Cookies |-> None]
  /\ live = {}
  /\ proven = {}
  /\ loc = [p \in Procs |-> Idle]

-----------------------------------------------------------------------------
(* Steps the operations share.                                             *)

At(p, step) == loc[p].pc = step

Become(p, local) == loc' = [loc EXCEPT ![p] = local]

Goto(p, step) == Become(p, [loc[p] EXCEPT !.pc = step])

\* db.Save of a whole row: an upsert under the primary key it carries.
Save(n, r) ==
  /\ stored' = stored \cup {n}
  /\ row' = [row EXCEPT ![n] = r]

\* A Save that fails leaves the table alone; callers only log its error.
SaveOrFail(n, r) == Save(n, r) \/ ("db" \in Faults /\ UNCHANGED db)

\* A cookie the site has not used before goes to the client of account a.
Issue(c, a) ==
  /\ c \in Cookies \ issued
  /\ issued' = issued \cup {c}
  /\ owner' = [owner EXCEPT ![c] = a]

\* The site accepts the session in p's jar, and leaves cookie j there.
Accepted(p, j) ==
  /\ loc[p].jar \in live
  /\ \/ j = loc[p].jar /\ UNCHANGED site
     \/ /\ "rotate" \in Faults
        /\ Issue(j, owner[loc[p].jar])
        /\ live' = live \cup {j}
        /\ UNCHANGED proven

\* The site does not know the session in p's jar, and leaves cookie j there.
Rejected(p, j) ==
  /\ loc[p].jar \notin live
  /\ \/ j = loc[p].jar /\ UNCHANGED site
     \/ "anon" \in Faults /\ Issue(j, None) /\ UNCHANGED <<live, proven>>

\* LoginState knows a refusal by status 401 or a redirect to the login page, and
\* takes whatever else comes back for a session that is logged in.
Misread(p, j) == "busy" \in Faults /\ Rejected(p, j)

\* The request of p gets no answer, which leaves the jar alone.
Unanswered(p, j) == "net" \in Faults /\ j = loc[p].jar /\ UNCHANGED site

\* The process dies and systemd starts it again: only the database is left.
Restart == loc' = [p \in Procs |-> Idle]

\* Bug: one client for the whole loop, so its jar outlives the account.
RestKeepingJar(p) ==
  [Idle EXCEPT !.pc = IF loc[p].todo = {} THEN "idle" ELSE "next",
               !.op = loc[p].op, !.by = loc[p].by, !.jar = loc[p].jar,
               !.todo = loc[p].todo]

\* What p does once the client it works with is gone: the next one, or nothing.
Rest(p) ==
  IF loc[p].todo = {} /\ loc[p].webs = {} /\ ~(p = Job /\ loc[p].op = "updates")
  THEN Idle
  ELSE [Idle EXCEPT !.pc = "next", !.op = loc[p].op, !.by = loc[p].by,
                    !.todo = loc[p].todo, !.webs = loc[p].webs]

\* A panic ends a request (net/http recovers it) but kills the process in the job.
Panic(p) == IF p = Job THEN Restart ELSE Become(p, Idle)

Leave(p) == IF loc[p].panicked THEN Panic(p) ELSE Become(p, Rest(p))

-----------------------------------------------------------------------------
(* LoginPost.                                                              *)

\* Bug: the row is saved before the site has been asked.
StartLoginSaving(p, w, n) ==
  /\ At(p, "idle") /\ "login" \in MayRun[p]
  /\ Become(p, [Idle EXCEPT !.pc = "login_save", !.op = "login",
                            !.by = w, !.name = n])
  /\ UNCHANGED <<db, site>>

StartLogin(p, w, n) ==
  /\ At(p, "idle") /\ "login" \in MayRun[p]
  /\ Become(p, [Idle EXCEPT !.pc = "login_site", !.op = "login",
                            !.by = w, !.name = n])
  /\ UNCHANGED <<db, site>>

\* Captcha, login request, LoginState and the subscription page all succeed.
LoginAccepted(p) ==
  /\ At(p, "login_site")
  /\ \E c \in Cookies :
       /\ Issue(c, Lower[loc[p].name])
       /\ live' = live \cup {c}
       /\ Become(p, [loc[p] EXCEPT !.pc = "login_save", !.jar = c])
  /\ proven' = proven \cup {<<loc[p].by, Lower[loc[p].name]>>}
  /\ UNCHANGED db

\* Bug: the error of the login is logged and not returned.
LoginRefusalIgnored(p) ==
  /\ At(p, "login_site")
  /\ Goto(p, "login_save")
  /\ UNCHANGED <<db, site>>

\* One of them fails. The deferred UpdateCookie then runs for a userModel that
\* has no name: it finds no row and stores none, or panics on an empty jar.
LoginRefused(p) ==
  /\ At(p, "login_site")
  /\ Become(p, Idle)
  /\ UNCHANGED <<db, site>>

\* Bug: the arguments of the row are swapped.
LoginSaveSwapped(p) ==
  /\ At(p, "login_save")
  /\ SaveOrFail(loc[p].name, [web |-> loc[p].jar, cookie |-> None, timed |-> TRUE])
  /\ Goto(p, "defer_read")
  /\ UNCHANGED site

\* Bug: the cookie is stored under the name as it was typed.
LoginSaveWithCookie(p) ==
  /\ At(p, "login_save")
  /\ SaveOrFail(loc[p].name,
                [web |-> loc[p].by, cookie |-> loc[p].jar, timed |-> TRUE])
  /\ Goto(p, "defer_read")
  /\ UNCHANGED site

\* Bug: an account that has an API user keeps it.
LoginSaveIfUnlinked(p) ==
  /\ At(p, "login_save")
  /\ SaveOrFail(loc[p].name,
       [web    |-> IF row[loc[p].name].web = None THEN loc[p].by
                                                 ELSE row[loc[p].name].web,
        cookie |-> None, timed |-> TRUE])
  /\ Goto(p, "defer_read")
  /\ UNCHANGED site

\* UpdateUser. GetCookieFromEaGate worked on a copy of the client, so this
\* client's ActiveCookie is empty and the row is saved without a cookie: the
\* deferred UpdateCookie is what stores it.
LoginSave(p) ==
  /\ At(p, "login_save")
  /\ SaveOrFail(loc[p].name, [web |-> loc[p].by, cookie |-> None, timed |-> TRUE])
  /\ Goto(p, "defer_read")
  /\ UNCHANGED site

-----------------------------------------------------------------------------
(* The deferred UpdateCookie, and SetCookieForUser, which it calls.        *)

\* Bug: a userModel without a cookie has nothing to update.
CookieUnchangedOrNew(p) ==
  /\ At(p, "defer_read")
  /\ loc[p].jar # None /\ loc[p].model \in {None, loc[p].jar}
  /\ Leave(p)
  /\ UNCHANGED <<db, site>>

\* Nothing to store: the jar still holds the cookie the userModel came with.
CookieUnchanged(p) ==
  /\ At(p, "defer_read")
  /\ loc[p].jar # None /\ loc[p].model = loc[p].jar
  /\ Leave(p)
  /\ UNCHANGED <<db, site>>

CookieChanged(p) == loc[p].model = None \/ loc[p].model # loc[p].jar

\* The row is read back by lower-cased name. Without one the Save that follows
\* inserts a row that has no primary key, which the table refuses.
DeferRead(p) ==
  /\ At(p, "defer_read") /\ CookieChanged(p)
  /\ \/ "db" \in Faults /\ Leave(p)
     \/ loc[p].jar # None /\ Lower[loc[p].name] \notin stored /\ Leave(p)
     \/ /\ loc[p].jar # None /\ Lower[loc[p].name] \in stored
        /\ Become(p, [loc[p] EXCEPT !.pc = "defer_save",
                                    !.copy = row[Lower[loc[p].name]]])
  /\ UNCHANGED <<db, site>>

\* GetEaCookie returns nil for an empty jar, and SetCookieForUser reads its
\* Expires field.
DeferPanic(p) ==
  /\ At(p, "defer_read") /\ CookieChanged(p)
  /\ loc[p].jar = None
  /\ Panic(p)
  /\ UNCHANGED <<db, site>>

DeferSave(p) ==
  /\ At(p, "defer_save")
  /\ SaveOrFail(Lower[loc[p].name],
                [loc[p].copy EXCEPT !.cookie = loc[p].jar, !.timed = TRUE])
  /\ Leave(p)
  /\ UNCHANGED site

-----------------------------------------------------------------------------
(* LogoutPost, and SetWebUserForEaUser, which it calls. Requests that find *)
(* no row, or a row of another API user, answer without changing anything. *)

StartLogout(p, w, n) ==
  /\ At(p, "idle") /\ "logout" \in MayRun[p]
  /\ Lower[n] \in stored /\ row[Lower[n]].web = w
  /\ Become(p, [Idle EXCEPT !.pc = "logout_read", !.op = "logout",
                            !.by = w, !.name = Lower[n]])
  /\ UNCHANGED <<db, site>>

LogoutRead(p) ==
  /\ At(p, "logout_read")
  /\ \/ Become(p, [loc[p] EXCEPT !.pc = "logout_save", !.copy = row[loc[p].name]])
     \/ "db" \in Faults /\ Become(p, Idle)
  /\ UNCHANGED <<db, site>>

LogoutSave(p) ==
  /\ At(p, "logout_save")
  /\ SaveOrFail(loc[p].name, [loc[p].copy EXCEPT !.web = None])
  /\ Become(p, Idle)
  /\ UNCHANGED site

-----------------------------------------------------------------------------
(* Requests that act on the site for the accounts linked to an API user:   *)
(* LoginGet and ProfilePatch (drs) for each of them, the handlers of ddr   *)
(* for the first the query returns, which names no order.                  *)

\* Bug: accounts nobody is linked to are offered to everybody.
LinkedToOrFree(w) == {n \in stored : row[n].web \in {w, None}}

LinkedTo(w) == {n \in stored : row[n].web = w}

StartRequest(p, w, kind) ==
  /\ At(p, "idle") /\ kind \in MayRun[p] \cap {"loginGet", "ddr", "drs"}
  /\ \E names \in SUBSET LinkedTo(w) :
       /\ IF kind = "ddr" THEN Cardinality(names) = 1
                          ELSE names = LinkedTo(w) /\ names # {}
       /\ Become(p, [Idle EXCEPT !.pc = "next", !.op = kind, !.by = w,
                                 !.todo = [name : names, row : {Blank}]])
  /\ UNCHANGED <<db, site>>

\* RetrieveUserByUserId gives the userModel of the client; LoginGet makes no
\* client for a row whose cookie has expired, by a clock left abstract here.
Fetch(p) ==
  /\ At(p, "fetch")
  /\ LET a == Lower[loc[p].name] IN
     \/ /\ a \in stored
        /\ loc[p].op = "loginGet" => row[a].timed
        /\ Become(p, [loc[p] EXCEPT !.pc = "client_read", !.name = a,
                                    !.model = row[a].cookie])
     \/ a \notin stored /\ Become(p, Rest(p))
     \/ loc[p].op = "loginGet" /\ Become(p, Rest(p))
     \/ "db" \in Faults /\ Become(p, Rest(p))
  /\ UNCHANGED <<db, site>>

-----------------------------------------------------------------------------
(* CreateClientForUser. Its caller has already deferred UpdateCookie.      *)

\* RunUpdatesOnAllEaUsers clears the row of a client that got no session.
WithoutSession(p) == IF loc[p].op = "updates" THEN "clear" ELSE "defer_read"

\* Bug: a row without a cookie is not recognised.
ClientReadUnchecked(p) ==
  /\ At(p, "client_read")
  /\ LET a == Lower[loc[p].name] IN
     \/ a \notin stored /\ Goto(p, "defer_read")
     \/ /\ a \in stored
        /\ Become(p, [loc[p] EXCEPT !.pc = "client_check", !.jar = row[a].cookie])
     \/ "db" \in Faults /\ Goto(p, WithoutSession(p))
  /\ UNCHANGED <<db, site>>

ClientRead(p) ==
  /\ At(p, "client_read")
  /\ LET a == Lower[loc[p].name] IN
     \/ a \notin stored /\ Goto(p, "defer_read")
     \/ a \in stored /\ row[a].cookie = None /\ Goto(p, WithoutSession(p))
     \/ /\ a \in stored /\ row[a].cookie # None
        /\ Become(p, [loc[p] EXCEPT !.pc = "client_check", !.jar = row[a].cookie])
     \/ "db" \in Faults /\ Goto(p, WithoutSession(p))
  /\ UNCHANGED <<db, site>>

\* LoginState: a request without an answer counts as a session refused.
ClientCheck(p) ==
  /\ At(p, "client_check")
  /\ \E j \in Cookies :
       \/ /\ Accepted(p, j) \/ Misread(p, j)
          /\ Become(p, [loc[p] EXCEPT !.jar = j,
                !.pc = IF loc[p].op = "updates" THEN "upd_check" ELSE "use"])
       \/ /\ Rejected(p, j) \/ Unanswered(p, j)
          /\ Become(p, [loc[p] EXCEPT !.jar = j, !.pc = WithoutSession(p)])
  /\ UNCHANGED db

-----------------------------------------------------------------------------
(* The requests an operation makes with its client.                        *)

\* Only the requests that change the jar matter here. What a page makes of the
\* code that parses it, a panic included, is left open (workoutDataFromDocument
\* and Transform have one each).
Use(p) ==
  /\ At(p, "use")
  /\ \E j \in Cookies, next \in {"use", "defer_read"}, died \in BOOLEAN :
       /\ Accepted(p, j) \/ Rejected(p, j)
       /\ next = "use" => j # loc[p].jar /\ ~died
       /\ died => loc[p].op # "loginGet"
       /\ Become(p, [loc[p] EXCEPT !.jar = j, !.pc = next, !.panicked = died])
  /\ UNCHANGED db

\* LoginState takes a lost answer for a refusal; GetPageContentAsGoQuery
\* dereferences the response it did not get.
UseUnanswered(p) ==
  /\ At(p, "use") /\ "net" \in Faults
  /\ \E died \in BOOLEAN :
       /\ died => loc[p].op # "loginGet"
       /\ Become(p, [loc[p] EXCEPT !.pc = "defer_read", !.panicked = died])
  /\ UNCHANGED <<db, site>>

\* The same in a goroutine of a fan-out, or a map race there: nothing recovers
\* it, and no deferred call of the handler runs.
FanOutPanic(p) ==
  /\ At(p, "use") /\ loc[p].op \in {"ddr", "profile"}
  /\ {"net", "race"} \cap Faults # {}
  /\ Restart
  /\ UNCHANGED <<db, site>>

-----------------------------------------------------------------------------
(* RunUpdatesOnAllEaUsers, from the hourly tick or from ForceUpdatePost.   *)
(* The rows are read once; each is written back whole, however old it is.  *)

StartUpdates(p) ==
  /\ At(p, "idle") /\ "updates" \in MayRun[p]
  /\ \E found \in {{n \in stored : row[n].cookie # None}}
                  \cup (IF "db" \in Faults THEN {{}} ELSE {}) :
       Become(p, [Idle EXCEPT !.pc = "next", !.op = "updates",
                             !.todo = {[name |-> n, row |-> row[n]] : n \in found}])
  /\ UNCHANGED <<db, site>>

\* The next account of a loop, in whatever order the query returned them.
NextItem(p) ==
  /\ At(p, "next")
  /\ \E it \in loc[p].todo :
       Become(p, [loc[p] EXCEPT !.name = it.name, !.todo = @ \ {it},
                    !.pc    = IF loc[p].op = "updates" THEN "client_read" ELSE "fetch",
                    !.model = it.row.cookie,
                    !.copy  = it.row])
  /\ UNCHANGED <<db, site>>

\* Bug: only the expiration is reset.
ClearExpiration(p) ==
  /\ At(p, "clear")
  /\ SaveOrFail(loc[p].name, [loc[p].copy EXCEPT !.timed = FALSE])
  /\ Goto(p, "defer_read")
  /\ UNCHANGED site

\* The cookie is blanked in the row as it was when the updates began.
Clear(p) ==
  /\ At(p, "clear")
  /\ SaveOrFail(loc[p].name, [loc[p].copy EXCEPT !.cookie = None, !.timed = FALSE])
  /\ Goto(p, "defer_read")
  /\ UNCHANGED site

\* The second LoginState, after which the row copy takes the jar's cookie.
UpdCheck(p) ==
  /\ At(p, "upd_check")
  /\ \E j \in Cookies :
       \/ /\ Accepted(p, j) \/ Misread(p, j)
          /\ Become(p, [loc[p] EXCEPT !.jar = j, !.pc = "upd_sub",
                           !.copy = [@ EXCEPT !.cookie = j, !.timed = TRUE]])
       \/ /\ Rejected(p, j) \/ Unanswered(p, j)
          /\ Become(p, [loc[p] EXCEPT !.jar = j, !.pc = "clear"])
  /\ UNCHANGED db

\* ProfileEaSubscriptionState: any page will do, no page is a panic.
UpdSub(p) ==
  /\ At(p, "upd_sub")
  /\ \E j \in Cookies :
       \/ /\ Accepted(p, j) \/ Rejected(p, j)
          /\ Become(p, [loc[p] EXCEPT !.jar = j, !.pc = "upd_save"])
       \/ /\ Unanswered(p, j)
          /\ Become(p, [loc[p] EXCEPT !.pc = "defer_read", !.panicked = TRUE])
  /\ UNCHANGED db

UpdSave(p) ==
  /\ At(p, "upd_save")
  /\ SaveOrFail(loc[p].name, loc[p].copy)
  /\ Goto(p, "defer_read")
  /\ UNCHANGED site

-----------------------------------------------------------------------------
(* The rest of a tick of RunJobs: one account for each profile that        *)
(* RetrieveUpdateableProfiles returns. Which API users have a bst profile  *)
(* is left open.                                                           *)

LoopDone(p) ==
  /\ At(p, "next") /\ loc[p].todo = {} /\ loc[p].webs = {}
  /\ IF p = Job /\ loc[p].op = "updates" THEN Goto(p, "select_profiles")
                                         ELSE Become(p, Idle)
  /\ UNCHANGED <<db, site>>

\* The join returns a profile once for each account with a cookie that is linked
\* to its API user, so webs has a pair for each.
SelectProfiles ==
  /\ At(Job, "select_profiles")
  /\ \E found \in SUBSET {n \in stored : row[n].cookie # None /\ row[n].web # None} :
       Become(Job, [Idle EXCEPT !.pc = "next", !.op = "profile",
                               !.webs = {<<n, row[n].web>> : n \in found}])
  /\ UNCHANGED <<db, site>>

\* RetrieveUsernamesByWebId may have lost the account that made w eligible, and
\* takes any of those w has now, whichever the pair was for.
NextProfile ==
  /\ At(Job, "next")
  /\ \E m \in Names, w \in WebUsers :
       /\ <<m, w>> \in loc[Job].webs
       /\ LET rest == [loc[Job] EXCEPT !.webs = @ \ {<<m, w>>}] IN
          IF LinkedTo(w) = {}
          THEN Become(Job, rest)
          ELSE \E n \in LinkedTo(w) :
                 Become(Job, [rest EXCEPT !.pc = "fetch", !.by = w, !.name = n])
  /\ UNCHANGED <<db, site>>

-----------------------------------------------------------------------------

\* The site drops a session: age, a logout there, a login elsewhere.
Expire ==
  /\ \E c \in live : live' = live \ {c}
  /\ UNCHANGED <<db, issued, owner, proven, loc>>

Start(p) ==
  \/ \E w \in WebUsers, n \in Names : StartLogin(p, w, n) \/ StartLogout(p, w, n)
  \/ \E w \in WebUsers, kind \in Kinds : StartRequest(p, w, kind)
  \/ StartUpdates(p)

Continue(p) ==
  \/ LoginAccepted(p) \/ LoginRefused(p) \/ LoginSave(p)
  \/ CookieUnchanged(p) \/ DeferRead(p) \/ DeferPanic(p) \/ DeferSave(p)
  \/ LogoutRead(p) \/ LogoutSave(p)
  \/ Fetch(p) \/ ClientRead(p) \/ ClientCheck(p)
  \/ Use(p) \/ UseUnanswered(p) \/ FanOutPanic(p)
  \/ NextItem(p) \/ Clear(p) \/ UpdCheck(p) \/ UpdSub(p) \/ UpdSave(p)
  \/ LoopDone(p)
  \/ p = Job /\ (SelectProfiles \/ NextProfile)

Next == (\E p \in Procs : Start(p) \/ Continue(p)) \/ Expire

Spec == Init /\ [][Next]_vars

\* A goroutine that can run is run, and the ticker starts the job each hour.
FairSpec ==
  /\ Spec
  /\ \A p \in Procs : WF_vars(Continue(p))
  /\ WF_vars(StartUpdates(Job))

-----------------------------------------------------------------------------
(* What the table promises, whatever the goroutines interleave.            *)

\* Cookie c was handed to a client of account a, or to a visitor who is nobody.
CookieOf(c, a) == c \in issued /\ owner[c] \in {a, None}

\* A row never holds the site session of another account, although cookies
\* travel through clients, row copies and deferred saves (UpdateCookie,
\* SetCookieForUser, RunUpdatesOnAllEaUsers).
RowSessionIsOwn ==
  \A n \in Names :
    row[n].cookie # None => CookieOf(row[n].cookie, Lower[n])

\* An account is linked only to API users who gave the site its password: no
\* stale copy written back, logout or blank row ever links anybody else
\* (LoginPost, SetWebUserForEaUser, UpdateUser).
LinkIsEarned ==
  \A n \in Names :
    row[n].web # None => <<row[n].web, Lower[n]>> \in proven

\* While a request or the job works on the site for an API user, the session it
\* presents belongs to an account that user logged in to, even if logouts and
\* logins changed the link after the usernames were read.
SessionIsRequesters ==
  \A p \in Procs :
    At(p, "use") /\ owner[loc[p].jar] # None
      => <<loc[p].by, owner[loc[p].jar]>> \in proven

\* A cookie is stored only under the lower-cased name, because SetCookieForUser
\* lower-cases and LoginPost stores none: a row created by a mixed-case login
\* never gets a session, so the updates never select it.
SessionsAreLowerCase ==
  \A n \in Names : row[n].cookie # None => n = Lower[n]

\* Rows come from successful logins only: neither SetCookieForUser nor
\* SetWebUserForEaUser, which both know what to do without a row, adds one.
RowsComeFromLogins ==
  \A n \in stored : \E w \in WebUsers : <<w, Lower[n]>> \in proven

\* Whatever they interleave, the goroutines do to the table no more than Accounts
\* allows: one row a step, and in it nothing that its account has not earned.
Table == INSTANCE Accounts WITH link    <- [n \in Names |-> row[n].web],
                                session <- [n \in Names |-> row[n].cookie]

AccountsSpec == Table!Spec

-----------------------------------------------------------------------------
(* Why it does: what a goroutine carries from step to step fits the account *)
(* it is going to be written to.                                            *)

Earned(a) == \E w \in WebUsers : <<w, a>> \in proven

\* The contents of r may be stored for account a.
Fits(r, a) ==
  /\ r.cookie # None => CookieOf(r.cookie, a)
  /\ r.web # None => <<r.web, a>> \in proven

\* The updates touch rows with a session; anything else touches the accounts of
\* the API user it runs for.
MayTouch(l, n) == IF l.op = "updates" THEN n = Lower[n] /\ Earned(n)
                                      ELSE <<l.by, Lower[n]>> \in proven

\* Steps between two accounts, at which no client is held.
Unattached == {"idle", "next", "select_profiles"}

Attached(l) ==
  /\ l.name # None
  /\ l.pc # "login_site" => MayTouch(l, l.name)
  /\ l.jar # None => CookieOf(l.jar, Lower[l.name])
  /\ Fits(l.copy, Lower[l.name])
  /\ l.pc \in {"login_site", "login_save"} => l.op = "login" /\ l.by # None
  /\ l.pc \in {"logout_read", "logout_save"} => l.name = Lower[l.name]
  /\ l.pc \in {"fetch", "use"} => l.op # "updates"
  /\ l.pc \in {"clear", "upd_check", "upd_sub", "upd_save"} => l.op = "updates"
  /\ l.pc \in {"client_check", "use", "upd_check", "upd_sub"} => l.jar # None

Carries(l) ==
  /\ IF l.pc \in Unattached THEN l.copy = Blank /\ l.jar = None ELSE Attached(l)
  /\ \A it \in l.todo : MayTouch(l, it.name) /\ Fits(it.row, Lower[it.name])
  /\ l.webs # {} => l.op = "profile" /\ l.todo = {}

SessionInv ==
  /\ TypeOK
  /\ RowSessionIsOwn
  /\ LinkIsEarned
  /\ SessionsAreLowerCase
  /\ RowsComeFromLogins
  /\ \A p \in Procs : Carries(loc[p])

-----------------------------------------------------------------------------
(* What a login promises. It keeps the promise when nothing else runs.      *)

\* Process p comes to the end of a login whose row was stored.
LoginEnds(p) ==
  /\ loc[p].op = "login" /\ loc[p].pc \in {"defer_read", "defer_save"}
  /\ Become(p, Idle)

\* After LoginPost the account belongs to the API user who logged in: "its
\* cookie updated and web user replaced" (common/user.go).
LoginReplacesWebUser ==
  [][\A p \in Requests : LoginEnds(p) => row'[loc[p].name].web = loc[p].by]_vars

\* After LoginPost the account's row has the cookie of that login.
LoginUpdatesCookie ==
  [][\A p \in Requests : LoginEnds(p) => row'[loc[p].name].cookie = loc[p].jar]_vars

-----------------------------------------------------------------------------

\* A session the site dropped does not stay in the table: the hourly updates
\* find and clear it, even if requests keep writing old rows back meanwhile.
DeadSessionsAreCleared ==
  \A n \in Names : []<>(row[n].cookie \in live \cup {None})

=============================================================================
