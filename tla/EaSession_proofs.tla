-------------------------- MODULE EaSession_proofs --------------------------
(***************************************************************************)
(* SessionInv is inductive. Every action is shown to be made of three      *)
(* harmless parts: a step of the site that forgets nothing (SiteStep), at  *)
(* most one row saved, with contents that fit its account (DbStep), and a  *)
(* new local state of one goroutine that carries only what fits (LocStep). *)
(* Lemma Preservation says that such parts together keep the invariant.    *)
(***************************************************************************)
EXTENDS EaSession, TLAPS

\* The site hands out cookies and remembers whom it gave them to.
SiteGrows ==
  /\ issued \subseteq issued'
  /\ \A c \in issued : owner'[c] = owner[c]
  /\ proven \subseteq proven'

SiteStep ==
  /\ SiteGrows
  /\ issued' \subseteq Cookies
  /\ owner' \in [Cookies -> Names \cup {None}]
  /\ live' \subseteq issued'
  /\ proven' \subseteq WebUsers \X Names

DbStep ==
  \/ UNCHANGED db
  \/ \E n \in Names, r \in Row :
       /\ Save(n, r)
       /\ Fits(r, Lower[n])'
       /\ r.cookie # None => n = Lower[n]
       /\ Earned(Lower[n])'

LocStep(p) ==
  \/ Restart
  \/ \E l \in Local : Become(p, l) /\ Carries(l)'

-----------------------------------------------------------------------------

LEMMA FitsStays ==
  ASSUME NEW r, NEW a, SiteGrows, Fits(r, a)
  PROVE  Fits(r, a)'
BY DEF SiteGrows, Fits, CookieOf

LEMMA EarnedStays ==
  ASSUME NEW a, SiteGrows, Earned(a)
  PROVE  Earned(a)'
BY DEF SiteGrows, Earned

LEMMA CarriesStays ==
  ASSUME NEW l, SiteGrows, Carries(l)
  PROVE  Carries(l)'
<1>1. \A n : MayTouch(l, n) => MayTouch(l, n)'
  BY EarnedStays DEF MayTouch, SiteGrows
<1>2. \A r, a : Fits(r, a) => Fits(r, a)'
  BY FitsStays
<1>3. Attached(l) => Attached(l)'
  <2>1. (l.jar # None => CookieOf(l.jar, Lower[l.name]))
          => (l.jar # None => CookieOf(l.jar, Lower[l.name])')
    BY DEF SiteGrows, CookieOf
  <2> QED BY <1>1, <1>2, <2>1 DEF Attached
<1> QED BY <1>1, <1>2, <1>3 DEF Carries

LEMMA IdleCarries == Idle \in Local /\ Carries(Idle)
BY DEF Idle, Local, Blank, Row, Steps, Carries, Unattached

LEMMA Preservation ==
  ASSUME SessionInv, NEW p \in Procs, SiteStep, DbStep, LocStep(p)
  PROVE  SessionInv'
<1>1. TypeOK'
  <2>1. stored' \subseteq Names /\ row' \in [Names -> Row]
    BY DEF SessionInv, TypeOK, DbStep, db, Save
  <2>2. loc' \in [Procs -> Local]
    BY IdleCarries DEF SessionInv, TypeOK, LocStep, Become, Restart
  <2> QED BY <2>1, <2>2 DEF TypeOK, SiteStep
<1>2. ASSUME NEW n \in Names
      PROVE  /\ Fits(row[n], Lower[n])
             /\ row[n].cookie # None => n = Lower[n]
             /\ n \in stored => Earned(Lower[n])
  BY DEF SessionInv, RowSessionIsOwn, LinkIsEarned, SessionsAreLowerCase,
         RowsComeFromLogins, Fits, Earned
<1>3. ASSUME NEW n \in Names
      PROVE  /\ Fits(row[n], Lower[n])'
             /\ row'[n].cookie # None => n = Lower[n]
             /\ n \in stored' => Earned(Lower[n])'
  <2>1. ASSUME NEW r, Fits(r, Lower[n]) PROVE Fits(r, Lower[n])'
    BY <2>1, FitsStays DEF SiteStep
  <2>2. Earned(Lower[n]) => Earned(Lower[n])'
    BY EarnedStays DEF SiteStep
  <2>3. CASE row'[n] = row[n] /\ (n \in stored' => n \in stored)
    <3>1. PICK r : r = row[n]
      OBVIOUS
    <3>2. Fits(r, Lower[n])'
      BY <3>1, <1>2, <2>1
    <3>3. Fits(row[n], Lower[n])'
      BY <2>3, <3>1, <3>2 DEF Fits, CookieOf
    <3> QED BY <2>3, <3>3, <1>2, <2>2
  <2>4. CASE ~(row'[n] = row[n] /\ (n \in stored' => n \in stored))
    <3>1. PICK m \in Names, r \in Row :
            /\ Save(m, r)
            /\ Fits(r, Lower[m])'
            /\ r.cookie # None => m = Lower[m]
            /\ Earned(Lower[m])'
      BY <2>4 DEF DbStep, db
    <3>2. m = n /\ row'[n] = r
      BY <2>4, <3>1 DEF Save, SessionInv, TypeOK
    <3> QED BY <3>1, <3>2 DEF Fits, CookieOf
  <2> QED BY <2>3, <2>4
<1>4. ASSUME NEW q \in Procs PROVE Carries(loc[q])'
  <2>1. CASE loc'[q] = Idle
    <3>1. Carries(Idle)'
      BY IdleCarries, CarriesStays DEF SiteStep
    <3> QED BY <2>1, <3>1
  <2>2. CASE loc'[q] = loc[q]
    <3>1. PICK l : l = loc[q]
      OBVIOUS
    <3>2. Carries(l)'
      BY <3>1, CarriesStays DEF SiteStep, SessionInv
    <3> QED BY <2>2, <3>1, <3>2
  <2>3. CASE loc'[q] # Idle /\ loc'[q] # loc[q]
    <3>1. PICK l \in Local : loc' = [loc EXCEPT ![p] = l] /\ Carries(l)'
      BY <2>3 DEF LocStep, Restart, Become
    <3>2. loc'[q] = l
      BY <3>1, <2>3 DEF SessionInv, TypeOK
    <3> QED BY <3>1, <3>2
  <2> QED BY <2>1, <2>2, <2>3
<1>5. RowSessionIsOwn' /\ LinkIsEarned' /\ SessionsAreLowerCase' /\ RowsComeFromLogins'
  BY <1>1, <1>3 DEF RowSessionIsOwn, LinkIsEarned, SessionsAreLowerCase,
                    RowsComeFromLogins, Fits, Earned, TypeOK
<1> QED BY <1>1, <1>4, <1>5 DEF SessionInv

-----------------------------------------------------------------------------
(* One lemma per kind of part.                                             *)

LEMMA SiteUnchanged ==
  ASSUME SessionInv, UNCHANGED site
  PROVE  SiteStep
BY DEF SiteStep, SiteGrows, SessionInv, TypeOK, site

LEMMA IssueGrows ==
  ASSUME SessionInv, NEW c, NEW a \in Names \cup {None}, Issue(c, a),
         live' = live \/ live' = live \cup {c},
         proven \subseteq proven', proven' \subseteq WebUsers \X Names
  PROVE  SiteStep /\ CookieOf(c, a)'
BY DEF SiteStep, SiteGrows, SessionInv, TypeOK, Issue, CookieOf

\* Whatever the site answers, the jar's new cookie is for the old one's account.
LEMMA AnswerIsOwn ==
  ASSUME SessionInv, NEW p \in Procs, NEW a, CookieOf(loc[p].jar, a),
         NEW j \in Cookies,
         Accepted(p, j) \/ Rejected(p, j) \/ Unanswered(p, j)
  PROVE  SiteStep /\ CookieOf(j, a)'
<1>1. CASE j = loc[p].jar /\ UNCHANGED site
  BY <1>1, SiteUnchanged DEF CookieOf, site
<1>2. CASE Issue(j, owner[loc[p].jar]) /\ live' = live \cup {j} /\ UNCHANGED proven
  <2>1. PICK o \in Names \cup {None} : o = owner[loc[p].jar]
    BY DEF SessionInv, TypeOK, CookieOf
  <2>2. SiteStep /\ CookieOf(j, o)'
    BY <1>2, <2>1, IssueGrows DEF SessionInv, TypeOK
  <2> QED BY <2>1, <2>2 DEF CookieOf
<1>3. CASE Issue(j, None) /\ UNCHANGED <<live, proven>>
  <2>1. SiteStep /\ CookieOf(j, None)'
    BY <1>3, IssueGrows DEF SessionInv, TypeOK
  <2> QED BY <2>1 DEF CookieOf
<1> QED BY <1>1, <1>2, <1>3 DEF Accepted, Rejected, Unanswered

-----------------------------------------------------------------------------
(* Local steps.                                                            *)

LEMMA Moves ==
  ASSUME SessionInv, SiteStep, NEW p \in Procs, NEW l \in Local, Carries(l), Become(p, l)
  PROVE  LocStep(p)
BY CarriesStays DEF LocStep, SiteStep

LEMMA CarriesNow ==
  ASSUME SessionInv, NEW p \in Procs
  PROVE  loc[p] \in Local /\ Carries(loc[p])
BY DEF SessionInv, TypeOK

LEMMA RowFits ==
  ASSUME SessionInv, NEW n \in Names
  PROVE  row[n] \in Row /\ Fits(row[n], Lower[n])
BY DEF SessionInv, TypeOK, RowSessionIsOwn, LinkIsEarned, Fits

LEMMA IdleMoves ==
  ASSUME SessionInv, SiteStep, NEW p \in Procs, Become(p, Idle)
  PROVE  LocStep(p)
<1>1. PICK l : l = Idle
  OBVIOUS
<1> QED BY <1>1, IdleCarries, Moves

LEMMA RestMoves ==
  ASSUME SessionInv, SiteStep, NEW p \in Procs, Become(p, Rest(p))
  PROVE  LocStep(p)
<1>1. PICK l : l = Rest(p)
  OBVIOUS
<1>2. CASE l = Idle
  BY <1>1, <1>2, IdleMoves
<1>3. CASE l # Idle
  <2>1. l = [Idle EXCEPT !.pc = "next", !.op = loc[p].op, !.by = loc[p].by,
                         !.todo = loc[p].todo, !.webs = loc[p].webs]
    BY <1>1, <1>3 DEF Rest
  <2>2. l \in Local
    BY <2>1, CarriesNow DEF Idle, Local, Steps, Row, Blank
  <2>3. l.pc = "next" /\ l.copy = Blank /\ l.jar = None
    BY <2>1 DEF Idle
  <2>4. /\ l.todo = loc[p].todo /\ l.op = loc[p].op /\ l.by = loc[p].by
        /\ l.webs = loc[p].webs
    BY <2>1 DEF Idle
  <2>5. Carries(l)
    BY <2>3, <2>4, CarriesNow DEF Carries, Unattached, MayTouch
  <2> QED BY <1>1, <2>2, <2>5, Moves
<1> QED BY <1>2, <1>3

LEMMA PanicMoves ==
  ASSUME SessionInv, SiteStep, NEW p \in Procs, Panic(p)
  PROVE  LocStep(p)
BY IdleMoves DEF Panic, LocStep

LEMMA LeaveMoves ==
  ASSUME SessionInv, SiteStep, NEW p \in Procs, Leave(p)
  PROVE  LocStep(p)
BY RestMoves, PanicMoves DEF Leave

\* A row whose contents fit its account may be saved, or fail to be.
LEMMA SaveFits ==
  ASSUME SessionInv, SiteStep, NEW n \in Names, NEW r \in Row,
         Fits(r, Lower[n]), r.cookie # None => n = Lower[n], Earned(Lower[n]),
         SaveOrFail(n, r)
  PROVE  DbStep
BY FitsStays, EarnedStays DEF SaveOrFail, DbStep, SiteStep

\* A change of pc only, between steps at which the same client is held.
LEMMA GotoMoves ==
  ASSUME SessionInv, SiteStep, NEW p \in Procs,
         loc[p].pc \notin Unattached \cup {"login_site"},
         NEW step \in {"clear", "defer_read"},
         step = "clear" => loc[p].op = "updates",
         Goto(p, step)
  PROVE  LocStep(p)
<1>1. PICK l : l = [loc[p] EXCEPT !.pc = step]
  OBVIOUS
<1>2. l \in Local
  BY <1>1, CarriesNow DEF Local, Steps
<1>3. Carries(l)
  BY <1>1, CarriesNow DEF Carries, Attached, MayTouch, Unattached, Local
<1> QED BY <1>1, <1>2, <1>3, Moves DEF Goto

-----------------------------------------------------------------------------
(* The actions.                                                            *)

Parts(p) == SiteStep /\ DbStep /\ LocStep(p)

LEMMA StartParts ==
  ASSUME SessionInv, NEW p \in Procs, Start(p)
  PROVE  Parts(p)
<1>1. SiteStep /\ DbStep
  BY SiteUnchanged DEF Start, StartLogin, StartLogout, StartRequest, StartUpdates, DbStep
<1>2. ASSUME NEW w \in WebUsers, NEW n \in Names, StartLogin(p, w, n)
      PROVE  LocStep(p)
  <2>1. PICK l : l = [Idle EXCEPT !.pc = "login_site", !.op = "login", !.by = w, !.name = n]
    OBVIOUS
  <2>2. l \in Local
    BY <2>1 DEF Idle, Local, Steps, Kinds, Row, Blank
  <2>3. Carries(l)
    BY <2>1, ConstantsAssumption DEF Idle, Carries, Attached, Unattached, Fits, Blank
  <2> QED BY <1>1, <1>2, <2>1, <2>2, <2>3, Moves DEF StartLogin
<1>3. ASSUME NEW w \in WebUsers, NEW n \in Names, StartLogout(p, w, n)
      PROVE  LocStep(p)
  <2>1. PICK l : l = [Idle EXCEPT !.pc = "logout_read", !.op = "logout",
                                  !.by = w, !.name = Lower[n]]
    OBVIOUS
  <2>2. l \in Local /\ Lower[n] \in Names /\ Lower[Lower[n]] = Lower[n]
    BY <2>1, NamesAssumption DEF Idle, Local, Steps, Kinds, Row, Blank
  <2>3. <<w, Lower[n]>> \in proven
    BY <1>3, <2>2, RowFits, ConstantsAssumption DEF StartLogout, Fits
  <2>4. Carries(l)
    BY <2>1, <2>2, <2>3, ConstantsAssumption
    DEF Idle, Carries, Attached, Unattached, Fits, Blank, MayTouch
  <2> QED BY <1>1, <1>3, <2>1, <2>2, <2>4, Moves DEF StartLogout
<1>4. ASSUME NEW w \in WebUsers, NEW kind \in Kinds, StartRequest(p, w, kind)
      PROVE  LocStep(p)
  <2>1. PICK names \in SUBSET LinkedTo(w) :
          Become(p, [Idle EXCEPT !.pc = "next", !.op = kind, !.by = w,
                                 !.todo = [name : names, row : {Blank}]])
    BY <1>4 DEF StartRequest
  <2>2. PICK l : l = [Idle EXCEPT !.pc = "next", !.op = kind, !.by = w,
                                  !.todo = [name : names, row : {Blank}]]
    OBVIOUS
  <2>3. kind # "updates"
    BY <1>4 DEF StartRequest
  <2>4. names \subseteq Names /\ \A n \in names : <<w, Lower[n]>> \in proven
    BY RowFits, ConstantsAssumption DEF LinkedTo, Fits, SessionInv, TypeOK
  <2>5. l \in Local
    <3>1. kind \in Kinds \cup {"profile", "none"} /\ Blank \in Row
      BY DEF Row, Blank
    <3>2. [name : names, row : {Blank}] \subseteq Item
      BY <2>4, <3>1 DEF Item
    <3> QED BY <2>2, <3>1, <3>2 DEF Idle, Local, Steps
  <2>6. Carries(l)
    BY <2>2, <2>3, <2>4 DEF Idle, Carries, Unattached, Fits, Blank, MayTouch
  <2> QED BY <1>1, <2>1, <2>2, <2>5, <2>6, Moves
<1>5. ASSUME StartUpdates(p)
      PROVE  LocStep(p)
  <2>1. PICK found \in SUBSET {n \in stored : row[n].cookie # None} :
          Become(p, [Idle EXCEPT !.pc = "next", !.op = "updates",
                      !.todo = {[name |-> n, row |-> row[n]] : n \in found}])
    BY <1>5 DEF StartUpdates
  <2>2. PICK l : l = [Idle EXCEPT !.pc = "next", !.op = "updates",
                        !.todo = {[name |-> n, row |-> row[n]] : n \in found}]
    OBVIOUS
  <2>3. \A n \in found : n \in Names /\ n = Lower[n] /\ Earned(n)
    BY DEF SessionInv, TypeOK, SessionsAreLowerCase, RowsComeFromLogins, Earned
  <2>4. l \in Local
    <3>1. {[name |-> n, row |-> row[n]] : n \in found} \subseteq Item
      BY <2>3, RowFits DEF Item
    <3>2. Blank \in Row
      BY DEF Row, Blank
    <3> QED BY <2>2, <3>1, <3>2 DEF Idle, Local, Steps, Kinds
  <2>5. Carries(l)
    BY <2>2, <2>3, RowFits DEF Idle, Carries, Unattached, Blank, MayTouch
  <2> QED BY <1>1, <2>1, <2>2, <2>4, <2>5, Moves
<1> QED BY <1>1, <1>2, <1>3, <1>4, <1>5 DEF Start, Parts

LEMMA LoginParts ==
  ASSUME SessionInv, NEW p \in Procs,
         LoginAccepted(p) \/ LoginRefused(p) \/ LoginSave(p)
  PROVE  Parts(p)
<1>1. PICK k \in Local : k = loc[p] /\ Carries(k)
  BY CarriesNow
<1>2. CASE LoginAccepted(p)
  <2>1. PICK c \in Cookies :
          /\ Issue(c, Lower[k.name])
          /\ live' = live \cup {c}
          /\ Become(p, [k EXCEPT !.pc = "login_save", !.jar = c])
    BY <1>1, <1>2 DEF LoginAccepted
  <2>2. /\ k.name \in Names /\ k.by \in WebUsers /\ k.op = "login"
        /\ Attached(k) /\ k.pc \notin Unattached
        /\ proven' = proven \cup {<<k.by, Lower[k.name]>>}
    BY <1>1, <1>2 DEF LoginAccepted, At, Carries, Attached, Unattached, Local
  <2>3. SiteStep /\ CookieOf(c, Lower[k.name])'
    BY <2>1, <2>2, IssueGrows, NamesAssumption DEF SessionInv, TypeOK
  <2>4. PICK l : l = [k EXCEPT !.pc = "login_save", !.jar = c]
    OBVIOUS
  <2>5. l \in Local
    BY <2>4 DEF Local, Steps
  <2>6. Carries(k)'
    BY <1>1, <2>3, CarriesStays DEF SiteStep
  <2>7. Carries(l)'
    <3>1. /\ l.pc = "login_save" /\ l.jar = c /\ l.name = k.name /\ l.op = k.op
          /\ l.by = k.by /\ l.copy = k.copy /\ l.todo = k.todo /\ l.webs = k.webs
      BY <2>4 DEF Local
    <3>2. MayTouch(l, l.name)'
      BY <2>2, <3>1 DEF MayTouch
    <3>3. Attached(k)'
      BY <2>2, <2>6 DEF Carries
    <3>4. Attached(l)'
      BY <2>2, <2>3, <3>1, <3>2, <3>3, ConstantsAssumption DEF Attached
    <3> QED BY <2>2, <2>6, <3>1, <3>4 DEF Carries, Unattached, MayTouch
  <2>8. LocStep(p)
    BY <2>1, <2>4, <2>5, <2>7 DEF LocStep
  <2> QED BY <1>2, <2>3, <2>8 DEF LoginAccepted, Parts, DbStep
<1>3. CASE LoginRefused(p)
  BY <1>3, SiteUnchanged, IdleMoves DEF LoginRefused, Parts, DbStep
<1>4. CASE LoginSave(p)
  <2>1. SiteStep
    BY <1>4, SiteUnchanged DEF LoginSave
  <2>2. /\ k.name \in Names /\ k.by \in WebUsers /\ k.op = "login"
        /\ <<k.by, Lower[k.name]>> \in proven /\ k.pc \notin Unattached \cup {"login_site"}
    BY <1>1, <1>4 DEF LoginSave, At, Carries, Attached, Unattached, Local, MayTouch
  <2>3. LocStep(p)
    BY <1>1, <1>4, <2>1, <2>2, GotoMoves DEF LoginSave
  <2>4. DbStep
    <3>1. PICK r : r = [web |-> k.by, cookie |-> None, timed |-> TRUE]
      OBVIOUS
    <3>2. r \in Row /\ Fits(r, Lower[k.name])' /\ Earned(Lower[k.name])'
      BY <2>1, <2>2, <3>1 DEF Row, Fits, Earned, SiteStep, SiteGrows
    <3>3. r.cookie = None
      BY <3>1
    <3>4. Save(k.name, r) \/ UNCHANGED db
      BY <1>1, <1>4, <3>1 DEF LoginSave, SaveOrFail
    <3> QED BY <2>2, <3>2, <3>3, <3>4 DEF DbStep
  <2> QED BY <2>1, <2>3, <2>4 DEF Parts
<1> QED BY <1>2, <1>3, <1>4

LEMMA DeferParts ==
  ASSUME SessionInv, NEW p \in Procs,
         CookieUnchanged(p) \/ DeferRead(p) \/ DeferPanic(p) \/ DeferSave(p)
  PROVE  Parts(p)
<1>1. SiteStep
  BY SiteUnchanged DEF CookieUnchanged, DeferRead, DeferPanic, DeferSave
<1>2. PICK k \in Local : k = loc[p] /\ Carries(k)
  BY CarriesNow
<1>3. /\ k.name \in Names /\ Attached(k) /\ MayTouch(k, k.name)
      /\ Lower[k.name] \in Names /\ Lower[Lower[k.name]] = Lower[k.name]
  BY <1>2, NamesAssumption
  DEF CookieUnchanged, DeferRead, DeferPanic, DeferSave, At, Carries, Attached,
      Unattached, Local
<1>4. CASE CookieUnchanged(p) \/ DeferPanic(p)
  BY <1>1, <1>4, LeaveMoves, PanicMoves
  DEF CookieUnchanged, DeferPanic, Parts, DbStep
<1>5. CASE DeferRead(p)
  <2>1. ASSUME Become(p, [loc[p] EXCEPT !.pc = "defer_save",
                                        !.copy = row[Lower[loc[p].name]]])
        PROVE  LocStep(p)
    <3>1. PICK l : l = [k EXCEPT !.pc = "defer_save", !.copy = row[Lower[k.name]]]
      OBVIOUS
    <3>2. l \in Local
      BY <1>3, <3>1, RowFits DEF Local, Steps
    <3>3. Fits(l.copy, Lower[l.name])
      BY <1>3, <3>1, RowFits DEF Local
    <3>4. Carries(l)
      BY <1>2, <1>3, <3>1, <3>3 DEF Carries, Attached, Unattached, MayTouch, Local
    <3> QED BY <1>1, <1>2, <2>1, <3>1, <3>2, <3>4, Moves
  <2> QED BY <1>1, <1>5, <2>1, LeaveMoves DEF DeferRead, Parts, DbStep
<1>6. CASE DeferSave(p)
  <2>1. PICK r : r = [k.copy EXCEPT !.cookie = k.jar, !.timed = TRUE]
    OBVIOUS
  <2>2. r \in Row /\ Fits(r, Lower[Lower[k.name]])
    BY <1>3, <2>1 DEF Local, Row, Fits, Attached
  <2>3. Earned(Lower[k.name])
    BY <1>3 DEF MayTouch, Earned, SessionInv, TypeOK
  <2>4. DbStep
    BY <1>1, <1>2, <1>3, <1>6, <2>1, <2>2, <2>3, SaveFits DEF DeferSave
  <2> QED BY <1>1, <1>6, <2>4, LeaveMoves DEF DeferSave, Parts
<1> QED BY <1>4, <1>5, <1>6

LEMMA LogoutParts ==
  ASSUME SessionInv, NEW p \in Procs, LogoutRead(p) \/ LogoutSave(p)
  PROVE  Parts(p)
<1>1. SiteStep
  BY SiteUnchanged DEF LogoutRead, LogoutSave
<1>2. PICK k \in Local : k = loc[p] /\ Carries(k)
  BY CarriesNow
<1>3. k.name \in Names /\ Attached(k) /\ MayTouch(k, k.name)
  BY <1>2 DEF LogoutRead, LogoutSave, At, Carries, Attached, Unattached, Local
<1>4. CASE LogoutRead(p)
  <2>1. ASSUME Become(p, [loc[p] EXCEPT !.pc = "logout_save", !.copy = row[loc[p].name]])
        PROVE  LocStep(p)
    <3>1. PICK l : l = [k EXCEPT !.pc = "logout_save", !.copy = row[k.name]]
      OBVIOUS
    <3>2. l \in Local /\ Fits(l.copy, Lower[l.name])
      BY <1>3, <3>1, RowFits DEF Local, Steps
    <3>3. k.name = Lower[k.name]
      BY <1>2, <1>3, <1>4 DEF LogoutRead, At, Attached
    <3>4. Carries(l)
      BY <1>2, <1>3, <3>1, <3>2, <3>3 DEF Carries, Attached, Unattached, MayTouch, Local
    <3> QED BY <1>1, <1>2, <2>1, <3>1, <3>2, <3>4, Moves
  <2> QED BY <1>1, <1>4, <2>1, IdleMoves DEF LogoutRead, Parts, DbStep
<1>5. CASE LogoutSave(p)
  <2>1. PICK r : r = [k.copy EXCEPT !.web = None]
    OBVIOUS
  <2>2. r \in Row /\ Fits(r, Lower[k.name])
    BY <1>3, <2>1 DEF Local, Row, Fits, Attached
  <2>3. k.name = Lower[k.name]
    BY <1>2, <1>3, <1>5 DEF LogoutSave, At, Attached
  <2>4. Earned(Lower[k.name])
    BY <1>3 DEF MayTouch, Earned, SessionInv, TypeOK
  <2>5. DbStep
    BY <1>1, <1>2, <1>3, <1>5, <2>1, <2>2, <2>3, <2>4, SaveFits DEF LogoutSave
  <2> QED BY <1>1, <1>5, <2>5, IdleMoves DEF LogoutSave, Parts
<1> QED BY <1>4, <1>5

LEMMA ClientParts ==
  ASSUME SessionInv, NEW p \in Procs, Fetch(p) \/ ClientRead(p)
  PROVE  Parts(p)
<1>1. SiteStep /\ DbStep
  BY SiteUnchanged DEF Fetch, ClientRead, DbStep
<1>2. PICK k \in Local : k = loc[p] /\ Carries(k)
  BY CarriesNow
<1>3. /\ k.name \in Names /\ Attached(k) /\ MayTouch(k, k.name)
      /\ k.pc \in {"fetch", "client_read"}
      /\ Lower[k.name] \in Names /\ Lower[Lower[k.name]] = Lower[k.name]
  BY <1>2, NamesAssumption DEF Fetch, ClientRead, At, Carries, Attached, Unattached, Local
<1>4. CASE Fetch(p)
  <2>1. ASSUME Become(p, [loc[p] EXCEPT !.pc = "client_read", !.name = Lower[k.name],
                                        !.model = row[Lower[k.name]].cookie])
        PROVE  LocStep(p)
    <3>1. PICK l : l = [k EXCEPT !.pc = "client_read", !.name = Lower[k.name],
                                 !.model = row[Lower[k.name]].cookie]
      OBVIOUS
    <3>2. l \in Local
      BY <1>3, <3>1, RowFits DEF Local, Steps, Row
    <3>3. k.op # "updates"
      BY <1>2, <1>3, <1>4 DEF Fetch, At, Attached
    <3>4. /\ l.pc = "client_read" /\ l.name = Lower[k.name] /\ l.op = k.op
          /\ l.by = k.by /\ l.jar = k.jar /\ l.copy = k.copy /\ l.todo = k.todo /\ l.webs = k.webs
      BY <3>1 DEF Local
    <3>5. Attached(l)
      BY <1>3, <3>3, <3>4, ConstantsAssumption DEF Attached, MayTouch
    <3>6. Carries(l)
      BY <1>2, <1>3, <3>4, <3>5 DEF Carries, Unattached, MayTouch
    <3> QED BY <1>1, <1>2, <2>1, <3>1, <3>2, <3>6, Moves
  <2> QED BY <1>1, <1>2, <1>4, <2>1, RestMoves DEF Fetch, Parts
<1>5. CASE ClientRead(p)
  <2>1. ASSUME Lower[k.name] \in stored, row[Lower[k.name]].cookie # None,
               Become(p, [loc[p] EXCEPT !.pc = "client_check",
                                        !.jar = row[Lower[k.name]].cookie])
        PROVE  LocStep(p)
    <3>1. PICK l : l = [k EXCEPT !.pc = "client_check", !.jar = row[Lower[k.name]].cookie]
      OBVIOUS
    <3>2. l \in Local /\ CookieOf(l.jar, Lower[l.name])
      BY <1>3, <2>1, <3>1, RowFits DEF Local, Steps, Row, Fits
    <3>3. l.jar # None
      BY <2>1, <3>1 DEF Local
    <3>4. Carries(l)
      BY <1>2, <1>3, <3>1, <3>2, <3>3 DEF Carries, Attached, Unattached, MayTouch, Local
    <3> QED BY <1>1, <1>2, <2>1, <3>1, <3>2, <3>4, Moves
  <2>2. k.pc \notin Unattached \cup {"login_site"}
    BY <1>3 DEF Unattached
  <2>3. Goto(p, WithoutSession(p)) => LocStep(p)
    BY <1>1, <1>2, <2>2, GotoMoves DEF WithoutSession
  <2>4. Goto(p, "defer_read") => LocStep(p)
    BY <1>1, <1>2, <2>2, GotoMoves
  <2> QED BY <1>1, <1>2, <1>5, <2>1, <2>3, <2>4 DEF ClientRead, Parts
<1> QED BY <1>4, <1>5

\* The site answered p, whose jar now holds j; the row copy may have taken j too.
LEMMA AnsweredMoves ==
  ASSUME SessionInv, NEW p \in Procs, NEW k \in Local, k = loc[p], Attached(k),
         k.pc \notin Unattached \cup {"login_site"}, SiteStep,
         NEW j \in Cookies, CookieOf(j, Lower[k.name])',
         NEW step \in Steps \ (Unattached \cup {"login_site", "login_save", "logout_read",
                               "logout_save", "fetch"}),
         step = "use" => k.op # "updates",
         step \in {"clear", "upd_check", "upd_sub", "upd_save"} => k.op = "updates",
         NEW died \in BOOLEAN, NEW copy \in Row,
         copy = k.copy \/ copy = [k.copy EXCEPT !.cookie = j, !.timed = TRUE],
         Become(p, [k EXCEPT !.jar = j, !.pc = step, !.panicked = died, !.copy = copy])
  PROVE  LocStep(p)
<1>1. PICK l : l = [k EXCEPT !.jar = j, !.pc = step, !.panicked = died, !.copy = copy]
  OBVIOUS
<1>2. l \in Local
  BY <1>1 DEF Local
<1>3. Carries(k)'
  BY CarriesNow, CarriesStays DEF SiteStep
<1>4. Attached(k)'
  BY <1>3 DEF Carries
<1>5. /\ l.pc = step /\ l.name = k.name /\ l.op = k.op /\ l.by = k.by /\ l.jar = j
      /\ l.copy = copy /\ l.todo = k.todo /\ l.webs = k.webs
  BY <1>1 DEF Local
<1>6. Fits(copy, Lower[k.name])'
  BY <1>4 DEF Attached, Fits, Local, Row
<1>7. MayTouch(l, l.name)'
  BY <1>4, <1>5 DEF Attached, MayTouch
<1>8. Attached(l)'
  BY <1>4, <1>5, <1>6, <1>7, ConstantsAssumption DEF Attached
<1>9. Carries(l)'
  BY <1>3, <1>5, <1>8 DEF Carries, MayTouch, Unattached
<1> QED BY <1>1, <1>2, <1>9 DEF LocStep

LEMMA AnswerParts ==
  ASSUME SessionInv, NEW p \in Procs,
         ClientCheck(p) \/ Use(p) \/ UpdCheck(p) \/ UpdSub(p)
  PROVE  Parts(p)
<1>1. PICK k \in Local : k = loc[p] /\ Carries(k)
  BY CarriesNow
<1>2. /\ k.pc \in {"client_check", "use", "upd_check", "upd_sub"}
      /\ k.name \in Names /\ Attached(k) /\ k.pc \notin Unattached \cup {"login_site"}
      /\ k.panicked \in BOOLEAN /\ k.copy \in Row
  BY <1>1 DEF ClientCheck, Use, UpdCheck, UpdSub, At, Carries, Attached, Unattached, Local
<1>3. DbStep
  BY DEF ClientCheck, Use, UpdCheck, UpdSub, DbStep
<1>4. ASSUME NEW j \in Cookies, Accepted(p, j) \/ Rejected(p, j) \/ Unanswered(p, j),
             k.jar \in Cookies
      PROVE  SiteStep /\ CookieOf(j, Lower[k.name])'
  <2>1. k.jar # None /\ CookieOf(loc[p].jar, Lower[k.name])
    BY <1>1, <1>2, <1>4, ConstantsAssumption DEF Attached
  <2> QED BY <1>4, <2>1, AnswerIsOwn
<1>5. k.jar \in Cookies
  BY <1>2 DEF Local, Attached
<1>6. CASE ClientCheck(p)
  <2>1. PICK j \in Cookies, step \in {"upd_check", "use", "clear", "defer_read"} :
          /\ Accepted(p, j) \/ Rejected(p, j) \/ Unanswered(p, j)
          /\ step = "use" => k.op # "updates"
          /\ step \in {"upd_check", "clear"} => k.op = "updates"
          /\ Become(p, [k EXCEPT !.jar = j, !.pc = step])
    BY <1>1, <1>6 DEF ClientCheck, Misread, WithoutSession
  <2>2. Become(p, [k EXCEPT !.jar = j, !.pc = step, !.panicked = k.panicked,
                            !.copy = k.copy])
    <3>1. [k EXCEPT !.jar = j, !.pc = step]
            = [k EXCEPT !.jar = j, !.pc = step, !.panicked = k.panicked, !.copy = k.copy]
      BY DEF Local
    <3> QED BY <2>1, <3>1
  <2>3. step \in Steps \ (Unattached \cup {"login_site", "login_save", "logout_read",
                                         "logout_save", "fetch"})
    BY DEF Steps, Unattached
  <2>4. SiteStep /\ CookieOf(j, Lower[k.name])'
    BY <1>4, <1>5, <2>1
  <2>5. LocStep(p)
    BY <1>1, <1>2, <2>1, <2>2, <2>3, <2>4, AnsweredMoves
  <2> QED BY <1>3, <2>4, <2>5 DEF Parts
<1>7. CASE Use(p)
  <2>1. PICK j \in Cookies, step \in {"use", "defer_read"}, died \in BOOLEAN :
          /\ Accepted(p, j) \/ Rejected(p, j)
          /\ Become(p, [k EXCEPT !.jar = j, !.pc = step, !.panicked = died])
    BY <1>1, <1>7 DEF Use
  <2>2. Become(p, [k EXCEPT !.jar = j, !.pc = step, !.panicked = died,
                            !.copy = k.copy])
    <3>1. [k EXCEPT !.jar = j, !.pc = step, !.panicked = died]
            = [k EXCEPT !.jar = j, !.pc = step, !.panicked = died, !.copy = k.copy]
      BY DEF Local
    <3> QED BY <2>1, <3>1
  <2>3. step \in Steps \ (Unattached \cup {"login_site", "login_save", "logout_read",
                                         "logout_save", "fetch"})
    BY DEF Steps, Unattached
  <2>4. SiteStep /\ CookieOf(j, Lower[k.name])'
    BY <1>4, <1>5, <2>1
  <2>5. k.op # "updates"
    BY <1>1, <1>2, <1>7 DEF Use, At, Attached
  <2>6. LocStep(p)
    BY <1>1, <1>2, <2>1, <2>2, <2>3, <2>4, <2>5, AnsweredMoves
  <2> QED BY <1>3, <2>4, <2>6 DEF Parts
<1>8. CASE UpdCheck(p)
  <2>1. PICK j \in Cookies, step \in {"upd_sub", "clear"}, copy \in Row :
          /\ copy = k.copy \/ copy = [k.copy EXCEPT !.cookie = j, !.timed = TRUE]
          /\ Accepted(p, j) \/ Rejected(p, j) \/ Unanswered(p, j)
          /\ Become(p, [k EXCEPT !.jar = j, !.pc = step, !.panicked = k.panicked,
                                 !.copy = copy])
    <3>1. PICK j \in Cookies :
            \/ /\ Accepted(p, j) \/ Rejected(p, j)
               /\ Become(p, [k EXCEPT !.jar = j, !.pc = "upd_sub",
                               !.copy = [k.copy EXCEPT !.cookie = j, !.timed = TRUE]])
            \/ /\ Rejected(p, j) \/ Unanswered(p, j)
               /\ Become(p, [k EXCEPT !.jar = j, !.pc = "clear"])
      BY <1>1, <1>8 DEF UpdCheck, Misread
    <3>2. /\ [k EXCEPT !.jar = j, !.pc = "clear"]
               = [k EXCEPT !.jar = j, !.pc = "clear", !.panicked = k.panicked, !.copy = k.copy]
          /\ [k EXCEPT !.jar = j, !.pc = "upd_sub",
                       !.copy = [k.copy EXCEPT !.cookie = j, !.timed = TRUE]]
               = [k EXCEPT !.jar = j, !.pc = "upd_sub", !.panicked = k.panicked,
                           !.copy = [k.copy EXCEPT !.cookie = j, !.timed = TRUE]]
      BY DEF Local
    <3>3. [k.copy EXCEPT !.cookie = j, !.timed = TRUE] \in Row
      BY <1>2 DEF Row
    <3> QED BY <1>2, <3>1, <3>2, <3>3
  <2>3. step \in Steps \ (Unattached \cup {"login_site", "login_save", "logout_read",
                                         "logout_save", "fetch"})
    BY DEF Steps, Unattached
  <2>4. SiteStep /\ CookieOf(j, Lower[k.name])'
    BY <1>4, <1>5, <2>1
  <2>5. k.op = "updates"
    BY <1>1, <1>2, <1>8 DEF UpdCheck, At, Attached
  <2>6. LocStep(p)
    BY <1>1, <1>2, <2>1, <2>3, <2>4, <2>5, AnsweredMoves
  <2> QED BY <1>3, <2>4, <2>6 DEF Parts
<1>9. CASE UpdSub(p)
  <2>1. PICK j \in Cookies, step \in {"upd_save", "defer_read"}, died \in BOOLEAN :
          /\ Accepted(p, j) \/ Rejected(p, j) \/ Unanswered(p, j)
          /\ Become(p, [k EXCEPT !.jar = j, !.pc = step, !.panicked = died,
                                 !.copy = k.copy])
    <3>1. PICK j \in Cookies :
            \/ /\ Accepted(p, j) \/ Rejected(p, j)
               /\ Become(p, [k EXCEPT !.jar = j, !.pc = "upd_save"])
            \/ /\ Unanswered(p, j)
               /\ Become(p, [k EXCEPT !.pc = "defer_read", !.panicked = TRUE])
      BY <1>1, <1>9 DEF UpdSub
    <3>2. /\ [k EXCEPT !.jar = j, !.pc = "upd_save"]
               = [k EXCEPT !.jar = j, !.pc = "upd_save", !.panicked = k.panicked,
                           !.copy = k.copy]
          /\ Unanswered(p, j) => [k EXCEPT !.pc = "defer_read", !.panicked = TRUE]
               = [k EXCEPT !.jar = j, !.pc = "defer_read", !.panicked = TRUE,
                           !.copy = k.copy]
      BY <1>1 DEF Local, Unanswered
    <3> QED BY <1>2, <3>1, <3>2
  <2>2. step \in Steps \ (Unattached \cup {"login_site", "login_save", "logout_read",
                                         "logout_save", "fetch"})
    BY DEF Steps, Unattached
  <2>3. SiteStep /\ CookieOf(j, Lower[k.name])'
    BY <1>4, <1>5, <2>1
  <2>4. k.op = "updates"
    BY <1>1, <1>2, <1>9 DEF UpdSub, At, Attached
  <2>5. LocStep(p)
    BY <1>1, <1>2, <2>1, <2>2, <2>3, <2>4, AnsweredMoves
  <2> QED BY <1>3, <2>3, <2>5 DEF Parts
<1> QED BY <1>6, <1>7, <1>8, <1>9

LEMMA LostParts ==
  ASSUME SessionInv, NEW p \in Procs, UseUnanswered(p) \/ FanOutPanic(p)
  PROVE  Parts(p)
<1>1. SiteStep /\ DbStep
  BY SiteUnchanged DEF UseUnanswered, FanOutPanic, DbStep
<1>2. CASE FanOutPanic(p)
  BY <1>1, <1>2 DEF FanOutPanic, LocStep, Parts
<1>3. CASE UseUnanswered(p)
  <2>1. PICK k \in Local : k = loc[p] /\ Carries(k)
    BY CarriesNow
  <2>2. PICK died \in BOOLEAN :
          Become(p, [k EXCEPT !.pc = "defer_read", !.panicked = died])
    BY <1>3, <2>1 DEF UseUnanswered
  <2>3. PICK l : l = [k EXCEPT !.pc = "defer_read", !.panicked = died]
    OBVIOUS
  <2>4. l \in Local
    BY <2>3 DEF Local, Steps
  <2>5. k.pc = "use"
    BY <1>3, <2>1 DEF UseUnanswered, At
  <2>6. Carries(l)
    BY <2>1, <2>3, <2>5 DEF Carries, Attached, Unattached, MayTouch, Local
  <2> QED BY <1>1, <2>2, <2>3, <2>4, <2>6, Moves DEF Parts
<1> QED BY <1>2, <1>3

LEMMA UpdateParts ==
  ASSUME SessionInv, NEW p \in Procs, NextItem(p) \/ Clear(p) \/ UpdSave(p)
  PROVE  Parts(p)
<1>1. SiteStep
  BY SiteUnchanged DEF NextItem, Clear, UpdSave
<1>2. PICK k \in Local : k = loc[p] /\ Carries(k)
  BY CarriesNow
<1>3. CASE NextItem(p)
  <2>1. PICK it \in k.todo, step \in {"client_read", "fetch"} :
          /\ step = "fetch" => k.op # "updates"
          /\ Become(p, [k EXCEPT !.name = it.name, !.todo = k.todo \ {it}, !.pc = step,
                                 !.model = it.row.cookie, !.copy = it.row])
    BY <1>2, <1>3 DEF NextItem
  <2>2. it \in Item /\ MayTouch(k, it.name) /\ Fits(it.row, Lower[it.name])
    BY <1>2, <2>1 DEF Local, Carries
  <2>3. k.pc = "next" /\ k.jar = None
    BY <1>2, <1>3 DEF NextItem, At, Carries, Unattached
  <2>4. PICK l : l = [k EXCEPT !.name = it.name, !.todo = k.todo \ {it}, !.pc = step,
                               !.model = it.row.cookie, !.copy = it.row]
    OBVIOUS
  <2>5. /\ l.name = it.name /\ l.todo = k.todo \ {it} /\ l.pc = step /\ l.jar = None
        /\ l.model = it.row.cookie /\ l.copy = it.row /\ l.op = k.op /\ l.by = k.by
        /\ l.webs = k.webs
    BY <2>3, <2>4 DEF Local
  <2>6. it.name \in Names /\ it.row \in Row /\ it.row.cookie \in Cookies \cup {None}
    BY <2>2 DEF Item, Row
  <2>7. l \in Local
    BY <2>4, <2>6 DEF Local, Steps
  <2>8. Attached(l)
    BY <2>1, <2>2, <2>5, <2>6, ConstantsAssumption DEF Attached, MayTouch
  <2>9. Carries(l)
    BY <1>2, <2>5, <2>8 DEF Carries, Unattached, MayTouch
  <2> QED BY <1>1, <1>2, <1>3, <2>1, <2>4, <2>7, <2>9, Moves DEF NextItem, Parts, DbStep
<1>4. ASSUME NEW r \in Row, SaveOrFail(k.name, r), Goto(p, "defer_read"),
             r.web = k.copy.web, r.cookie \in {k.copy.cookie, None},
             k.pc \in {"clear", "upd_save"}
      PROVE  Parts(p)
  <2>1. k.name \in Names /\ k.op = "updates" /\ Attached(k)
    BY <1>2, <1>4 DEF Carries, Attached, Unattached, Local
  <2>2. k.name = Lower[k.name] /\ Earned(Lower[k.name])
    BY <1>4, <2>1 DEF Attached, MayTouch
  <2>3. Fits(r, Lower[k.name])
    BY <1>4, <2>1 DEF Attached, Fits
  <2>4. DbStep
    BY <1>1, <1>4, <2>1, <2>2, <2>3, SaveFits
  <2>5. LocStep(p)
    BY <1>1, <1>2, <1>4, GotoMoves DEF Unattached
  <2> QED BY <1>1, <2>4, <2>5 DEF Parts
<1>5. CASE Clear(p)
  <2>1. PICK r : r = [k.copy EXCEPT !.cookie = None, !.timed = FALSE]
    OBVIOUS
  <2>2. r \in Row /\ r.web = k.copy.web /\ r.cookie = None
    BY <2>1 DEF Local, Row
  <2> QED BY <1>2, <1>4, <1>5, <2>1, <2>2 DEF Clear, At
<1>6. CASE UpdSave(p)
  <2>1. k.copy \in Row
    BY DEF Local
  <2> QED BY <1>2, <1>4, <1>6, <2>1 DEF UpdSave, At
<1> QED BY <1>3, <1>5, <1>6

LEMMA LoopParts ==
  ASSUME SessionInv, NEW p \in Procs,
         LoopDone(p) \/ (p = Job /\ (SelectProfiles \/ NextProfile))
  PROVE  Parts(p)
<1>1. SiteStep /\ DbStep
  BY SiteUnchanged DEF LoopDone, SelectProfiles, NextProfile, DbStep
<1>2. PICK k \in Local : k = loc[p] /\ Carries(k)
  BY CarriesNow
<1>3. CASE LoopDone(p)
  <2>1. ASSUME Goto(p, "select_profiles") PROVE LocStep(p)
    <3>1. PICK l : l = [k EXCEPT !.pc = "select_profiles"]
      OBVIOUS
    <3>2. l \in Local
      BY <3>1 DEF Local, Steps
    <3>3. Carries(l)
      BY <1>2, <1>3, <3>1 DEF LoopDone, At, Carries, Unattached, MayTouch, Local
    <3> QED BY <1>1, <1>2, <2>1, <3>1, <3>2, <3>3, Moves DEF Goto
  <2> QED BY <1>1, <1>3, <2>1, IdleMoves DEF LoopDone, Parts
<1>4. CASE p = Job /\ SelectProfiles
  <2>1. PICK found \in SUBSET {n \in stored : row[n].cookie # None /\ row[n].web # None} :
          Become(p, [Idle EXCEPT !.pc = "next", !.op = "profile",
                                 !.webs = {<<n, row[n].web>> : n \in found}])
    BY <1>4 DEF SelectProfiles
  <2>2. PICK l : l = [Idle EXCEPT !.pc = "next", !.op = "profile",
                                  !.webs = {<<n, row[n].web>> : n \in found}]
    OBVIOUS
  <2>3. {<<n, row[n].web>> : n \in found} \subseteq Names \X WebUsers
    BY <2>1 DEF SessionInv, TypeOK, Row
  <2>4. l \in Local
    BY <2>2, <2>3, IdleCarries DEF Idle, Local, Steps
  <2>5. Carries(l)
    BY <2>2 DEF Idle, Carries, Unattached
  <2> QED BY <1>1, <2>1, <2>2, <2>4, <2>5, Moves DEF Parts
<1>5. CASE p = Job /\ NextProfile
  <2>1. PICK m \in Names, w \in WebUsers :
          /\ <<m, w>> \in k.webs
          /\ \/ Become(p, [k EXCEPT !.webs = k.webs \ {<<m, w>>}])
             \/ \E n \in LinkedTo(w) :
                  Become(p, [[k EXCEPT !.webs = k.webs \ {<<m, w>>}]
                               EXCEPT !.pc = "fetch", !.by = w, !.name = n])
    BY <1>2, <1>5 DEF NextProfile
  <2>2. k.pc = "next" /\ k.jar = None /\ k.copy = Blank /\ w \in WebUsers
    BY <1>2, <1>5, <2>1 DEF NextProfile, At, Carries, Unattached, Local
  <2>3. ASSUME Become(p, [k EXCEPT !.webs = k.webs \ {<<m, w>>}]) PROVE LocStep(p)
    <3>1. PICK l : l = [k EXCEPT !.webs = k.webs \ {<<m, w>>}]
      OBVIOUS
    <3>2. l \in Local
      BY <3>1 DEF Local
    <3>3. Carries(l)
      BY <1>2, <2>2, <3>1 DEF Carries, Unattached, MayTouch, Local
    <3> QED BY <1>1, <2>3, <3>1, <3>2, <3>3, Moves
  <2>4. ASSUME NEW n \in LinkedTo(w),
               Become(p, [[k EXCEPT !.webs = k.webs \ {<<m, w>>}]
                            EXCEPT !.pc = "fetch", !.by = w, !.name = n])
        PROVE  LocStep(p)
    <3>1. PICK l : l = [[k EXCEPT !.webs = k.webs \ {<<m, w>>}]
                          EXCEPT !.pc = "fetch", !.by = w, !.name = n]
      OBVIOUS
    <3>2. n \in Names /\ <<w, Lower[n]>> \in proven
      BY <2>2, RowFits, ConstantsAssumption DEF LinkedTo, Fits, SessionInv, TypeOK
    <3>3. l \in Local
      BY <2>2, <3>1, <3>2 DEF Local, Steps
    <3>4. k.op = "profile" /\ k.todo = {}
      BY <1>2, <2>1 DEF Carries
    <3>5. /\ l.pc = "fetch" /\ l.name = n /\ l.by = w /\ l.op = "profile"
          /\ l.todo = {} /\ l.jar = None /\ l.copy = Blank
      BY <2>2, <3>1, <3>4 DEF Local
    <3>6. Attached(l)
      BY <3>2, <3>5, ConstantsAssumption DEF Attached, MayTouch, Fits, Blank
    <3>7. Carries(l)
      BY <3>5, <3>6 DEF Carries, Unattached
    <3> QED BY <1>1, <2>4, <3>1, <3>3, <3>7, Moves
  <2> QED BY <1>1, <2>1, <2>3, <2>4 DEF Parts
<1> QED BY <1>3, <1>4, <1>5

-----------------------------------------------------------------------------
(* The theorems.                                                           *)

LEMMA InitInv == Init => SessionInv
<1> SUFFICES ASSUME Init PROVE SessionInv
  OBVIOUS
<1>1. TypeOK
  BY IdleCarries DEF Init, TypeOK, Row, Blank
<1>2. /\ RowSessionIsOwn /\ LinkIsEarned /\ SessionsAreLowerCase /\ RowsComeFromLogins
  BY DEF Init, Blank, RowSessionIsOwn, LinkIsEarned, SessionsAreLowerCase, RowsComeFromLogins
<1>3. \A p \in Procs : Carries(loc[p])
  BY IdleCarries DEF Init
<1> QED BY <1>1, <1>2, <1>3 DEF SessionInv

LEMMA NextInv == SessionInv /\ [Next]_vars => SessionInv'
<1> SUFFICES ASSUME SessionInv, [Next]_vars PROVE SessionInv'
  OBVIOUS
<1>1. ASSUME NEW p \in Procs, Start(p) PROVE SessionInv'
  BY <1>1, StartParts, Preservation DEF Parts
<1>2. ASSUME NEW p \in Procs, Continue(p) PROVE SessionInv'
  <2>1. Parts(p)
    BY <1>2, LoginParts, DeferParts, LogoutParts, ClientParts, AnswerParts, LostParts,
       UpdateParts, LoopParts DEF Continue
  <2> QED BY <2>1, Preservation DEF Parts
<1>3. CASE Expire
  <2>1. SiteStep /\ DbStep
    BY <1>3 DEF Expire, SiteStep, SiteGrows, DbStep, db, SessionInv, TypeOK
  <2>2. PICK l : l = loc[Job]
    OBVIOUS
  <2>3. Job \in Procs /\ l \in Local /\ Carries(l) /\ Become(Job, l)
    BY <1>3, <2>2, CarriesNow DEF Expire, Become, Procs, SessionInv, TypeOK
  <2> QED BY <2>1, <2>3, Moves, Preservation
<1>4. CASE UNCHANGED vars
  <2>1. SiteStep /\ DbStep
    BY <1>4, SiteUnchanged DEF vars, site, db, DbStep
  <2>2. PICK l : l = loc[Job]
    OBVIOUS
  <2>3. Job \in Procs /\ l \in Local /\ Carries(l) /\ Become(Job, l)
    BY <1>4, <2>2, CarriesNow DEF vars, Become, Procs, SessionInv, TypeOK
  <2> QED BY <2>1, <2>3, Moves, Preservation
<1> QED BY <1>1, <1>2, <1>3, <1>4 DEF Next

\* The inductive invariant holds of every reachable state, for any number of
\* names, users, cookies and request goroutines.
THEOREM SessionInvariant == Spec => []SessionInv
BY InitInv, NextInv, PTL DEF Spec

\* Every variable keeps its type.
THEOREM TypeCorrect == Spec => []TypeOK
<1>1. SessionInv => TypeOK
  BY DEF SessionInv
<1> QED BY <1>1, SessionInvariant, PTL

\* No row ever holds a session of another account (UpdateCookie, SetCookieForUser,
\* RunUpdatesOnAllEaUsers).
THEOREM SessionsAreOwn == Spec => []RowSessionIsOwn
<1>1. SessionInv => RowSessionIsOwn
  BY DEF SessionInv
<1> QED BY <1>1, SessionInvariant, PTL

\* No account is ever linked to an API user who did not log in to it (LoginPost,
\* SetWebUserForEaUser, and every stale row that is saved again).
THEOREM LinksAreEarned == Spec => []LinkIsEarned
<1>1. SessionInv => LinkIsEarned
  BY DEF SessionInv
<1> QED BY <1>1, SessionInvariant, PTL

\* A row typed in mixed case never gets a session (LoginPost, SetCookieForUser).
THEOREM OnlyLowerCaseSessions == Spec => []SessionsAreLowerCase
<1>1. SessionInv => SessionsAreLowerCase
  BY DEF SessionInv
<1> QED BY <1>1, SessionInvariant, PTL

\* No row appears without a login (SetCookieForUser, SetWebUserForEaUser).
THEOREM OnlyLoginsAddRows == Spec => []RowsComeFromLogins
<1>1. SessionInv => RowsComeFromLogins
  BY DEF SessionInv
<1> QED BY <1>1, SessionInvariant, PTL

\* Whoever is served with a site session has logged in to its account (the
\* handlers of ddr and drs, LoginGet, and the job's profile updates).
THEOREM RequestersOwnSessions == Spec => []SessionIsRequesters
<1>1. SessionInv => SessionIsRequesters
  <2> SUFFICES ASSUME SessionInv, NEW p \in Procs, At(p, "use"), owner[loc[p].jar] # None
               PROVE  <<loc[p].by, owner[loc[p].jar]>> \in proven
    BY DEF SessionIsRequesters
  <2>1. Attached(loc[p]) /\ loc[p].pc = "use"
    BY CarriesNow DEF Carries, Unattached, At
  <2>2. owner[loc[p].jar] = Lower[loc[p].name]
    BY <2>1 DEF Attached, CookieOf
  <2>3. <<loc[p].by, Lower[loc[p].name]>> \in proven
    BY <2>1 DEF Attached, MayTouch
  <2> QED BY <2>2, <2>3
<1> QED BY <1>1, SessionInvariant, PTL

-----------------------------------------------------------------------------
(* The goroutines do what Accounts allows.                                 *)

TableMoves == Table!Next \/ UNCHANGED Table!vars

LEMMA TableStays ==
  ASSUME UNCHANGED <<db, issued, owner, proven>>
  PROVE  UNCHANGED Table!vars
BY DEF db, Table!vars, Table!table, Table!site

LEMMA SavesAreStores ==
  ASSUME SessionInv, DbStep, UNCHANGED site
  PROVE  TableMoves
<1>1. CASE UNCHANGED db
  BY <1>1, TableStays DEF site, TableMoves
<1>2. ASSUME NEW n \in Names, NEW r \in Row, Save(n, r), Fits(r, Lower[n])',
             r.cookie # None => n = Lower[n], Earned(Lower[n])'
      PROVE  Table!Store(n)
  <2> DEFINE link    == [m \in Names |-> row[m].web]
             session == [m \in Names |-> row[m].cookie]
  <2>1. UNCHANGED <<issued, owner, live, proven>>
    BY DEF site
  <2>2. row \in [Names -> Row] /\ stored' = stored \cup {n} /\ row' = [row EXCEPT ![n] = r]
    BY <1>2 DEF SessionInv, TypeOK, Save
  <2>3. link' = [link EXCEPT ![n] = r.web] /\ session' = [session EXCEPT ![n] = r.cookie]
    BY <2>2
  <2>4. r.web \in WebUsers \cup {None} /\ r.cookie \in Cookies \cup {None}
    BY <1>2 DEF Row
  <2>5. \E w \in WebUsers : <<w, Lower[n]>> \in proven
    BY <1>2, <2>1 DEF Earned
  <2>6. r.web # None => <<r.web, Lower[n]>> \in proven
    BY <1>2, <2>1 DEF Fits
  <2>7. r.cookie # None => Table!MayHold(n, r.cookie)
    BY <1>2, <2>1 DEF Fits, CookieOf, Table!MayHold
  <2> QED BY <2>1, <2>2, <2>3, <2>4, <2>5, <2>6, <2>7 DEF Table!Store, Table!site
<1> QED BY <1>1, <1>2 DEF DbStep, TableMoves, Table!Next

LEMMA LoginsAreLogins ==
  ASSUME SessionInv, NEW p \in Procs, LoginAccepted(p)
  PROVE  TableMoves
<1>1. loc[p].name \in Names /\ loc[p].by \in WebUsers
  BY CarriesNow DEF LoginAccepted, At, Carries, Attached, Unattached, Local
<1>2. PICK c \in Cookies : Issue(c, Lower[loc[p].name])
  BY DEF LoginAccepted
<1>3. UNCHANGED Table!table
  BY DEF LoginAccepted, db, Table!table
<1>4. Table!Login(loc[p].by, loc[p].name)
  BY <1>2, <1>3 DEF LoginAccepted, Issue, Table!Login, Table!Issue
<1> QED BY <1>1, <1>4 DEF TableMoves, Table!Next

LEMMA AnswersAreExchanges ==
  ASSUME SessionInv, NEW p \in Procs, NEW j \in Cookies,
         Accepted(p, j) \/ Rejected(p, j) \/ Unanswered(p, j), UNCHANGED db
  PROVE  TableMoves
<1>1. UNCHANGED Table!table
  BY DEF db, Table!table
<1>2. CASE UNCHANGED site
  BY <1>2, TableStays DEF site, TableMoves
<1>3. CASE Issue(j, owner[loc[p].jar]) /\ loc[p].jar \in live /\ UNCHANGED proven
  <2>1. loc[p].jar \in issued /\ loc[p].jar \in Cookies
    BY <1>3 DEF SessionInv, TypeOK
  <2>2. Table!Exchange(loc[p].jar)
    BY <1>1, <1>3, <2>1 DEF Issue, Table!Exchange, Table!Issue
  <2> QED BY <2>1, <2>2 DEF TableMoves, Table!Next
<1>4. CASE Issue(j, None) /\ UNCHANGED proven
  BY <1>1, <1>4 DEF Issue, Table!Visit, Table!Issue, TableMoves, Table!Next
<1> QED BY <1>2, <1>3, <1>4 DEF Accepted, Rejected, Unanswered

LEMMA StartsMoveNothing ==
  ASSUME NEW p \in Procs, Start(p)
  PROVE  TableMoves
BY TableStays DEF Start, StartLogin, StartLogout, StartRequest, StartUpdates, site, TableMoves

LEMMA ContinueTableMoves ==
  ASSUME SessionInv, NEW p \in Procs, Continue(p)
  PROVE  TableMoves
<1>1. ASSUME LoginSave(p) PROVE TableMoves
  BY <1>1, LoginParts, SavesAreStores DEF LoginSave, Parts
<1>2. ASSUME DeferSave(p) PROVE TableMoves
  BY <1>2, DeferParts, SavesAreStores DEF DeferSave, Parts
<1>3. ASSUME LogoutSave(p) PROVE TableMoves
  BY <1>3, LogoutParts, SavesAreStores DEF LogoutSave, Parts
<1>4. ASSUME Clear(p) \/ UpdSave(p) PROVE TableMoves
  BY <1>4, UpdateParts, SavesAreStores DEF Clear, UpdSave, Parts
<1>5. ASSUME ClientCheck(p) \/ Use(p) \/ UpdCheck(p) PROVE TableMoves
  BY <1>5, AnswersAreExchanges DEF ClientCheck, Use, UpdCheck, Misread
<1>6. ASSUME UpdSub(p) PROVE TableMoves
  BY <1>6, AnswersAreExchanges DEF UpdSub
<1>7. ASSUME \/ LoginRefused(p) \/ CookieUnchanged(p) \/ DeferRead(p) \/ DeferPanic(p)
             \/ LogoutRead(p) \/ Fetch(p) \/ ClientRead(p) \/ UseUnanswered(p)
             \/ FanOutPanic(p) \/ NextItem(p) \/ LoopDone(p) \/ SelectProfiles \/ NextProfile
      PROVE  TableMoves
  <2>1. UNCHANGED <<db, site>>
    BY <1>7 DEF LoginRefused, CookieUnchanged, DeferRead, DeferPanic, LogoutRead, Fetch,
       ClientRead, UseUnanswered, FanOutPanic, NextItem, LoopDone, SelectProfiles, NextProfile
  <2> QED BY <2>1, TableStays DEF site, TableMoves
<1> QED BY <1>1, <1>2, <1>3, <1>4, <1>5, <1>6, <1>7, LoginsAreLogins DEF Continue

LEMMA NextTableMoves == SessionInv /\ [Next]_vars => [Table!Next]_(Table!vars)
<1> SUFFICES ASSUME SessionInv, [Next]_vars PROVE TableMoves
  BY DEF TableMoves
<1>1. ASSUME Expire PROVE TableMoves
  BY <1>1, TableStays DEF Expire, TableMoves
<1>2. ASSUME UNCHANGED vars PROVE TableMoves
  BY <1>2, TableStays DEF vars, db, TableMoves
<1> QED BY <1>1, <1>2, StartsMoveNothing, ContinueTableMoves DEF Next

\* No interleaving of the handlers and the job, no fault and no stale row does to
\* the table what Accounts does not allow.
THEOREM ImplementsAccounts == Spec => AccountsSpec
<1>1. Init => Table!Init
  BY DEF Init, Blank, Table!Init
<1>2. SessionInv /\ [Next]_vars => [Table!Next]_(Table!vars)
  BY NextTableMoves
<1> QED BY <1>1, <1>2, SessionInvariant, PTL DEF Spec, AccountsSpec, Table!Spec

LEMMA TableTyped ==
  ASSUME Table!TypeOK, [Table!Next]_(Table!vars)
  PROVE  Table!TypeOK'
<1> DEFINE link    == [m \in Names |-> row[m].web]
           session == [m \in Names |-> row[m].cookie]
<1>1. ASSUME NEW n \in Names, Table!Store(n) PROVE Table!TypeOK'
  <2>1. link' \in [Names -> WebUsers \cup {None}] /\ session' \in [Names -> Cookies \cup {None}]
    BY <1>1 DEF Table!Store, Table!TypeOK
  <2> QED BY <1>1, <2>1 DEF Table!Store, Table!TypeOK, Table!site
<1>2. ASSUME NEW c, NEW a \in Names \cup {None}, Table!Issue(c, a),
             UNCHANGED Table!table, proven' \subseteq WebUsers \X Names
      PROVE  Table!TypeOK'
  BY <1>2 DEF Table!Issue, Table!TypeOK, Table!table
<1>3. ASSUME NEW w \in WebUsers, NEW n \in Names, Table!Login(w, n)
      PROVE  Table!TypeOK'
  <2>1. Lower[n] \in Names
    BY NamesAssumption
  <2>2. proven' \subseteq WebUsers \X Names
    BY <1>3, <2>1 DEF Table!Login, Table!TypeOK
  <2> QED BY <1>2, <1>3, <2>1, <2>2 DEF Table!Login
<1>4. ASSUME Table!Visit PROVE Table!TypeOK'
  BY <1>2, <1>4 DEF Table!Visit, Table!TypeOK
<1>5. ASSUME NEW d \in Cookies, Table!Exchange(d) PROVE Table!TypeOK'
  <2>1. owner[d] \in Names \cup {None}
    BY DEF Table!TypeOK
  <2> QED BY <1>2, <1>5, <2>1 DEF Table!Exchange, Table!TypeOK
<1>6. ASSUME UNCHANGED Table!vars PROVE Table!TypeOK'
  BY <1>6 DEF Table!vars, Table!table, Table!site, Table!TypeOK
<1> QED BY <1>1, <1>3, <1>4, <1>5, <1>6 DEF Table!Next

\* Logins, visits and exchanges: what is earned stays so, and a new cookie is of
\* an account that somebody logged in to.
LEMMA IssuesAreEarned ==
  ASSUME Table!TypeOK, Table!NothingUnearned, NEW c, NEW a, Table!Issue(c, a),
         UNCHANGED Table!table, proven \subseteq proven',
         a # None => \E w \in WebUsers : <<w, a>> \in proven'
  PROVE  Table!NothingUnearned'
<1> DEFINE link    == [m \in Names |-> row[m].web]
           session == [m \in Names |-> row[m].cookie]
<1>1. /\ UNCHANGED <<stored, link, session>>
      /\ c \in Cookies \ issued /\ issued' = issued \cup {c} /\ owner'[c] = a
      /\ \A d \in issued : owner'[d] = owner[d]
  BY DEF Table!TypeOK, Table!Issue, Table!table
<1>2. \A n \in Names : link'[n] # None => <<link'[n], Lower[n]>> \in proven'
  BY <1>1 DEF Table!NothingUnearned
<1>3. \A n, d : Table!MayHold(n, d) => Table!MayHold(n, d)'
  BY <1>1 DEF Table!MayHold
<1>4. \A n \in Names : session'[n] # None => Table!MayHold(n, session[n])'
  BY <1>1, <1>3 DEF Table!NothingUnearned
<1>5. \A n \in stored' : \E w \in WebUsers : <<w, Lower[n]>> \in proven'
  BY <1>1 DEF Table!NothingUnearned
<1>6. \A d \in issued' : owner'[d] # None => \E w \in WebUsers : <<w, owner'[d]>> \in proven'
  BY <1>1 DEF Table!NothingUnearned
<1> QED BY <1>1, <1>2, <1>4, <1>5, <1>6 DEF Table!NothingUnearned

LEMMA StoresAreEarned ==
  ASSUME Table!TypeOK, Table!NothingUnearned, NEW n \in Names, Table!Store(n)
  PROVE  Table!NothingUnearned'
<1> DEFINE link    == [m \in Names |-> row[m].web]
           session == [m \in Names |-> row[m].cookie]
<1>1. UNCHANGED <<issued, owner, proven>>
  BY DEF Table!Store, Table!site
<1>2. PICK w \in WebUsers \cup {None} :
        (w # None => <<w, Lower[n]>> \in proven) /\ link' = [link EXCEPT ![n] = w]
  BY DEF Table!Store
<1>3. PICK c \in Cookies \cup {None} :
        (c # None => Table!MayHold(n, c)) /\ session' = [session EXCEPT ![n] = c]
  BY DEF Table!Store
<1>4. \A m \in Names : link'[m] # None => <<link'[m], Lower[m]>> \in proven
  BY <1>2 DEF Table!NothingUnearned
<1>5. \A m, d : Table!MayHold(m, d) => Table!MayHold(m, d)'
  BY <1>1 DEF Table!MayHold
<1>6. \A m \in Names : session'[m] # None => Table!MayHold(m, session[m])'
  BY <1>3, <1>5 DEF Table!NothingUnearned
<1>7. \A m \in stored' : \E v \in WebUsers : <<v, Lower[m]>> \in proven
  BY DEF Table!Store, Table!NothingUnearned
<1> QED BY <1>1, <1>4, <1>6, <1>7 DEF Table!NothingUnearned

LEMMA AccountsKeep ==
  ASSUME Table!TypeOK, Table!NothingUnearned, [Table!Next]_(Table!vars)
  PROVE  Table!NothingUnearned'
<1>1. ASSUME NEW w \in WebUsers, NEW n \in Names, Table!Login(w, n)
      PROVE  Table!NothingUnearned'
  BY <1>1, IssuesAreEarned DEF Table!Login
<1>2. ASSUME Table!Visit PROVE Table!NothingUnearned'
  BY <1>2, IssuesAreEarned DEF Table!Visit
<1>3. ASSUME NEW d \in Cookies, Table!Exchange(d) PROVE Table!NothingUnearned'
  BY <1>3, IssuesAreEarned DEF Table!Exchange, Table!NothingUnearned
<1>4. ASSUME UNCHANGED Table!vars PROVE Table!NothingUnearned'
  BY <1>4 DEF Table!vars, Table!table, Table!site, Table!NothingUnearned, Table!MayHold
<1> QED BY <1>1, <1>2, <1>3, <1>4, StoresAreEarned DEF Table!Next

\* What Accounts allows is enough: whatever goroutines keep to it, a row names an
\* API user and holds a session that its account has earned.
THEOREM AccountsAreEarned == AccountsSpec => [](Table!TypeOK /\ Table!NothingUnearned)
<1>1. Table!Init => Table!TypeOK /\ Table!NothingUnearned
  BY DEF Table!Init, Table!TypeOK, Table!NothingUnearned
<1>2. Table!TypeOK /\ Table!NothingUnearned /\ [Table!Next]_(Table!vars)
        => (Table!TypeOK /\ Table!NothingUnearned)'
  BY TableTyped, AccountsKeep
<1> QED BY <1>1, <1>2, PTL DEF AccountsSpec, Table!Spec

=============================================================================
