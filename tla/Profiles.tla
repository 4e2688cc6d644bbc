------------------------------ MODULE Profiles -------------------------------
(***************************************************************************)
(* The table bstProfile and its two handlers, Cache and PutBstUser of      *)
(* common/gate.go; whom a request acts as (ProfileFromToken of             *)
(* utilities/jwt_validator.go); and the handlers that need a scope         *)
(* (ForceUpdatePost of common/user.go, RunDbMigration of server.go).       *)
(*                                                                         *)
(* One action is one statement, or one question to UserHasScopes, which is *)
(* the abstract one of Scopes.                                             *)
(***************************************************************************)
EXTENDS Scopes

CONSTANTS
  Nobody,        \* no header Impersonate-User
  LowerSub,      \* strings.ToLower on the users
  Fields,        \* columns of a profile that a request may set
  Flags,         \* those of them whose zero value can be sent: all but nickname
  Values,        \* their values
  Zero,          \* the value of a column that was never set
  ProfileKinds,  \* the requests of the instance
  ProfileFaults  \* "db": statements may fail

ASSUME ProfilesAssumption ==
  /\ LowerSub \in [Users -> Users] /\ Nobody \notin Users
  /\ Zero \in Values /\ Flags \subseteq Fields
  /\ ProfileKinds \subseteq {"cache", "put", "force"}
  /\ {"impersonate", "update:database"} \subseteq ScopeNames

VARIABLES
  rows,     \* bstProfile: a profile, or NoProfile
  request   \* the local variables of each goroutine

profileVars == <<granted, asks, rows, request>>

Blank == [f \in Fields |-> Zero]

NoProfile == [known |-> FALSE, vals |-> Blank]

Profile == [known : BOOLEAN, vals : [Fields -> Values]]

RequestSteps == {"none", "who", "asking", "scope", "checking", "update",
                 "read", "save", "insert", "answer"}

(***************************************************************************)
(* caller: the token's subject, wants: the header, acts: the user the      *)
(* request works for.  body: the fields sent.  row: the profile read.      *)
(* overtaken: another request changed that row since.  could: who had      *)
(* which permission since the request began. The last two are history.     *)
(***************************************************************************)
Request == [pc : RequestSteps, kind : {"cache", "put", "force"}, caller : Users,
            wants : Users \cup {Nobody}, acts : Users, body : [Fields -> Values],
            fields : SUBSET Fields, row : Profile, overtaken : BOOLEAN,
            could : SUBSET (Users \X ScopeNames)]

AnyUser == CHOOSE u \in Users : TRUE

NoRequest == [pc |-> "none", kind |-> "cache", caller |-> AnyUser, wants |-> Nobody,
              acts |-> AnyUser, body |-> Blank, fields |-> {}, row |-> NoProfile,
              overtaken |-> FALSE, could |-> {}]

ProfilesTypeOK ==
  /\ ScopesTypeOK
  /\ rows \in [Users -> Profile]
  /\ request \in [Requests -> Request]

ProfilesInit ==
  /\ ScopesInit
  /\ rows = [u \in Users |-> NoProfile]
  /\ request = [p \in Requests |-> NoRequest]

RequestAt(p, step) == request[p].pc = step

Go(p, step) == request' = [request EXCEPT ![p].pc = step]

EndRequest(p) == request' = [request EXCEPT ![p] = NoRequest]

DbFails(p) == "db" \in ProfileFaults /\ EndRequest(p)

\* What is granted now, as pairs.
Grants(have) == {g \in Users \X ScopeNames : g[2] \in have[g[1]]}

-----------------------------------------------------------------------------
(* Whom a request acts as.                                                 *)

Arrives(p, kind) ==
  /\ RequestAt(p, "none") /\ kind \in ProfileKinds
  /\ UNCHANGED <<granted, asks, rows>>

\* The query names any user.
StartCache(p, u) ==
  /\ Arrives(p, "cache")
  /\ request' = [request EXCEPT ![p] =
       [NoRequest EXCEPT !.pc = "read", !.acts = u, !.caller = u]]

\* A field of the body is there or not; a nickname "" counts as not there.
StartPut(p, u, wants, body, fields) ==
  /\ Arrives(p, "put")
  /\ \A f \in Fields : IF f \in fields THEN f \in Flags \/ body[f] # Zero
                                       ELSE body[f] = Zero
  /\ request' = [request EXCEPT ![p] =
       [NoRequest EXCEPT !.pc = "who", !.kind = "put", !.caller = u, !.wants = wants,
                         !.acts = u, !.body = body, !.fields = fields,
                         !.could = Grants(granted)]]

StartForce(p, u, wants) ==
  /\ Arrives(p, "force")
  /\ request' = [request EXCEPT ![p] =
       [NoRequest EXCEPT !.pc = "who", !.kind = "force", !.caller = u, !.wants = wants,
                         !.acts = u, !.could = Grants(granted)]]

\* Bug: the scope for an update is not checked.
FirstStepUnchecked(kind) == IF kind = "put" THEN "read" ELSE "update"

FirstStep(kind) == IF kind = "put" THEN "read" ELSE "scope"

\* Bug: the scope is looked up for the user to act as.
WhoByWanted(p) ==
  /\ RequestAt(p, "who")
  /\ \/ /\ request[p].wants = Nobody
        /\ Go(p, FirstStep(request[p].kind))
        /\ UNCHANGED <<granted, asks>>
     \/ /\ request[p].wants # Nobody
        /\ Ask(p, request[p].wants, {"impersonate"})
        /\ Go(p, "asking")
  /\ UNCHANGED rows

\* ProfileFromToken asks for the caller's scope if the header is there.
Who(p) ==
  /\ RequestAt(p, "who")
  /\ \/ /\ request[p].wants = Nobody
        /\ Go(p, FirstStep(request[p].kind))
        /\ UNCHANGED <<granted, asks>>
     \/ /\ request[p].wants # Nobody
        /\ Ask(p, LowerSub[request[p].caller], {"impersonate"})
        /\ Go(p, "asking")
  /\ UNCHANGED rows

\* UserHasScopes answers.
ScopesAnswer(p) == (Yes(p) \/ No(p)) /\ UNCHANGED <<rows, request>>

\* Without the scope, or an answer, the request goes on as its caller's own.
Impersonate(p) ==
  /\ RequestAt(p, "asking")
  /\ Forget(p)
  /\ request' = [request EXCEPT
       ![p].acts = IF asks[p].state = "yes" THEN request[p].wants ELSE request[p].caller,
       ![p].pc = FirstStep(request[p].kind)]
  /\ UNCHANGED rows

-----------------------------------------------------------------------------
(* ForceUpdatePost and RunDbMigration.                                     *)

CheckScope(p) ==
  /\ RequestAt(p, "scope")
  /\ Ask(p, LowerSub[request[p].acts], {"update:database"})
  /\ Go(p, "checking")
  /\ UNCHANGED rows

ScopeChecked(p) ==
  /\ RequestAt(p, "checking")
  /\ Forget(p)
  /\ IF asks[p].state = "yes" THEN Go(p, "update") ELSE EndRequest(p)
  /\ UNCHANGED rows

\* What it does then to the accounts is RunUpdatesOnAllEaUsers of EaSession.
ForceUpdate(p) ==
  /\ RequestAt(p, "update")
  /\ EndRequest(p)
  /\ UNCHANGED <<granted, asks, rows>>

-----------------------------------------------------------------------------
(* Cache and PutBstUser.                                                   *)

\* RetrieveProfile: what is not found is a profile with no values.
ReadProfile(p) ==
  /\ RequestAt(p, "read")
  /\ \/ LET row == rows[request[p].acts] IN
        request' = [request EXCEPT
          ![p].row = row,
          ![p].pc = IF request[p].kind = "put" THEN "save"
                    ELSE IF row.known THEN "answer" ELSE "insert"]
     \/ DbFails(p)
  /\ UNCHANGED <<granted, asks, rows>>

\* Row u becomes vals; whoever has read it and not saved it yet is overtaken.
Write(p, u, vals) ==
  /\ rows' = [rows EXCEPT ![u] = [known |-> TRUE, vals |-> vals]]
  /\ request' = [q \in Requests |->
       IF q = p THEN [request[q] EXCEPT !.pc = "answer"]
       ELSE IF request[q].acts = u /\ request[q].pc \in {"save", "answer"}
       THEN [request[q] EXCEPT !.overtaken = TRUE] ELSE request[q]]

\* Bug: what is not in the body is reset.
Replaced(p) == request[p].body

Merged(p) == [f \in Fields |-> IF f \in request[p].fields THEN request[p].body[f]
                               ELSE request[p].row.vals[f]]

\* SetProfile: a profile that was found is updated as a whole; any other is
\* inserted, which the unique user_sub refuses if it is there by now.
SaveProfile(p) ==
  /\ RequestAt(p, "save")
  /\ LET u == request[p].acts
         refused == rows[u].known /\ ~request[p].row.known IN
     \/ ~refused /\ Write(p, u, Merged(p))
     \/ refused /\ EndRequest(p) /\ UNCHANGED rows
     \/ DbFails(p) /\ UNCHANGED rows
  /\ UNCHANGED <<granted, asks>>

\* Bug: a profile that is there by now is replaced.
UpsertProfile(p) ==
  /\ RequestAt(p, "insert")
  /\ LET u == request[p].acts IN
     \/ Write(p, u, Blank)
     \/ DbFails(p) /\ UNCHANGED rows
  /\ UNCHANGED <<granted, asks>>

\* Cache adds a profile with no values, and reads it again.
InsertProfile(p) ==
  /\ RequestAt(p, "insert")
  /\ LET u == request[p].acts IN
     \/ ~rows[u].known /\ Write(p, u, Blank)
     \/ rows[u].known /\ EndRequest(p) /\ UNCHANGED rows
     \/ DbFails(p) /\ UNCHANGED rows
  /\ UNCHANGED <<granted, asks>>

\* A put reads the profile again for its answer, and drops that error.
AnswerRequest(p) ==
  /\ RequestAt(p, "answer")
  /\ EndRequest(p)
  /\ UNCHANGED <<granted, asks, rows>>

-----------------------------------------------------------------------------

\* An administrator changes permissions; could remembers them.
Administer(u, scopes) ==
  /\ ChangeGrants(u, scopes)
  /\ request' = [p \in Requests |->
       IF request[p].kind = "cache" THEN request[p]
       ELSE [request[p] EXCEPT !.could = @ \cup Grants(granted')]]
  /\ UNCHANGED rows

RequestStep(p) ==
  \/ \E u \in Users : StartCache(p, u)
  \/ \E u \in Users, wants \in Users \cup {Nobody} :
       \/ StartForce(p, u, wants)
       \/ \E fields \in SUBSET Fields, body \in [Fields -> Values] :
            StartPut(p, u, wants, body, fields)
  \/ Who(p) \/ ScopesAnswer(p) \/ Impersonate(p)
  \/ CheckScope(p) \/ ScopeChecked(p) \/ ForceUpdate(p)
  \/ ReadProfile(p) \/ SaveProfile(p) \/ InsertProfile(p) \/ AnswerRequest(p)

ProfilesNext ==
  \/ \E p \in Requests : RequestStep(p)
  \/ \E u \in Users, scopes \in SUBSET ScopeNames : Administer(u, scopes)

ProfilesSpec == ProfilesInit /\ [][ProfilesNext]_profileVars

-----------------------------------------------------------------------------

\* A request works for another user only if its caller was allowed to impersonate
\* at some moment of the request, and forces an update only if the user it works
\* for was allowed to at such a moment: a scope is looked up for the right user,
\* and a lookup that fails takes the permission away (ProfileFromToken).
ActsAsEntitled ==
  \A p \in Requests :
    LET r == request[p] IN
    /\ r.acts # r.caller => <<LowerSub[r.caller], "impersonate">> \in r.could
    /\ r.pc = "update" => <<LowerSub[r.acts], "update:database">> \in r.could

\* When PutBstUser has saved, and no other request wrote the profile since it read
\* it, the profile has the values sent and in every other column what it had. The
\* row is saved as a whole, so of two that overlap one may lose its values.
LonePutIsExact ==
  \A p \in Requests :
    LET r == request[p] IN
    r.kind = "put" /\ r.pc = "answer" /\ ~r.overtaken =>
      \A f \in Fields : rows[r.acts].vals[f] =
                          IF f \in r.fields THEN r.body[f] ELSE r.row.vals[f]

\* Why: the question under way is about the right user and scope, and its answer is
\* yes only if could has them.
RightQuestion(p) ==
  LET r == request[p] IN
  /\ r.pc = "asking" => /\ asks[p].user = LowerSub[r.caller]
                        /\ asks[p].need = {"impersonate"} /\ r.wants \in Users
  /\ r.pc = "checking" => /\ asks[p].user = LowerSub[r.acts]
                          /\ asks[p].need = {"update:database"}
  /\ r.pc \notin {"asking", "checking"} => asks[p].state = "none"
  /\ asks[p].state = "yes" => asks[p].held
  /\ asks[p].state # "none" /\ asks[p].held =>
       \A scope \in asks[p].need : <<asks[p].user, scope>> \in r.could

Entitled(p) ==
  LET r == request[p] IN
  /\ r.pc \in {"who", "asking", "scope", "checking", "update"} => r.kind # "cache"
  /\ r.kind # "cache" => Grants(granted) \subseteq r.could
  /\ r.acts # r.caller => <<LowerSub[r.caller], "impersonate">> \in r.could
  /\ r.pc = "update" => <<LowerSub[r.acts], "update:database">> \in r.could

\* A profile that was read is as it was read until somebody overtakes, and only a
\* put saves it.
RightRow(p) ==
  LET r == request[p] IN
  /\ r.pc = "save" => r.kind = "put"
  /\ r.pc = "insert" => r.kind # "put"
  /\ r.pc = "save" /\ ~r.overtaken => rows[r.acts] = r.row
  /\ r.kind = "put" /\ r.pc = "answer" /\ ~r.overtaken =>
       \A f \in Fields : rows[r.acts].vals[f] =
                           IF f \in r.fields THEN r.body[f] ELSE r.row.vals[f]

ProfilesInv ==
  /\ ProfilesTypeOK
  /\ \A p \in Requests : RightQuestion(p) /\ Entitled(p) /\ RightRow(p)

\* A request for a profile that finds none leaves one that another request inserted
\* meanwhile as it is: no step takes away a profile, and none but a put changes it.
CacheChangesNothing ==
  [][\A u \in Users : rows[u].known /\ rows'[u] # rows[u] =>
       \E p \in Requests : request[p].kind = "put" /\ request[p].acts = u
                           /\ RequestAt(p, "save")]_profileVars

=============================================================================
