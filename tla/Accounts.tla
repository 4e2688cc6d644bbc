------------------------------ MODULE Accounts -------------------------------
(***************************************************************************)
(* What all goroutines together may do to the table of accounts, however   *)
(* old the rows are that they write back: one row at a time, which names   *)
(* only an API user who gave the site the account's password and holds     *)
(* only a session that the site gave a client of that account, or a        *)
(* visitor. A session comes of a login or in exchange for another one.     *)
(* EaSession shows that no more than this happens.                         *)
(***************************************************************************)
CONSTANTS Names, Lower, WebUsers, Cookies, None

VARIABLES
  stored,   \* names that have a row
  link,     \* the API user each row names, or None
  session,  \* the cookie each row holds, or None
  issued,   \* cookies the site has handed out
  owner,    \* the account each was issued to, None for a visitor
  proven    \* <<w, a>>: w gave the site the password of account a

table == <<stored, link, session>>
site  == <<issued, owner, proven>>
vars  == <<table, site>>

TypeOK ==
  /\ stored \subseteq Names
  /\ link \in [Names -> WebUsers \cup {None}]
  /\ session \in [Names -> Cookies \cup {None}]
  /\ issued \subseteq Cookies
  /\ owner \in [Cookies -> Names \cup {None}]
  /\ proven \subseteq WebUsers \X Names

Init ==
  /\ stored = {}
  /\ link = [n \in Names |-> None]
  /\ session = [n \in Names |-> None]
  /\ issued = {}
  /\ owner = [c \in Cookies |-> None]
  /\ proven = {}

Issue(c, a) ==
  /\ c \in Cookies \ issued
  /\ issued' = issued \cup {c}
  /\ owner' = [owner EXCEPT ![c] = a]

Login(w, n) ==
  /\ \E c \in Cookies : Issue(c, Lower[n])
  /\ proven' = proven \cup {<<w, Lower[n]>>}
  /\ UNCHANGED table

\* A new cookie for a visitor, or in exchange for the cookie d.
Visit == \E c \in Cookies : Issue(c, None) /\ UNCHANGED <<table, proven>>

Exchange(d) ==
  /\ d \in issued
  /\ \E c \in Cookies : Issue(c, owner[d])
  /\ UNCHANGED <<table, proven>>

\* Cookies are stored under lower-cased names only.
MayHold(n, c) == c \in issued /\ owner[c] \in {n, None} /\ n = Lower[n]

Store(n) ==
  /\ \E w \in WebUsers : <<w, Lower[n]>> \in proven
  /\ stored' = stored \cup {n}
  /\ \E w \in WebUsers \cup {None} :
       /\ w # None => <<w, Lower[n]>> \in proven
       /\ link' = [link EXCEPT ![n] = w]
  /\ \E c \in Cookies \cup {None} :
       /\ c # None => MayHold(n, c)
       /\ session' = [session EXCEPT ![n] = c]
  /\ UNCHANGED site

Next ==
  \/ \E n \in Names : Store(n) \/ \E w \in WebUsers : Login(w, n)
  \/ Visit \/ \E d \in Cookies : Exchange(d)

Spec == Init /\ [][Next]_vars

\* Whoever reaches an account through its row logged in to it, and no session is
\* of an account to which nobody did.
NothingUnearned ==
  /\ \A n \in Names : link[n] # None => <<link[n], Lower[n]>> \in proven
  /\ \A n \in Names : session[n] # None => MayHold(n, session[n])
  /\ \A n \in stored : \E w \in WebUsers : <<w, Lower[n]>> \in proven
  /\ \A c \in issued : owner[c] # None => \E w \in WebUsers : <<w, owner[c]>> \in proven

=============================================================================
