------------------------------- MODULE Login -------------------------------
(***************************************************************************)
(* Logging in with a Google or LINE account.  The callback of the provider *)
(* finds or creates the end user, stores the provider's token and a token  *)
(* of its own, commits, and answers with a cookie.  Callbacks are plain    *)
(* functions that oauth_login_flow calls on the event loop of the one web  *)
(* process, so each is one step; the answer reaches the browser in a later *)
(* one.  Whatever raises is rolled back and answered with a redirection to *)
(* the failure page.                                                       *)
(*                                                                         *)
(* Logging out takes the cookie back; no code ends a token, and            *)
(* login_required does not look at its expiration.  How long a browser     *)
(* keeps the cookie is its own affair: max_age is written with a fraction  *)
(* (864000.0), and would count from when the browser has the answer.       *)
(*                                                                         *)
(* A provider may name another email, or another verdict on it, each time. *)
(* Time is counted in units of ten days.                                   *)
(***************************************************************************)
EXTENDS Naturals, FiniteSets, Sequences

CONSTANTS
  Google, Line,   \* accounts at the two providers
  Emails,
  NoEmail,        \* LINE users need not share theirs
  Browsers,
  MaxTokens,      \* logins altogether
  MaxTime         \* the clock stops here

ASSUME LoginAssumption ==
  /\ Google \cap Line = {} /\ NoEmail \notin Emails
  /\ MaxTokens \in Nat /\ MaxTime \in Nat

Accounts == Google \cup Line

VARIABLES
  now,
  users,       \* rows of end_user, numbered as they are created
  emails,      \* rows of end_user_email
  owner,       \* oauth_user: account -> end user, 0 if unknown
  profile,     \* oauth_user: account -> what the provider said at its first login
  tokens,      \* rows of end_user_token
  lineTokens,  \* rows of line_user_token
  arriving,    \* browser -> the token in the answer on its way, 0 if none
  cookie,      \* browser -> the token in the cookie it keeps, 0 if none
  answer       \* the last answer that login_required let pass

vars == <<now, users, emails, owner, profile, tokens, lineTokens, arriving, cookie, answer>>

database == <<users, emails, owner, profile, tokens, lineTokens>>

TokenLife == 1
LineTokenLife == 3

NoToken == 0
Unknown == [email |-> NoEmail, verified |-> FALSE]

\* What the id token may say.  Google gives its verdict on the email, LINE does not.
GoogleClaims == [email : Emails, verified : BOOLEAN]
LineClaims == [email : Emails \cup {NoEmail}]

UserRows(n) == 1..n
EmailRows(n) == [email : Emails, verified : BOOLEAN, user : UserRows(n)]
TokenRows(n) == [user : UserRows(n), expires : Nat]
LineTokenRows == [account : Line, created : Nat]

Init ==
  /\ now = 0
  /\ users = 0
  /\ emails = {}
  /\ owner = [a \in Accounts |-> 0]
  /\ profile = [a \in Accounts |-> Unknown]
  /\ tokens = <<>>
  /\ lineTokens = {}
  /\ arriving = [b \in Browsers |-> NoToken]
  /\ cookie = [b \in Browsers |-> NoToken]
  /\ answer = [kind |-> "none", token |-> NoToken]

-----------------------------------------------------------------------------
(* The callbacks.  c is what the id token says of account a.               *)

IsKnown(a) == owner[a] # 0

\* Mutant: the filter on is_verified is left out.
LineMatchingByAddress(c) == {m \in emails : m.email = c.email}

\* Rows of end_user_email that the query for an unknown account finds.
GoogleMatching(c) == {m \in emails : m.email = c.email /\ m.verified = c.verified}
LineMatching(c) == {m \in emails : m.email = c.email /\ m.verified}

\* one_or_none raises on two rows; an email without an address may not be stored.
GoogleRaises(a, c) == ~IsKnown(a) /\ Cardinality(GoogleMatching(c)) > 1
LineRaises(a, c) ==
  /\ ~IsKnown(a)
  /\ \/ Cardinality(LineMatching(c)) > 1
     \/ LineMatching(c) = {} /\ c.email = NoEmail

KnownLogin(a) ==
  /\ IsKnown(a)
  /\ UNCHANGED <<users, emails, owner, profile>>

JoinLogin(a, m, email, verified) ==
  /\ ~IsKnown(a)
  /\ owner' = [owner EXCEPT ![a] = m.user]
  /\ profile' = [profile EXCEPT ![a] = [email |-> email, verified |-> verified]]
  /\ UNCHANGED <<users, emails>>

NewLogin(a, email, verified) ==
  /\ ~IsKnown(a)
  /\ users' = users + 1
  /\ emails' = emails \cup {[email |-> email, verified |-> verified, user |-> users']}
  /\ owner' = [owner EXCEPT ![a] = users']
  /\ profile' = [profile EXCEPT ![a] = [email |-> email, verified |-> verified]]

\* Mutant: is_verified is left at its default.
GoogleLoginUnverified(a, c) ==
  /\ ~GoogleRaises(a, c)
  /\ \/ KnownLogin(a)
     \/ \E m \in GoogleMatching(c) : JoinLogin(a, m, c.email, c.verified)
     \/ GoogleMatching(c) = {} /\ NewLogin(a, c.email, FALSE)
  /\ UNCHANGED lineTokens

GoogleLogin(a, c) ==
  /\ ~GoogleRaises(a, c)
  /\ \/ KnownLogin(a)
     \/ \E m \in GoogleMatching(c) : JoinLogin(a, m, c.email, c.verified)
     \/ GoogleMatching(c) = {} /\ NewLogin(a, c.email, c.verified)
  /\ UNCHANGED lineTokens

LineLogin(a, c) ==
  /\ ~LineRaises(a, c)
  /\ \/ KnownLogin(a)
     \/ \E m \in LineMatching(c) : JoinLogin(a, m, c.email, TRUE)
     \/ LineMatching(c) = {} /\ NewLogin(a, c.email, TRUE)
  /\ lineTokens' = lineTokens \cup {[account |-> a, created |-> now]}

\* EndUser.login
EndUserLogin(u) ==
  /\ Len(tokens) < MaxTokens
  /\ tokens' = Append(tokens, [user |-> u, expires |-> now + TokenLife])

GoogleCallback(a) == \E c \in GoogleClaims : GoogleLogin(a, c) /\ EndUserLogin(owner'[a])
LineCallback(a) == \E c \in LineClaims : LineLogin(a, c) /\ EndUserLogin(owner'[a])

Callback(a) == IF a \in Google THEN GoogleCallback(a) ELSE LineCallback(a)

\* oauth_login_flow: commit, then send the answer.
LoginSucceeds(b, a) ==
  /\ Callback(a)
  /\ arriving' = [arriving EXCEPT ![b] = Len(tokens')]
  /\ UNCHANGED <<now, cookie, answer>>

\* The browser has the answer, with what lation_set_access_token put in it.
SetAccessToken(b) ==
  /\ arriving[b] # NoToken
  /\ cookie' = [cookie EXCEPT ![b] = arriving[b]]
  /\ arriving' = [arriving EXCEPT ![b] = NoToken]
  /\ UNCHANGED <<now, database, answer>>

\* The token is read again after the commit; that fails, or the process dies,
\* and the browser is told that the login failed.
LoginUnanswered(a) ==
  /\ Callback(a)
  /\ UNCHANGED <<now, arriving, cookie, answer>>

\* Without a code the authorization is None; the token endpoint may answer with an
\* error; the login or the commit raises.  Nothing is stored.
LoginFails ==
  /\ answer' = [kind |-> "failed", token |-> NoToken]
  /\ UNCHANGED <<now, database, arriving, cookie>>

-----------------------------------------------------------------------------
(* Requests of someone who is logged in.                                   *)

HasCookie(b) == cookie[b] # NoToken

\* /me, and the dependencies of every other endpoint: get_access_token prefers
\* the cookie, login_required looks the token up, get_current_user reads its owner.
RequestByCookie(b) ==
  /\ HasCookie(b)
  /\ answer' = [kind |-> "cookie", token |-> cookie[b]]
  /\ UNCHANGED <<now, database, arriving, cookie>>

\* A client that kept the token's value and sends it in the header.
RequestByHeader(t) ==
  /\ t \in DOMAIN tokens
  /\ answer' = [kind |-> "header", token |-> t]
  /\ UNCHANGED <<now, database, arriving, cookie>>

\* The cookie goes: by logging out, or because the browser gives it up.
Logout(b) ==
  /\ HasCookie(b)
  /\ cookie' = [cookie EXCEPT ![b] = NoToken]
  /\ UNCHANGED <<now, database, arriving, answer>>

LineTokensOf(u) == {t \in lineTokens : owner[t.account] = u}

\* An account is created with its first token.
NotOlder(a, c) ==
  \A t \in lineTokens : t.account = a =>
    \E s \in lineTokens : s.account = c /\ s.created <= t.created

\* The query orders by the creation of the account, not of the token: any token of
\* the newest account may come first.
FirstLineToken(u) ==
  {t \in LineTokensOf(u) : \A s \in LineTokensOf(u) : NotOlder(t.account, s.account)}

\* LINE is asked unless its token has expired.
LineFriendship(b) ==
  LET u == tokens[cookie[b]].user
  IN  /\ HasCookie(b)
      /\ \E t \in FirstLineToken(u) :
           answer' = [kind |-> IF t.created + LineTokenLife < now THEN "expired" ELSE "asked",
                      token |-> cookie[b]]
      /\ UNCHANGED <<now, database, arriving, cookie>>

-----------------------------------------------------------------------------

Tick ==
  /\ now < MaxTime
  /\ now' = now + 1
  /\ UNCHANGED <<database, arriving, cookie, answer>>

Next ==
  \/ \E b \in Browsers, a \in Accounts : LoginSucceeds(b, a)
  \/ \E a \in Accounts : LoginUnanswered(a)
  \/ LoginFails
  \/ \E b \in Browsers :
       SetAccessToken(b) \/ RequestByCookie(b) \/ Logout(b) \/ LineFriendship(b)
  \/ \E t \in 1..MaxTokens : RequestByHeader(t)
  \/ Tick

Spec == Init /\ [][Next]_vars

-----------------------------------------------------------------------------
(* Properties.                                                             *)

TypeOK ==
  /\ now \in Nat
  /\ users \in Nat
  /\ emails \subseteq EmailRows(users)
  /\ owner \in [Accounts -> UserRows(users) \cup {0}]
  /\ profile \in [Accounts -> [email : Emails \cup {NoEmail}, verified : BOOLEAN]]
  /\ tokens \in Seq(TokenRows(users))
  /\ lineTokens \subseteq LineTokenRows
  /\ arriving \in [Browsers -> 0..Len(tokens)]
  /\ cookie \in [Browsers -> 0..Len(tokens)]
  /\ answer \in [kind : {"none", "failed", "cookie", "header", "expired", "asked"},
                  token : 0..Len(tokens)]

\* Whatever was logged in before, by this or other accounts, and however their
\* emails changed: a login fails for want of an email only, never because
\* one_or_none finds two rows.
RefusedOnlyWithoutEmail ==
  /\ \A a \in Google : \A c \in GoogleClaims : ~GoogleRaises(a, c)
  /\ \A a \in Line : \A c \in LineClaims : LineRaises(a, c) => c.email = NoEmail

\* The type invariant, and how the tables hang together after any sequence of
\* logins, failed ones included: an end user has one email, no two end users have
\* the same with the same verdict, a known account belongs to the end user whose
\* email it had at its first login, and a cookie stands for a token that is stored.
IInv ==
  /\ TypeOK
  /\ \A m, n \in emails :
       m.user = n.user \/ (m.email = n.email /\ m.verified = n.verified) => m = n
  /\ \A a \in Accounts :
       IsKnown(a) => [email |-> profile[a].email, verified |-> profile[a].verified,
                      user |-> owner[a]] \in emails
  /\ \A t \in lineTokens : IsKnown(t.account)
  /\ RefusedOnlyWithoutEmail

\* Two accounts are one end user if, and only if, their providers named the same
\* email with the same verdict when each of them logged in first: no two people are
\* taken for one, and nobody who comes by two roads becomes two end users.  (For
\* Google accounts the verdict may be that the email is not verified.)
JoinedByEmail ==
  \A a, c \in Accounts :
    IsKnown(a) /\ IsKnown(c) => (owner[a] = owner[c] <=> profile[a] = profile[c])
=============================================================================
