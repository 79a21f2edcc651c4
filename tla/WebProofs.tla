---------------------------- MODULE WebProofs ----------------------------
(***************************************************************************)
(* Proofs about the web server.  Logging in, for any accounts, emails,     *)
(* browsers and number of logins: the inductive invariant, with the tables *)
(* of end users as the callbacks leave them; and that accounts are joined  *)
(* by their emails, neither more nor less.  Sessions, for any number of    *)
(* requests, pool threads and connections: that an answered request loses  *)
(* rows only to one that shares its session.                               *)
(***************************************************************************)
EXTENDS Login, RequestSessions, TLAPS, FiniteSetTheorems, SequenceTheorems

USE LoginAssumption

AnyEmail == Emails \cup {NoEmail}

\* The invariant in the parts that different actions disturb.
RowsOK ==
  /\ users \in Nat
  /\ emails \subseteq EmailRows(users)
  /\ owner \in [Accounts -> UserRows(users) \cup {0}]
  /\ profile \in [Accounts -> [email : AnyEmail, verified : BOOLEAN]]

OneRowEach ==
  \A m, n \in emails :
    m.user = n.user \/ (m.email = n.email /\ m.verified = n.verified) => m = n

KnownHaveRows ==
  \A a \in Accounts :
    IsKnown(a) => [email |-> profile[a].email, verified |-> profile[a].verified,
                   user |-> owner[a]] \in emails

TokensOK ==
  /\ now \in Nat
  /\ tokens \in Seq(TokenRows(users))
  /\ lineTokens \subseteq LineTokenRows
  /\ arriving \in [Browsers -> 0..Len(tokens)]
  /\ cookie \in [Browsers -> 0..Len(tokens)]
  /\ answer \in [kind : {"none", "failed", "cookie", "header", "expired", "asked"},
                  token : 0..Len(tokens)]
  /\ \A t \in lineTokens : IsKnown(t.account)

\* A set without two different members does not count two.
LEMMA AtMostOne ==
  ASSUME NEW S, \A x, y \in S : x = y
  PROVE  ~(Cardinality(S) > 1)
<1>1. CASE S = {}
  BY <1>1, FS_EmptySet
<1>2. CASE S # {}
  <2>1. PICK x : x \in S
    BY <1>2
  <2>2. S = {x}
    BY <2>1
  <2>3. Cardinality(S) = 1
    BY <2>2, FS_Singleton
  <2> QED
    BY <2>3
<1> QED
  BY <1>1, <1>2

\* one_or_none finds one row or none.
LEMMA NoTwoRows ==
  ASSUME OneRowEach
  PROVE  RefusedOnlyWithoutEmail
<1>1. ASSUME NEW a \in Google, NEW c \in GoogleClaims
      PROVE  ~GoogleRaises(a, c)
  <2>1. \A m, n \in GoogleMatching(c) : m = n
    BY DEF GoogleMatching, OneRowEach
  <2> QED
    BY <2>1, AtMostOne DEF GoogleRaises
<1>2. ASSUME NEW a \in Line, NEW c \in LineClaims, LineRaises(a, c)
      PROVE  c.email = NoEmail
  <2>1. \A m, n \in LineMatching(c) : m = n
    <3>1. \A m \in LineMatching(c) : m \in emails /\ m.email = c.email /\ m.verified
      BY DEF LineMatching
    <3>2. \A m, n \in LineMatching(c) : m.email = n.email
      BY <3>1
    <3> QED
      BY <3>1, <3>2 DEF OneRowEach
  <2>2. ~(Cardinality(LineMatching(c)) > 1)
    BY <2>1, AtMostOne
  <2> QED
    BY <1>2, <2>2 DEF LineRaises
<1> QED
  BY <1>1, <1>2 DEF RefusedOnlyWithoutEmail

LEMMA InParts ==
  /\ IInv => RowsOK /\ OneRowEach /\ KnownHaveRows /\ TokensOK
  /\ RowsOK' /\ OneRowEach' /\ KnownHaveRows' /\ TokensOK' => IInv'
<1>1. IInv => RowsOK /\ OneRowEach /\ KnownHaveRows /\ TokensOK
  BY Zenon DEF IInv, TypeOK, RowsOK, OneRowEach, KnownHaveRows, TokensOK, AnyEmail
<1>2. OneRowEach' => RefusedOnlyWithoutEmail'
  BY NoTwoRows, PTL
<1>3. RowsOK' /\ OneRowEach' /\ KnownHaveRows' /\ TokensOK' => IInv'
  BY <1>2, Zenon DEF IInv, TypeOK, RowsOK, OneRowEach, KnownHaveRows, TokensOK, AnyEmail
<1> QED
  BY <1>1, <1>3

-----------------------------------------------------------------------------
(* The callbacks.                                                          *)

\* What Google and LINE do alike once the query has found a row, or none: log in a known
\* account, join the end user of the row, or create an end user.
FindsOrCreates(a, e, v) ==
  \/ KnownLogin(a)
  \/ \E m \in emails : m.email = e /\ m.verified = v /\ JoinLogin(a, m, e, v)
  \/ /\ e \in Emails
     /\ \A m \in emails : ~(m.email = e /\ m.verified = v)
     /\ NewLogin(a, e, v)

LEMMA GoogleIsAlike ==
  ASSUME NEW a \in Google, NEW c \in GoogleClaims, GoogleLogin(a, c)
  PROVE  /\ FindsOrCreates(a, c.email, c.verified) /\ c.email \in Emails /\ c.verified \in BOOLEAN
         /\ UNCHANGED lineTokens
<1>1. c.email \in Emails /\ c.verified \in BOOLEAN
  BY DEF GoogleClaims
<1>2. UNCHANGED lineTokens
  BY DEF GoogleLogin
<1>3. CASE \E m \in GoogleMatching(c) : JoinLogin(a, m, c.email, c.verified)
  <2>1. \E m \in emails :
          m.email = c.email /\ m.verified = c.verified /\ JoinLogin(a, m, c.email, c.verified)
    BY <1>3 DEF GoogleMatching
  <2> QED
    BY <1>1, <1>2, <2>1, Zenon DEF FindsOrCreates
<1>4. CASE GoogleMatching(c) = {} /\ NewLogin(a, c.email, c.verified)
  <2>1. \A m \in emails : ~(m.email = c.email /\ m.verified = c.verified)
    BY <1>4 DEF GoogleMatching
  <2> QED
    BY <1>1, <1>2, <1>4, <2>1, Zenon DEF FindsOrCreates
<1> QED
  BY <1>1, <1>2, <1>3, <1>4 DEF GoogleLogin, FindsOrCreates

LEMMA LineIsAlike ==
  ASSUME RowsOK, NEW a \in Line, NEW c \in LineClaims, LineLogin(a, c)
  PROVE  /\ FindsOrCreates(a, c.email, TRUE) /\ c.email \in AnyEmail
         /\ lineTokens' = lineTokens \cup {[account |-> a, created |-> now]}
<1>1. c.email \in AnyEmail
  BY DEF LineClaims, AnyEmail
<1>2. \A m \in emails : m.verified \in BOOLEAN
  BY DEF RowsOK, EmailRows
<1>3. CASE \E m \in LineMatching(c) : JoinLogin(a, m, c.email, TRUE)
  <2>1. PICK m \in LineMatching(c) : JoinLogin(a, m, c.email, TRUE)
    BY <1>3
  <2>2. m \in emails /\ m.email = c.email /\ m.verified = TRUE
    BY <1>2, <2>1 DEF LineMatching
  <2> QED
    BY <1>1, <2>1, <2>2, Zenon DEF FindsOrCreates, LineLogin
<1>4. CASE LineMatching(c) = {} /\ NewLogin(a, c.email, TRUE)
  <2>1. \A m \in emails : ~(m.email = c.email /\ m.verified = TRUE)
    BY <1>2, <1>4 DEF LineMatching
  <2>2. c.email \in Emails
    <3>1. ~IsKnown(a) /\ ~LineRaises(a, c)
      BY <1>4 DEF NewLogin, LineLogin
    <3> QED
      BY <1>1, <1>4, <3>1 DEF LineRaises, AnyEmail
  <2> QED
    BY <1>1, <1>4, <2>1, <2>2, Zenon DEF FindsOrCreates, LineLogin
<1>5. CASE KnownLogin(a)
  BY <1>1, <1>5, Zenon DEF FindsOrCreates, LineLogin
<1> QED
  BY <1>3, <1>4, <1>5 DEF LineLogin

\* An account that is joined has the row of the end user it joins; the row of a new end
\* user is no other's.
LEMMA LoginKeepsRows ==
  ASSUME RowsOK, OneRowEach, KnownHaveRows,
         NEW a \in Accounts, NEW e \in AnyEmail, NEW v \in BOOLEAN, FindsOrCreates(a, e, v)
  PROVE  /\ RowsOK' /\ OneRowEach' /\ KnownHaveRows'
         /\ users <= users' /\ owner'[a] \in UserRows(users')
         /\ \A c \in Accounts : IsKnown(c) => IsKnown(c)'
<1>1. CASE KnownLogin(a)
  <2>1. UNCHANGED <<users, emails, owner, profile>> /\ IsKnown(a)
    BY <1>1 DEF KnownLogin
  <2> QED
    BY <2>1 DEF RowsOK, OneRowEach, KnownHaveRows, IsKnown, UserRows
<1>2. CASE \E m \in emails : m.email = e /\ m.verified = v /\ JoinLogin(a, m, e, v)
  <2>1. PICK m \in emails : m.email = e /\ m.verified = v /\ JoinLogin(a, m, e, v)
    BY <1>2
  <2>2. /\ m \in EmailRows(users) /\ users \in Nat
        /\ m = [email |-> m.email, verified |-> m.verified, user |-> m.user]
    BY DEF RowsOK, EmailRows
  <2>3. m.user \in UserRows(users) /\ m.user # 0
    BY <2>2 DEF EmailRows, UserRows
  <2>4. /\ owner' = [owner EXCEPT ![a] = m.user]
        /\ profile' = [profile EXCEPT ![a] = [email |-> e, verified |-> v]]
        /\ UNCHANGED <<users, emails>>
    BY <2>1 DEF JoinLogin
  <2>5. /\ owner'[a] = m.user /\ \A c \in Accounts \ {a} : owner'[c] = owner[c]
        /\ profile'[a] = [email |-> e, verified |-> v]
        /\ \A c \in Accounts \ {a} : profile'[c] = profile[c]
    BY <2>4 DEF RowsOK
  <2>6. RowsOK'
    <3>1. owner' \in [Accounts -> UserRows(users) \cup {0}]
      BY <2>3, <2>4 DEF RowsOK
    <3>2. profile' \in [Accounts -> [email : AnyEmail, verified : BOOLEAN]]
      BY <2>4 DEF RowsOK
    <3> QED
      BY <2>4, <3>1, <3>2 DEF RowsOK
  <2>7. KnownHaveRows'
    <3>1. [email |-> profile'[a].email, verified |-> profile'[a].verified,
           user |-> owner'[a]] \in emails'
      <4>1. profile'[a].email = m.email /\ profile'[a].verified = m.verified
        BY <2>1, <2>5
      <4> QED
        BY <2>2, <2>4, <2>5, <4>1
    <3>2. ASSUME NEW c \in Accounts \ {a}, owner'[c] # 0
          PROVE  [email |-> profile'[c].email, verified |-> profile'[c].verified,
                  user |-> owner'[c]] \in emails'
      BY <2>4, <2>5, <3>2 DEF KnownHaveRows, IsKnown
    <3> QED
      BY <3>1, <3>2 DEF KnownHaveRows, IsKnown
  <2> QED
    BY <2>2, <2>3, <2>4, <2>5, <2>6, <2>7 DEF OneRowEach, IsKnown
<1>3. CASE /\ e \in Emails
           /\ \A m \in emails : ~(m.email = e /\ m.verified = v)
           /\ NewLogin(a, e, v)
  <2> DEFINE row == [email |-> e, verified |-> v, user |-> users + 1]
  <2>1. /\ users' = users + 1 /\ emails' = emails \cup {row}
        /\ owner' = [owner EXCEPT ![a] = users + 1]
        /\ profile' = [profile EXCEPT ![a] = [email |-> e, verified |-> v]]
    BY <1>3 DEF NewLogin
  <2>2. users \in Nat /\ users + 1 \in UserRows(users') /\ UserRows(users) \subseteq UserRows(users')
    BY <2>1 DEF RowsOK, UserRows
  <2>3. /\ owner'[a] = users + 1 /\ \A c \in Accounts \ {a} : owner'[c] = owner[c]
        /\ profile'[a] = [email |-> e, verified |-> v]
        /\ \A c \in Accounts \ {a} : profile'[c] = profile[c]
    BY <2>1 DEF RowsOK
  <2>4. RowsOK'
    <3>1. owner' \in [Accounts -> UserRows(users') \cup {0}]
      BY <2>1, <2>2 DEF RowsOK
    <3>2. profile' \in [Accounts -> [email : AnyEmail, verified : BOOLEAN]]
      BY <2>1 DEF RowsOK
    <3>3. row \in EmailRows(users')
      BY <1>3, <2>2 DEF EmailRows
    <3>4. EmailRows(users) \subseteq EmailRows(users')
      BY <2>2 DEF EmailRows
    <3> QED
      BY <2>1, <2>2, <3>1, <3>2, <3>3, <3>4 DEF RowsOK
  <2>5. OneRowEach'
    <3>1. row.email = e /\ row.verified = v /\ row.user = users + 1
      OBVIOUS
    <3>2. \A m \in emails : m.user # users + 1
      BY <2>2 DEF RowsOK, EmailRows, UserRows
    <3> HIDE DEF row
    <3> QED
      BY <1>3, <2>1, <3>1, <3>2 DEF OneRowEach
  <2>6. KnownHaveRows'
    <3>1. [email |-> profile'[a].email, verified |-> profile'[a].verified,
           user |-> owner'[a]] \in emails'
      <4>1. profile'[a].email = e /\ profile'[a].verified = v
        BY <2>3
      <4> QED
        BY <2>1, <2>3, <4>1
    <3>2. ASSUME NEW c \in Accounts \ {a}, owner'[c] # 0
          PROVE  [email |-> profile'[c].email, verified |-> profile'[c].verified,
                  user |-> owner'[c]] \in emails'
      BY <2>1, <2>3, <3>2 DEF KnownHaveRows, IsKnown
    <3> QED
      BY <3>1, <3>2 DEF KnownHaveRows, IsKnown
  <2> QED
    BY <2>1, <2>2, <2>3, <2>4, <2>5, <2>6 DEF IsKnown
<1> QED
  BY <1>1, <1>2, <1>3 DEF FindsOrCreates

LEMMA CallbackKeepsRows ==
  ASSUME RowsOK, OneRowEach, KnownHaveRows, NEW a \in Accounts, Callback(a)
  PROVE  /\ RowsOK' /\ OneRowEach' /\ KnownHaveRows'
         /\ users <= users' /\ owner'[a] \in UserRows(users')
         /\ \A c \in Accounts : IsKnown(c) => IsKnown(c)'
         /\ \/ lineTokens' = lineTokens
            \/ a \in Line /\ lineTokens' = lineTokens \cup {[account |-> a, created |-> now]}
         /\ EndUserLogin(owner'[a])
<1>1. CASE a \in Google
  <2>1. PICK c \in GoogleClaims : GoogleLogin(a, c) /\ EndUserLogin(owner'[a])
    BY <1>1 DEF Callback, GoogleCallback
  <2>2. /\ FindsOrCreates(a, c.email, c.verified) /\ c.email \in AnyEmail /\ c.verified \in BOOLEAN
        /\ UNCHANGED lineTokens
    BY <1>1, <2>1, GoogleIsAlike DEF AnyEmail
  <2> QED
    BY <2>1, <2>2, LoginKeepsRows
<1>2. CASE a \notin Google
  <2>1. PICK c \in LineClaims : LineLogin(a, c) /\ EndUserLogin(owner'[a])
    BY <1>2 DEF Callback, LineCallback
  <2>2. a \in Line
    BY <1>2 DEF Accounts
  <2>3. /\ FindsOrCreates(a, c.email, TRUE) /\ c.email \in AnyEmail
        /\ lineTokens' = lineTokens \cup {[account |-> a, created |-> now]}
    BY <2>1, <2>2, LineIsAlike
  <2> QED
    BY <2>1, <2>2, <2>3, LoginKeepsRows
<1> QED
  BY <1>1, <1>2

-----------------------------------------------------------------------------
(* Tokens and cookies.                                                     *)

LEMMA TokenFacts ==
  ASSUME TokensOK
  PROVE  Len(tokens) \in Nat /\ DOMAIN tokens = 1..Len(tokens)
<1>1. tokens \in Seq(TokenRows(users))
  BY DEF TokensOK
<1> QED
  BY <1>1, LenProperties

\* A login adds one token, at the end.
LEMMA LoginAddsToken ==
  ASSUME RowsOK, TokensOK, NEW u \in UserRows(users'), EndUserLogin(u),
         users \in Nat, users' \in Nat, users <= users'
  PROVE  /\ tokens' \in Seq(TokenRows(users'))
         /\ Len(tokens) \in Nat /\ Len(tokens') = Len(tokens) + 1
<1> DEFINE row == [user |-> u, expires |-> now + TokenLife]
<1>1. tokens' = Append(tokens, row) /\ now \in Nat
  BY DEF EndUserLogin, TokensOK
<1>2. row \in TokenRows(users')
  BY <1>1 DEF TokenRows, TokenLife
<1>3. TokenRows(users) \subseteq TokenRows(users')
  BY DEF TokenRows, UserRows
<1>4. tokens \in Seq(TokenRows(users')) /\ Len(tokens) \in Nat
  BY <1>3, SeqMonotonic, TokenFacts DEF TokensOK
<1> HIDE DEF row
<1>5. /\ Append(tokens, row) \in Seq(TokenRows(users'))
      /\ Len(Append(tokens, row)) = Len(tokens) + 1
  BY <1>2, <1>4, AppendProperties
<1> QED
  BY <1>1, <1>4, <1>5

LEMMA LoginKeepsIInv ==
  ASSUME IInv,
         \/ \E b \in Browsers, a \in Accounts : LoginSucceeds(b, a)
         \/ \E a \in Accounts : LoginUnanswered(a)
  PROVE  IInv'
<1>1. RowsOK /\ OneRowEach /\ KnownHaveRows /\ TokensOK
  BY InParts
<1>2. PICK a \in Accounts : Callback(a)
  BY DEF LoginSucceeds, LoginUnanswered
<1>3. UNCHANGED <<now, cookie, answer>>
  BY DEF LoginSucceeds, LoginUnanswered
<1>4. /\ RowsOK' /\ OneRowEach' /\ KnownHaveRows'
      /\ users <= users' /\ owner'[a] \in UserRows(users')
      /\ \A c \in Accounts : IsKnown(c) => IsKnown(c)'
      /\ \/ lineTokens' = lineTokens
         \/ a \in Line /\ lineTokens' = lineTokens \cup {[account |-> a, created |-> now]}
      /\ EndUserLogin(owner'[a])
  BY <1>1, <1>2, CallbackKeepsRows
<1>5. users \in Nat /\ users' \in Nat /\ now \in Nat /\ lineTokens \subseteq LineTokenRows
  BY <1>1, <1>4 DEF RowsOK, TokensOK
<1>6. /\ tokens' \in Seq(TokenRows(users'))
      /\ Len(tokens) \in Nat /\ Len(tokens') = Len(tokens) + 1
  BY <1>1, <1>4, <1>5, LoginAddsToken
<1>7. lineTokens' \subseteq LineTokenRows /\ \A t \in lineTokens' : IsKnown(t.account)'
  <2>1. \A t \in lineTokens : t.account \in Accounts /\ IsKnown(t.account)'
    BY <1>1, <1>4, <1>5 DEF TokensOK, LineTokenRows, Accounts
  <2>2. IsKnown(a)'
    BY <1>4, <1>5 DEF IsKnown, UserRows
  <2>3. a \in Line => [account |-> a, created |-> now] \in LineTokenRows
    BY <1>5 DEF LineTokenRows
  <2> QED
    BY <1>4, <1>5, <2>1, <2>2, <2>3
<1>8. answer' \in [kind : {"none", "failed", "cookie", "header", "expired", "asked"},
                   token : 0..Len(tokens')]
  BY <1>1, <1>3, <1>6 DEF TokensOK
<1>9. /\ arriving \in [Browsers -> 0..Len(tokens')]
      /\ cookie' \in [Browsers -> 0..Len(tokens')]
  <2>1. 0..Len(tokens) \subseteq 0..Len(tokens')
    BY <1>6
  <2> QED
    BY <1>1, <1>3, <2>1 DEF TokensOK
<1>10. arriving' \in [Browsers -> 0..Len(tokens')]
  <2>1. Len(tokens') \in 0..Len(tokens')
    BY <1>6
  <2>2. CASE \E b \in Browsers : arriving' = [arriving EXCEPT ![b] = Len(tokens')]
    BY <1>9, <2>1, <2>2
  <2>3. CASE arriving' = arriving
    BY <1>9, <2>3
  <2> QED
    BY <2>2, <2>3 DEF LoginSucceeds, LoginUnanswered
<1>11. TokensOK'
  BY <1>3, <1>5, <1>6, <1>7, <1>8, <1>9, <1>10 DEF TokensOK
<1> QED
  BY <1>4, <1>11, InParts

\* The other steps leave the database alone.
LEMMA OtherKeepsIInv ==
  ASSUME IInv, UNCHANGED database, now' \in Nat,
         arriving' \in [Browsers -> 0..Len(tokens)],
         cookie' \in [Browsers -> 0..Len(tokens)],
         answer' \in [kind : {"none", "failed", "cookie", "header", "expired", "asked"},
                      token : 0..Len(tokens)]
  PROVE  IInv'
<1>1. RowsOK /\ OneRowEach /\ KnownHaveRows /\ TokensOK
  BY InParts
<1>2. UNCHANGED <<users, emails, owner, profile, tokens, lineTokens>>
  BY DEF database
<1>3. RowsOK' /\ OneRowEach' /\ KnownHaveRows'
  BY <1>1, <1>2 DEF RowsOK, OneRowEach, KnownHaveRows, IsKnown
<1>4. \A t \in lineTokens' : IsKnown(t.account)'
  BY <1>1, <1>2 DEF TokensOK, IsKnown
<1>5. TokensOK'
  BY <1>1, <1>2, <1>4 DEF TokensOK
<1> QED
  BY <1>3, <1>5, InParts

LEMMA InitEstablishes == Init => IInv
<1> SUFFICES ASSUME Init PROVE IInv
  OBVIOUS
<1>1. RowsOK
  BY DEF Init, RowsOK, Unknown, AnyEmail, EmailRows, UserRows
<1>2. OneRowEach
  BY DEF Init, OneRowEach
<1>3. KnownHaveRows
  BY DEF Init, KnownHaveRows, IsKnown
<1>4. tokens \in Seq(TokenRows(users)) /\ Len(tokens) = 0
  BY EmptySeq DEF Init
<1>5. TokensOK
  BY <1>4 DEF Init, TokensOK, NoToken
<1>6. RefusedOnlyWithoutEmail
  BY <1>2, NoTwoRows
<1> QED
  BY <1>1, <1>2, <1>3, <1>5, <1>6, Zenon
     DEF IInv, TypeOK, RowsOK, OneRowEach, KnownHaveRows, TokensOK, AnyEmail

LEMMA NextKeepsIInv ==
  ASSUME IInv, [Next]_vars
  PROVE  IInv'
<1>1. TokensOK /\ Len(tokens) \in Nat
  BY InParts, TokenFacts
<1>2. /\ now \in Nat
      /\ arriving \in [Browsers -> 0..Len(tokens)]
      /\ cookie \in [Browsers -> 0..Len(tokens)]
      /\ answer \in [kind : {"none", "failed", "cookie", "header", "expired", "asked"},
                     token : 0..Len(tokens)]
  BY <1>1 DEF TokensOK
<1>3. \A b \in Browsers : cookie[b] \in 0..Len(tokens) /\ arriving[b] \in 0..Len(tokens)
  BY <1>2
<1>4. CASE \/ \E b \in Browsers, a \in Accounts : LoginSucceeds(b, a)
           \/ \E a \in Accounts : LoginUnanswered(a)
  BY <1>4, LoginKeepsIInv
<1>5. CASE LoginFails
  <2>1. UNCHANGED <<now, database, arriving, cookie>> /\ answer' = [kind |-> "failed", token |-> 0]
    BY <1>5 DEF LoginFails, NoToken
  <2> QED
    BY <1>1, <1>2, <2>1, OtherKeepsIInv
<1>6. CASE \E b \in Browsers : RequestByCookie(b)
  <2>1. PICK b \in Browsers : /\ answer' = [kind |-> "cookie", token |-> cookie[b]]
                              /\ UNCHANGED <<now, database, arriving, cookie>>
    BY <1>6 DEF RequestByCookie
  <2> QED
    BY <1>1, <1>2, <1>3, <2>1, OtherKeepsIInv
<1>7. CASE \E b \in Browsers : Logout(b)
  <2>1. PICK b \in Browsers : /\ cookie' = [cookie EXCEPT ![b] = 0]
                              /\ UNCHANGED <<now, database, arriving, answer>>
    BY <1>7 DEF Logout, NoToken
  <2>2. cookie' \in [Browsers -> 0..Len(tokens)]
    BY <1>1, <1>2, <2>1
  <2> QED
    BY <1>1, <1>2, <2>1, <2>2, OtherKeepsIInv
<1>8. CASE \E b \in Browsers : LineFriendship(b)
  <2>1. PICK b \in Browsers : LineFriendship(b)
    BY <1>8
  <2>2. /\ UNCHANGED <<now, database, arriving, cookie>>
        /\ \E k \in {"expired", "asked"} : answer' = [kind |-> k, token |-> cookie[b]]
    BY <2>1 DEF LineFriendship
  <2> QED
    BY <1>1, <1>2, <1>3, <2>2, OtherKeepsIInv
<1>9. CASE \E t \in 1..MaxTokens : RequestByHeader(t)
  <2>1. PICK t \in 1..Len(tokens) : /\ answer' = [kind |-> "header", token |-> t]
                                    /\ UNCHANGED <<now, database, arriving, cookie>>
    BY <1>1, <1>9, TokenFacts DEF RequestByHeader
  <2> QED
    BY <1>1, <1>2, <2>1, OtherKeepsIInv
<1>10. CASE Tick
  <2>1. now' = now + 1 /\ UNCHANGED <<database, arriving, cookie, answer>>
    BY <1>10 DEF Tick
  <2> QED
    BY <1>2, <2>1, OtherKeepsIInv
<1>11. CASE \E b \in Browsers : SetAccessToken(b)
  <2>1. PICK b \in Browsers : /\ cookie' = [cookie EXCEPT ![b] = arriving[b]]
                              /\ arriving' = [arriving EXCEPT ![b] = 0]
                              /\ UNCHANGED <<now, database, answer>>
    BY <1>11 DEF SetAccessToken, NoToken
  <2>2. /\ cookie' \in [Browsers -> 0..Len(tokens)]
        /\ arriving' \in [Browsers -> 0..Len(tokens)]
    BY <1>1, <1>2, <1>3, <2>1
  <2> QED
    BY <1>1, <1>2, <2>1, <2>2, OtherKeepsIInv
<1>12. CASE UNCHANGED vars
  <2>1. UNCHANGED <<now, database, arriving, cookie, answer>>
    BY <1>12 DEF vars, database
  <2> QED
    BY <1>2, <2>1, OtherKeepsIInv
<1> QED
  BY <1>4, <1>5, <1>6, <1>7, <1>8, <1>9, <1>10, <1>11, <1>12 DEF Next

\* After any sequence of logins, whatever emails the providers name: an end user has one
\* email, no two end users the same with the same verdict, so that one_or_none never
\* finds two rows; a known account belongs to the end user whose email it had at its
\* first login; and a cookie stands for a token that is stored.
THEOREM Invariance == Spec => []IInv
<1>1. Init => IInv
  BY InitEstablishes
<1>2. IInv /\ [Next]_vars => IInv'
  BY NextKeepsIInv
<1> QED
  BY <1>1, <1>2, PTL DEF Spec

-----------------------------------------------------------------------------
(* What follows.                                                           *)

\* Two accounts are of one end user exactly if their providers named the same email with
\* the same verdict when they logged in first: then, and only then, their rows are one.
THEOREM OneUserOneEmail == Spec => []JoinedByEmail
<1>1. IInv => JoinedByEmail
  <2> SUFFICES ASSUME IInv, NEW a \in Accounts, NEW c \in Accounts, IsKnown(a), IsKnown(c)
               PROVE  owner[a] = owner[c] <=> profile[a] = profile[c]
    BY DEF JoinedByEmail
  <2> DEFINE row(d) == [email |-> profile[d].email, verified |-> profile[d].verified,
                        user |-> owner[d]]
  <2>1. OneRowEach /\ KnownHaveRows
    BY InParts
  <2>2. row(a) \in emails /\ row(c) \in emails
    BY <2>1 DEF KnownHaveRows
  <2>3. \A d \in {a, c} : /\ row(d).email = profile[d].email /\ row(d).user = owner[d]
                          /\ row(d).verified = profile[d].verified
    OBVIOUS
  <2>4. ASSUME owner[a] = owner[c] PROVE profile[a] = profile[c]
    <3>1. row(a) = row(c)
      BY <2>1, <2>2, <2>4 DEF OneRowEach
    <3>2. profile[a].email = profile[c].email /\ profile[a].verified = profile[c].verified
      BY <2>3, <3>1
    <3>3. \A d \in {a, c} : profile[d] \in [email : AnyEmail, verified : BOOLEAN]
      BY InParts DEF RowsOK
    <3> QED
      BY <3>2, <3>3
  <2>5. ASSUME profile[a] = profile[c] PROVE owner[a] = owner[c]
    <3>1. row(a) = row(c)
      BY <2>1, <2>2, <2>3, <2>5 DEF OneRowEach
    <3> QED
      BY <2>3, <3>1
  <2> QED
    BY <2>4, <2>5
<1> QED
  BY <1>1, Invariance, PTL

-----------------------------------------------------------------------------
(* Sessions of the requests.                                               *)

\* Nothing is at work in the initial state.
LEMMA InitSessions == SessionsInit => SessionsInv
BY SessionsAssumption DEF SessionsInit, SessionsInv, SessionsTypeOK, Phases, FailedIsNotStored, LostOnlyBySharing

\* Steps that leave sessions, pending rows and the database alone: a request
\* moves between phases in which it is not yet, or no longer, at work.
LEMMA MoveKeepsSessions ==
  ASSUME SessionsInv, NEW r \in Requests, NEW next \in Phases,
         phase' = [phase EXCEPT ![r] = next],
         UNCHANGED <<session, pending, stored, result>>,
         conns' \subseteq Threads,
         \/ loop' = loop /\ phase[r] = "new" /\ next = "entering"
         \/ loop' = loop /\ phase[r] = "answered" /\ next = "leaving"
         \/ loop = NoRequest /\ loop' = r /\ phase[r] = "entered" /\ next = "waiting"
         \/ loop' = loop /\ phase[r] = "waiting" /\ next = "handling"
  PROVE  SessionsInv'
<1>1. SessionsTypeOK'
  BY DEF SessionsInv, SessionsTypeOK
<1>2. ASSUME NEW q \in Requests
      PROVE  /\ phase'[q] \in {"waiting", "handling", "added"} <=> loop' = q
             /\ phase'[q] \notin {"new", "entering"} <=> session'[q] \in Threads
             /\ phase'[q] \notin {"answered", "leaving", "done"} =>
                  q \notin stored' /\ result'[q] = "none"
             /\ phase'[q] = "added" /\ q \notin pending'[session'[q]] =>
                  \E p \in Requests \ {q} : session'[p] = session'[q]
  BY SessionsAssumption DEF SessionsInv, SessionsTypeOK
<1>3. \A s \in Threads : \A q \in pending'[s] : phase'[q] = "added" /\ session'[q] = s
  BY DEF SessionsInv, SessionsTypeOK
<1>4. FailedIsNotStored' /\ LostOnlyBySharing'
  BY DEF SessionsInv, SessionsTypeOK, FailedIsNotStored, LostOnlyBySharing
<1> QED
  BY <1>1, <1>2, <1>3, <1>4 DEF SessionsInv

\* A session that is closed by another request loses rows; its owner then shares
\* it with the request that closed it.
LEMMA CloseKeepsSessions ==
  ASSUME SessionsInv, NEW r \in Requests, NEW t \in Threads, CloseSession(t),
         session'[r] = t,
         UNCHANGED <<loop, stored, result>>,
         \/ /\ phase[r] = "entering"
            /\ phase' = [phase EXCEPT ![r] = "entered"]
            /\ session' = [session EXCEPT ![r] = t]
         \/ /\ phase[r] = "leaving"
            /\ phase' = [phase EXCEPT ![r] = "done"]
            /\ session' = session
  PROVE  SessionsInv'
<1>1. SessionsTypeOK'
  BY DEF SessionsInv, SessionsTypeOK, CloseSession, Phases
<1>2. ASSUME NEW q \in Requests
      PROVE  /\ phase'[q] \in {"waiting", "handling", "added"} <=> loop' = q
             /\ phase'[q] \notin {"new", "entering"} <=> session'[q] \in Threads
             /\ phase'[q] \notin {"answered", "leaving", "done"} =>
                  q \notin stored' /\ result'[q] = "none"
  BY DEF SessionsInv, SessionsTypeOK
<1>3. ASSUME NEW q \in Requests, NEW p \in Requests \ {q}, session[q] \in Threads,
             session[p] = session[q]
      PROVE  session'[p] = session'[q]
  BY <1>3, SessionsAssumption DEF SessionsInv, SessionsTypeOK
<1>4. ASSUME NEW q \in Requests, phase'[q] = "added", q \notin pending'[session'[q]]
      PROVE  \E p \in Requests \ {q} : session'[p] = session'[q]
  <2>1. q # r /\ phase[q] = "added" /\ session'[q] = session[q] /\ session[q] \in Threads
    BY <1>4 DEF SessionsInv, SessionsTypeOK
  <2>2. CASE session[q] = t
    BY <2>1, <2>2
  <2>3. CASE session[q] # t
    <3>1. q \notin pending[session[q]]
      BY <1>4, <2>1, <2>3 DEF CloseSession, SessionsInv, SessionsTypeOK
    <3> QED
      BY <2>1, <3>1, <1>3 DEF SessionsInv
  <2> QED
    BY <2>2, <2>3
<1>5. \A s \in Threads : \A q \in pending'[s] : phase'[q] = "added" /\ session'[q] = s
  BY DEF SessionsInv, SessionsTypeOK, CloseSession
<1>6. FailedIsNotStored'
  BY DEF SessionsInv, FailedIsNotStored
<1>7. LostOnlyBySharing'
  <2> SUFFICES ASSUME NEW q \in Requests, result[q] = "ok", q \notin stored
               PROVE  \E p \in Requests \ {q} : session'[p] = session'[q]
    BY DEF LostOnlyBySharing
  <2>1. session[q] \in Threads
    BY DEF SessionsInv, SessionsTypeOK
  <2> QED
    BY <2>1, <1>3 DEF SessionsInv, LostOnlyBySharing
<1> QED
  BY <1>1, <1>2, <1>4, <1>5, <1>6, <1>7 DEF SessionsInv

\* The request on the loop is answered: its session is empty afterwards, and the
\* database has what was pending there, if anything.
LEMMA AnswerKeepsSessions ==
  ASSUME SessionsInv, NEW r \in Requests, phase[r] \in {"waiting", "handling", "added"},
         NEW how \in {"ok", "error"}, Answer(r, how),
         pending' = [pending EXCEPT ![session[r]] = {}],
         conns' \subseteq Threads,
         \/ how = "error" /\ stored' = stored
         \/ how = "ok" /\ phase[r] = "added" /\ stored' = stored \cup pending[session[r]]
  PROVE  SessionsInv'
<1>1. loop = r /\ session[r] \in Threads /\ r \notin stored
  BY DEF SessionsInv
<1>2. pending[session[r]] \subseteq {r}
  BY <1>1 DEF SessionsInv, SessionsTypeOK
<1>3. SessionsTypeOK'
  BY <1>1, <1>2 DEF SessionsInv, SessionsTypeOK, Answer, Phases
<1>4. ASSUME NEW q \in Requests
      PROVE  /\ phase'[q] \in {"waiting", "handling", "added"} <=> loop' = q
             /\ phase'[q] \notin {"new", "entering"} <=> session'[q] \in Threads
             /\ phase'[q] \notin {"answered", "leaving", "done"} =>
                  q \notin stored' /\ result'[q] = "none"
             /\ phase'[q] # "added"
  BY <1>1, <1>2, SessionsAssumption DEF SessionsInv, SessionsTypeOK, Answer
<1>5. \A s \in Threads : pending'[s] = {}
  BY <1>1, <1>2 DEF SessionsInv, SessionsTypeOK
<1>6. FailedIsNotStored'
  BY <1>1, <1>2 DEF SessionsInv, SessionsTypeOK, FailedIsNotStored, Answer
<1>7. LostOnlyBySharing'
  BY <1>1, <1>2 DEF SessionsInv, SessionsTypeOK, LostOnlyBySharing, Answer
<1> QED
  BY <1>3, <1>4, <1>5, <1>6, <1>7 DEF SessionsInv

LEMMA AddKeepsSessions ==
  ASSUME SessionsInv, NEW r \in Requests, AddRows(r)
  PROVE  SessionsInv'
<1>1. session[r] \in Threads /\ phase[r] = "handling" /\ loop = r
  BY DEF SessionsInv, AddRows
<1>2. SessionsTypeOK'
  BY <1>1 DEF SessionsInv, SessionsTypeOK, AddRows, Phases
<1>3. ASSUME NEW q \in Requests
      PROVE  /\ phase'[q] \in {"waiting", "handling", "added"} <=> loop' = q
             /\ phase'[q] \notin {"new", "entering"} <=> session'[q] \in Threads
             /\ phase'[q] \notin {"answered", "leaving", "done"} =>
                  q \notin stored' /\ result'[q] = "none"
  BY <1>1 DEF SessionsInv, SessionsTypeOK, AddRows
<1>4. ASSUME NEW q \in Requests, phase'[q] = "added"
      PROVE  q \in pending'[session'[q]]
  BY <1>1, <1>3, <1>4 DEF SessionsInv, SessionsTypeOK, AddRows
<1>5. \A s \in Threads : \A q \in pending'[s] : phase'[q] = "added" /\ session'[q] = s
  BY <1>1 DEF SessionsInv, SessionsTypeOK, AddRows
<1>6. FailedIsNotStored' /\ LostOnlyBySharing'
  BY DEF SessionsInv, AddRows, FailedIsNotStored, LostOnlyBySharing
<1> QED
  BY <1>2, <1>3, <1>4, <1>5, <1>6 DEF SessionsInv

LEMMA NextKeepsSessions == SessionsInv /\ [SessionsNext]_sessionVars => SessionsInv'
<1> SUFFICES ASSUME SessionsInv, [SessionsNext]_sessionVars
             PROVE  SessionsInv'
  OBVIOUS
<1>1. ASSUME NEW r \in Requests, Arrive(r) \/ Resume(r) \/ Leave(r) \/ Load(r)
      PROVE  SessionsInv'
  <2>1. conns' \subseteq Threads
    BY <1>1 DEF Arrive, Resume, Leave, Load, SessionsInv, SessionsTypeOK
  <2> QED
    BY <1>1, <2>1, MoveKeepsSessions DEF Arrive, Resume, Leave, Load, LoopFree, Phases
<1>2. ASSUME NEW r \in Requests, AddRows(r)
      PROVE  SessionsInv'
  BY <1>2, AddKeepsSessions
<1>3. ASSUME NEW r \in Requests, Commit(r)
      PROVE  SessionsInv'
  <2>1. conns' \subseteq Threads
    BY <1>3 DEF Commit, SessionsInv, SessionsTypeOK
  <2> QED
    BY <1>3, <2>1, AnswerKeepsSessions DEF Commit
<1>4. ASSUME NEW r \in Requests, Fail(r) \/ PoolTimeout(r)
      PROVE  SessionsInv'
  <2>1. conns' \subseteq Threads
    BY <1>4 DEF Fail, PoolTimeout, CloseSession, SessionsInv, SessionsTypeOK
  <2> QED
    BY <1>4, <2>1, AnswerKeepsSessions DEF Fail, PoolTimeout, CloseSession
<1>5. ASSUME NEW r \in Requests, NEW t \in Threads, Enter(r, t)
      PROVE  SessionsInv'
  <2>1. session'[r] = t
    BY <1>5 DEF Enter, SessionsInv, SessionsTypeOK
  <2> QED
    BY <1>5, <2>1, CloseKeepsSessions DEF Enter
<1>6. ASSUME NEW r \in Requests, Close(r)
      PROVE  SessionsInv'
  <2>1. session[r] \in Threads
    BY <1>6 DEF Close, SessionsInv
  <2> QED
    BY <1>6, <2>1, CloseKeepsSessions DEF Close
<1>7. CASE UNCHANGED sessionVars
  BY <1>7 DEF sessionVars, SessionsInv, SessionsTypeOK, FailedIsNotStored, LostOnlyBySharing
<1> QED
  BY <1>1, <1>2, <1>3, <1>4, <1>5, <1>6, <1>7 DEF SessionsNext, OnLoop, InPool

\* The invariant that the run on Sessions.cfg checks, for every instance.
THEOREM SessionsInvariant == SessionsSpec => []SessionsInv
BY InitSessions, NextKeepsSessions, PTL DEF SessionsSpec

\* managed_transaction: what failed is not stored, whoever uses the session next.
THEOREM FailureIsClean == SessionsSpec => []FailedIsNotStored
<1>1. SessionsInv => FailedIsNotStored
  BY DEF SessionsInv
<1> QED
  BY <1>1, SessionsInvariant, PTL

\* get_session: an answered request loses rows only to one that shares its session.
THEOREM LossIsSharing == SessionsSpec => []LostOnlyBySharing
<1>1. SessionsInv => LostOnlyBySharing
  BY DEF SessionsInv
<1> QED
  BY <1>1, SessionsInvariant, PTL
=============================================================================
