--------------------------- MODULE SessionsProofs ---------------------------
(***************************************************************************)
(* Refresh tokens, for any number of tokens and requests in flight: what   *)
(* is revoked stays revoked, and rotations chain the tokens of a sign-in.  *)
(* While nothing overlaps or is cut short, a sign-in has one live token,   *)
(* and a password change ends the sessions before it.                      *)
(***************************************************************************)
EXTENDS MCSessions, TLAPS

LEMMA IdleType == Idle \in Request /\ Idle.pc = "idle"
BY SessionsAssumption DEF Idle, Request, Pc

LEMMA TypeInit == Init => TypeOK
BY SessionsAssumption, IdleType DEF Init, TypeOK, AbsentToken, Token

\* The statements of TokensService keep the table's type, and leave what is
\* revoked revoked.
Keeps == \A t \in Tokens : tokens[t].state = "revoked" => tokens'[t].state = "revoked"

LEMMA InsertedKeeps ==
  ASSUME TypeOK, NEW t \in Tokens, NEW login \in Tokens, NEW password \in 0 .. MaxPasswords,
         Inserted(t, login, password)
  PROVE  /\ tokens' \in [Tokens -> Token] /\ Keeps
         /\ tokens'[t].state = "live" /\ tokens'[t].login = login /\ tokens'[t].replacedBy = NoToken
         /\ \A s \in Tokens \ {t} : tokens'[s] = tokens[s]
<1> DEFINE row == [AbsentToken EXCEPT !.state = "live", !.login = login, !.password = password]
<1>1. row \in Token /\ row.state = "live" /\ row.login = login /\ row.replacedBy = NoToken
  BY DEF AbsentToken, Token
<1>2. tokens' = [tokens EXCEPT ![t] = row] /\ tokens[t].state = "absent"
  BY DEF Inserted
<1> HIDE DEF row
<1> QED BY <1>1, <1>2 DEF TypeOK, Keeps

LEMMA ReplacedKeeps ==
  ASSUME TypeOK, NEW t \in Tokens, NEW new \in Tokens, Replaced(t, new)
  PROVE  /\ tokens' \in [Tokens -> Token] /\ Keeps
         /\ tokens'[t].state = "revoked" /\ tokens'[t].replacedBy = new
         /\ tokens'[t].login = tokens[t].login
         /\ \A s \in Tokens \ {t} : tokens'[s] = tokens[s]
<1> DEFINE row == [tokens[t] EXCEPT !.state = "revoked", !.replacedBy = new]
<1>1. row \in Token /\ row.state = "revoked" /\ row.replacedBy = new /\ row.login = tokens[t].login
  BY DEF TypeOK, Token
<1>2. tokens' = [tokens EXCEPT ![t] = row]
  BY DEF Replaced, TypeOK
<1> HIDE DEF row
<1> QED BY <1>1, <1>2 DEF TypeOK, Keeps

\* logout, revokeAllForUser and expiry: each row's state or expiry at most.
SameButRevoked(row, old) ==
  /\ row.state = old.state \/ (old.state = "live" /\ row.state = "revoked")
  /\ row.login = old.login /\ row.replacedBy = old.replacedBy

LEMMA RevokedRow ==
  ASSUME NEW row \in Token, row.state = "live"
  PROVE  /\ [row EXCEPT !.state = "revoked"] \in Token
         /\ SameButRevoked([row EXCEPT !.state = "revoked"], row)
BY DEF Token, SameButRevoked

LEMMA RevokedAllKeeps ==
  ASSUME TypeOK, RevokedAll
  PROVE  /\ tokens' \in [Tokens -> Token]
         /\ \A t \in Tokens : SameButRevoked(tokens'[t], tokens[t])
<1>1. ASSUME NEW t \in Tokens
      PROVE  tokens'[t] \in Token /\ SameButRevoked(tokens'[t], tokens[t])
  <2>1. CASE t \in LiveTokens
    <3>1. tokens[t] \in Token /\ tokens[t].state = "live"
      BY <2>1 DEF LiveTokens, TypeOK
    <3>2. tokens'[t] = [tokens[t] EXCEPT !.state = "revoked"]
      BY <2>1 DEF RevokedAll
    <3> QED BY <3>1, <3>2, RevokedRow
  <2>2. CASE t \notin LiveTokens
    BY <2>2 DEF RevokedAll, TypeOK, SameButRevoked
  <2> QED BY <2>1, <2>2
<1>2. tokens' = [t \in Tokens |-> tokens'[t]]
  BY DEF RevokedAll
<1> QED BY <1>1, <1>2

LEMMA OneRowKeeps ==
  ASSUME TypeOK, NEW t \in LiveTokens,
         \/ tokens' = [tokens EXCEPT ![t].state = "revoked"]
         \/ tokens' = [tokens EXCEPT ![t].expired = TRUE]
  PROVE  /\ tokens' \in [Tokens -> Token]
         /\ \A s \in Tokens : SameButRevoked(tokens'[s], tokens[s])
<1>1. t \in Tokens /\ tokens[t] \in Token /\ tokens[t].state = "live"
  BY DEF LiveTokens, TypeOK
<1>2. [tokens[t] EXCEPT !.expired = TRUE] \in Token
      /\ SameButRevoked([tokens[t] EXCEPT !.expired = TRUE], tokens[t])
  BY <1>1 DEF Token, SameButRevoked
<1>3. PICK row \in Token : tokens' = [tokens EXCEPT ![t] = row] /\ SameButRevoked(row, tokens[t])
  BY <1>1, <1>2, RevokedRow DEF TypeOK
<1> QED BY <1>1, <1>3 DEF TypeOK, SameButRevoked

-----------------------------------------------------------------------------
(* The chain of rotations, link by link.                                   *)

\* Another token of the same sign-in, that there is.
Follows(s, t) ==
  s \in Tokens /\ s # t /\ tokens[s].state # "absent" /\ tokens[s].login = tokens[t].login

\* A link leads from a revoked token to another one of the same sign-in, and a
\* rotation under way is about to make such a link.
LinksStayInLogin ==
  \A t \in Tokens :
    /\ tokens[t].state # "absent" => tokens[t].login \in Tokens
    /\ tokens[t].replacedBy # NoToken =>
         tokens[t].state = "revoked" /\ Follows(tokens[t].replacedBy, t)

RotationsInFlight ==
  \A r \in Slots : LET q == requests[r] IN
    /\ q.pc \in {"refresh.user", "refresh.issue", "refresh.revoke"} =>
         q.token \in Tokens /\ tokens[q.token].state # "absent"
    /\ q.pc = "refresh.revoke" => Follows(q.new, q.token)

ChainInv == TypeOK /\ LinksStayInLogin /\ RotationsInFlight

LEMMA FollowsKept ==
  ASSUME TypeOK, NEW s, NEW t \in Tokens, Follows(s, t), tokens[t].state # "absent",
         \A u \in Tokens : tokens[u].state # "absent" =>
           tokens'[u].state # "absent" /\ tokens'[u].login = tokens[u].login
  PROVE  Follows(s, t)'
BY DEF Follows

\* A step that changes at most the state and expiry of rows, and of the requests
\* one that is not then about to revoke.
LEMMA RowsKeep ==
  ASSUME ChainInv, tokens' \in [Tokens -> Token],
         \A t \in Tokens : SameButRevoked(tokens'[t], tokens[t]),
         account' \in [active : BOOLEAN, password : 0 .. MaxPasswords],
         requests' \in [Slots -> Request],
         \A r \in Slots :
           \/ requests'[r] = requests[r]
           \/ requests'[r].pc \notin {"refresh.user", "refresh.issue", "refresh.revoke"}
           \/ /\ requests'[r].pc \in {"refresh.user", "refresh.issue"}
              /\ requests'[r].token \in Tokens /\ tokens[requests'[r].token].state # "absent"
  PROVE  ChainInv' /\ Keeps
<1>1. \A t \in Tokens : /\ tokens'[t].login = tokens[t].login
                        /\ tokens'[t].replacedBy = tokens[t].replacedBy
                        /\ tokens[t].state # "absent" <=> tokens'[t].state # "absent"
                        /\ tokens[t].state = "revoked" => tokens'[t].state = "revoked"
  BY DEF SameButRevoked
<1>2. \A s, t \in Tokens : Follows(s, t) => Follows(s, t)'
  BY <1>1 DEF Follows
<1>3. LinksStayInLogin'
  BY <1>1, <1>2 DEF ChainInv, LinksStayInLogin, Follows
<1>4. RotationsInFlight'
  BY <1>1, <1>2 DEF ChainInv, RotationsInFlight, Follows
<1> QED BY <1>1, <1>3, <1>4 DEF ChainInv, TypeOK, Keeps

LEMMA OnlyRequest ==
  ASSUME ChainInv, NEW r \in Slots, NEW q \in Request, Goes(r, q), UNCHANGED tokens,
         account' \in [active : BOOLEAN, password : 0 .. MaxPasswords],
         \/ q.pc \notin {"refresh.user", "refresh.issue", "refresh.revoke"}
         \/ /\ q.pc \in {"refresh.user", "refresh.issue"}
            /\ q.token \in Tokens /\ tokens[q.token].state # "absent"
  PROVE  ChainInv' /\ Keeps
<1>1. requests' \in [Slots -> Request] /\ requests'[r] = q
      /\ \A s \in Slots \ {r} : requests'[s] = requests[s]
  BY DEF Goes, ChainInv, TypeOK
<1>2. tokens' \in [Tokens -> Token] /\ \A t \in Tokens : SameButRevoked(tokens'[t], tokens[t])
  BY DEF ChainInv, TypeOK, SameButRevoked
<1> QED BY <1>1, <1>2, RowsKeep

\* ... and one that changes rows as well, and ends the request or none.
LEMMA RowsAndEnd ==
  ASSUME ChainInv, tokens' \in [Tokens -> Token],
         \A t \in Tokens : SameButRevoked(tokens'[t], tokens[t]),
         account' \in [active : BOOLEAN, password : 0 .. MaxPasswords],
         NEW r \in Slots, Ends(r) \/ UNCHANGED requests
  PROVE  ChainInv' /\ Keeps
<1>1. requests' \in [Slots -> Request]
      /\ \A s \in Slots : requests'[s] = requests[s] \/ requests'[s].pc = "idle"
  BY IdleType DEF Ends, Goes, ChainInv, TypeOK
<1> QED BY <1>1, RowsKeep

LEMMA IssueKeeps ==
  ASSUME ChainInv, NEW r \in Slots, NEW t \in Tokens, LoginIssue(r, t) \/ RefreshIssue(r, t)
  PROVE  ChainInv' /\ Keeps
<1>1. PICK login \in Tokens, password \in 0 .. MaxPasswords, q \in Request :
        /\ Inserted(t, login, password) /\ Goes(r, q)
        /\ \/ q.pc = "idle"
           \/ /\ q.pc = "refresh.revoke" /\ q.new = t /\ q.token \in Tokens
              /\ tokens[q.token].state # "absent" /\ login = tokens[q.token].login
  <2>1. CASE LoginIssue(r, t)
    <3>1. requests[r].password \in 0 .. MaxPasswords
      BY DEF ChainInv, TypeOK, Request
    <3> QED BY <2>1, <3>1, IdleType DEF LoginIssue, Ends
  <2>2. CASE RefreshIssue(r, t)
    <3> DEFINE old == requests[r]
               q == [old EXCEPT !.pc = "refresh.revoke", !.new = t]
    <3>1. old \in Request /\ old.pc = "refresh.issue" /\ old.token \in Tokens
          /\ tokens[old.token].state # "absent" /\ tokens[old.token].login \in Tokens
          /\ tokens[old.token].password \in 0 .. MaxPasswords
      BY <2>2 DEF RefreshIssue, ChainInv, TypeOK, RotationsInFlight, LinksStayInLogin, Token
    <3>2. Inserted(t, tokens[old.token].login, tokens[old.token].password) /\ Goes(r, q)
      BY <2>2 DEF RefreshIssue
    <3> HIDE DEF old
    <3>3. q \in Request /\ q.pc = "refresh.revoke" /\ q.new = t /\ q.token = old.token
      BY <3>1 DEF Request, Pc
    <3> QED BY <3>1, <3>2, <3>3
  <2> QED BY <2>1, <2>2
<1>2. /\ tokens' \in [Tokens -> Token] /\ Keeps
      /\ tokens'[t].state = "live" /\ tokens'[t].login = login /\ tokens'[t].replacedBy = NoToken
      /\ \A s \in Tokens \ {t} : tokens'[s] = tokens[s]
      /\ tokens[t].state = "absent"
  BY <1>1, InsertedKeeps DEF ChainInv, Inserted
<1>3. account' = account
  BY DEF LoginIssue, RefreshIssue
<1>4. TypeOK'
  BY <1>1, <1>2, <1>3 DEF ChainInv, TypeOK, Goes
<1>5. \A s, u \in Tokens : Follows(s, u) /\ tokens[u].state # "absent" => Follows(s, u)'
  BY <1>2 DEF Follows
<1>6. LinksStayInLogin'
  <2> SUFFICES ASSUME NEW u \in Tokens
               PROVE  /\ tokens'[u].state # "absent" => tokens'[u].login \in Tokens
                      /\ tokens'[u].replacedBy # NoToken =>
                           tokens'[u].state = "revoked" /\ Follows(tokens[u].replacedBy, u)'
    BY DEF LinksStayInLogin
  <2>1. CASE u = t
    BY <1>1, <1>2, <2>1
  <2>2. CASE u # t
    BY <1>2, <1>5, <2>2 DEF ChainInv, LinksStayInLogin, Follows
  <2> QED BY <2>1, <2>2
<1>7. RotationsInFlight'
  <2>1. requests'[r] = q /\ \A s \in Slots \ {r} : requests'[s] = requests[s]
    BY <1>1 DEF Goes, ChainInv, TypeOK
  <2>2. q.pc = "refresh.revoke" => /\ q.token \in Tokens /\ tokens'[q.token].state # "absent"
                                   /\ Follows(q.new, q.token)'
    BY <1>1, <1>2 DEF Follows
  <2>3. \A u \in Tokens : tokens[u].state # "absent" => tokens'[u].state # "absent"
    BY <1>2
  <2>4. ASSUME NEW s \in Slots \ {r}
        PROVE  /\ requests'[s].pc \in {"refresh.user", "refresh.issue", "refresh.revoke"} =>
                    requests'[s].token \in Tokens /\ tokens'[requests'[s].token].state # "absent"
               /\ requests'[s].pc = "refresh.revoke" => Follows(requests[s].new, requests[s].token)'
    BY <1>5, <2>1, <2>3 DEF ChainInv, RotationsInFlight, Follows
  <2>5. q.pc \in {"idle", "refresh.revoke"}
    BY <1>1
  <2> QED BY <2>1, <2>2, <2>4, <2>5 DEF RotationsInFlight
<1> QED BY <1>2, <1>4, <1>6, <1>7 DEF ChainInv

LEMMA RevokeKeeps ==
  ASSUME ChainInv, NEW r \in Slots, RefreshRevoke(r)
  PROVE  ChainInv' /\ Keeps
<1> DEFINE t == requests[r].token
           new == requests[r].new
<1>1. t \in Tokens /\ new \in Tokens /\ tokens[t].state # "absent" /\ Follows(new, t)
  BY DEF RefreshRevoke, ChainInv, RotationsInFlight, Follows
<1>2. Replaced(t, new) /\ Ends(r) /\ account' = account
  BY DEF RefreshRevoke
<1> HIDE DEF t, new
<1>3. /\ tokens' \in [Tokens -> Token] /\ Keeps
      /\ tokens'[t].state = "revoked" /\ tokens'[t].replacedBy = new
      /\ tokens'[t].login = tokens[t].login
      /\ \A s \in Tokens \ {t} : tokens'[s] = tokens[s]
  BY <1>1, <1>2, ReplacedKeeps DEF ChainInv
<1>4. \A u \in Tokens : /\ tokens'[u].login = tokens[u].login
                        /\ tokens[u].state # "absent" <=> tokens'[u].state # "absent"
  BY <1>1, <1>3
<1>5. \A s, u \in Tokens : Follows(s, u) => Follows(s, u)'
  BY <1>4 DEF Follows
<1>6. requests' \in [Slots -> Request]
      /\ \A s \in Slots : requests'[s] = requests[s] \/ requests'[s].pc = "idle"
  BY <1>2, IdleType DEF Ends, Goes, ChainInv, TypeOK
<1>7. LinksStayInLogin'
  BY <1>1, <1>3, <1>4, <1>5 DEF ChainInv, LinksStayInLogin, Follows
<1>8. RotationsInFlight'
  BY <1>4, <1>5, <1>6 DEF ChainInv, RotationsInFlight, Follows
<1> QED BY <1>2, <1>3, <1>6, <1>7, <1>8 DEF ChainInv, TypeOK

LEMMA ReadKeeps ==
  ASSUME ChainInv, NEW r \in Slots,
         \/ LoginBegin(r) \/ RefreshUser(r) \/ ChangePasswordBegin(r) \/ ChangePasswordWrite(r)
         \/ Interrupted(r) \/ \E t \in Tokens : RefreshBegin(r, t)
  PROVE  ChainInv' /\ Keeps
<1>1. tokens' = tokens
  <2>1. ASSUME NEW t \in Tokens, RefreshBegin(r, t) PROVE tokens' = tokens
    BY <2>1 DEF RefreshBegin
  <2> QED
    BY <2>1 DEF LoginBegin, RefreshUser, ChangePasswordBegin, ChangePasswordWrite, Interrupted
<1>2. account' \in [active : BOOLEAN, password : 0 .. MaxPasswords]
  <2>0. account \in [active : BOOLEAN, password : 0 .. MaxPasswords]
    BY DEF ChainInv, TypeOK
  <2>1. CASE ChangePasswordWrite(r)
    BY <2>0, <2>1, SessionsAssumption DEF ChangePasswordWrite
  <2>2. ASSUME NEW t \in Tokens, RefreshBegin(r, t) PROVE account' = account
    BY <2>2 DEF RefreshBegin
  <2> QED
    BY <2>0, <2>1, <2>2 DEF LoginBegin, RefreshUser, ChangePasswordBegin, Interrupted
<1>3. CASE LoginBegin(r)
  <2>1. [Idle EXCEPT !.pc = "login.issue", !.password = account.password] \in Request
    BY IdleType DEF Idle, Request, Pc, ChainInv, TypeOK
  <2>2. [Idle EXCEPT !.pc = "login.issue", !.password = account.password].pc = "login.issue"
    BY DEF Idle
  <2> QED BY <1>1, <1>2, <1>3, <2>1, <2>2, OnlyRequest DEF LoginBegin
<1>4. CASE ChangePasswordBegin(r) \/ ChangePasswordWrite(r)
  <2>1. \A pc \in {"password.write", "password.revoke"} :
          [Idle EXCEPT !.pc = pc] \in Request /\ [Idle EXCEPT !.pc = pc].pc = pc
    BY IdleType DEF Idle, Request, Pc
  <2>2. requests[r] \in Request
    BY DEF ChainInv, TypeOK
  <2>3. [requests[r] EXCEPT !.pc = "password.revoke"] \in Request
        /\ [requests[r] EXCEPT !.pc = "password.revoke"].pc = "password.revoke"
    BY <2>2 DEF Request, Pc
  <2> QED BY <1>1, <1>2, <1>4, <2>1, <2>3, OnlyRequest DEF ChangePasswordBegin, ChangePasswordWrite
<1>5. CASE Interrupted(r)
  BY <1>1, <1>2, <1>5, IdleType, OnlyRequest DEF Interrupted, Ends
<1>6. CASE RefreshUser(r)
  <2>1. requests[r] \in Request /\ requests[r].pc = "refresh.user" /\ requests[r].token \in Tokens
        /\ tokens[requests[r].token].state # "absent"
    BY <1>6 DEF RefreshUser, ChainInv, TypeOK, RotationsInFlight
  <2>2. /\ [requests[r] EXCEPT !.pc = "refresh.issue"] \in Request
        /\ [requests[r] EXCEPT !.pc = "refresh.issue"].pc = "refresh.issue"
        /\ [requests[r] EXCEPT !.pc = "refresh.issue"].token = requests[r].token
    BY <2>1 DEF Request, Pc
  <2> QED BY <1>1, <1>2, <1>6, <2>1, <2>2, IdleType, OnlyRequest DEF RefreshUser, Ends
<1>7. ASSUME NEW t \in Tokens, RefreshBegin(r, t)
      PROVE  ChainInv' /\ Keeps
  <2>1. \A pc \in {"theft.revoke", "refresh.user"} :
          /\ [Idle EXCEPT !.pc = pc, !.token = t] \in Request
          /\ [Idle EXCEPT !.pc = pc, !.token = t].pc = pc
          /\ [Idle EXCEPT !.pc = pc, !.token = t].token = t
    BY IdleType DEF Idle, Request, Pc
  <2> QED BY <1>1, <1>2, <1>7, <2>1, OnlyRequest DEF RefreshBegin
<1> QED BY <1>3, <1>4, <1>5, <1>6, <1>7

LEMMA ChainStep == ChainInv /\ [Next]_vars => ChainInv' /\ Keeps
<1> SUFFICES ASSUME ChainInv, [Next]_vars PROVE ChainInv' /\ Keeps
  OBVIOUS
<1>1. account \in [active : BOOLEAN, password : 0 .. MaxPasswords] /\ TypeOK
  BY DEF ChainInv, TypeOK
<1>2. ASSUME NEW r \in Slots,
             \/ TheftRevoke(r) \/ LogoutAll(r) \/ ChangePasswordRevoke(r) \/ Deactivate(r)
      PROVE  ChainInv' /\ Keeps
  <2>1. RevokedAll /\ (Ends(r) \/ UNCHANGED requests)
    BY <1>2 DEF TheftRevoke, LogoutAll, ChangePasswordRevoke, Deactivate
  <2>2. account' \in [active : BOOLEAN, password : 0 .. MaxPasswords]
    BY <1>1, <1>2 DEF TheftRevoke, LogoutAll, ChangePasswordRevoke, Deactivate
  <2> QED BY <1>1, <2>1, <2>2, RevokedAllKeeps, RowsAndEnd
<1>3. ASSUME NEW r \in Slots, NEW t \in Tokens, Logout(r, t)
      PROVE  ChainInv' /\ Keeps
  BY <1>1, <1>3, OneRowKeeps, RowsAndEnd DEF Logout
<1>4. ASSUME NEW t \in Tokens, Expire(t)
      PROVE  ChainInv' /\ Keeps
  <2>1. tokens' \in [Tokens -> Token] /\ \A s \in Tokens : SameButRevoked(tokens'[s], tokens[s])
    BY <1>1, <1>4, OneRowKeeps DEF Expire
  <2> QED BY <1>1, <1>4, <2>1, RowsKeep DEF Expire, TypeOK
<1>5. CASE UNCHANGED vars
  <2>1. tokens' \in [Tokens -> Token] /\ \A s \in Tokens : SameButRevoked(tokens'[s], tokens[s])
    BY <1>1, <1>5 DEF vars, TypeOK, SameButRevoked
  <2> QED BY <1>1, <1>5, <2>1, RowsKeep DEF vars, TypeOK
<1> QED BY <1>2, <1>3, <1>4, <1>5, IssueKeeps, RevokeKeeps, ReadKeeps DEF Next, Serve

\* The rotation chain stays within one sign-in, however rotations of a token
\* race, and its links start at revoked tokens.
THEOREM ChainInvariant == Spec => []ChainInv
<1>1. Init => ChainInv
  BY TypeInit DEF Init, ChainInv, LinksStayInLogin, RotationsInFlight, AbsentToken, Idle
<1> QED BY <1>1, ChainStep, PTL DEF Spec

\* The types of the refresh tokens, the account and the requests.
THEOREM SessionsTyped == Spec => []TypeOK
<1>1. ChainInv => TypeOK
  BY DEF ChainInv
<1> QED BY <1>1, ChainInvariant, PTL

\* A revoked token is never live again, whatever is in flight.
THEOREM RevokedStays == Spec => RevokedForGood
<1>1. ChainInv /\ [Next]_vars =>
        [\A t \in Tokens : tokens[t].state = "revoked" => tokens'[t].state = "revoked"]_vars
  BY ChainStep DEF Keeps
<1> QED BY <1>1, ChainInvariant, PTL DEF Spec, RevokedForGood

-----------------------------------------------------------------------------
(* Chains never close: tokens can be ranked by the order they were issued   *)
(* in, and every link, made or about to be, leads to a later one.           *)

Ranks(rank, n) ==
  /\ \A t \in Tokens : tokens[t].state # "absent" => rank[t] < n
  /\ \A t \in Tokens : tokens[t].replacedBy # NoToken => rank[t] < rank[tokens[t].replacedBy]
  /\ \A r \in Slots : requests[r].pc = "refresh.revoke" =>
       rank[requests[r].token] < rank[requests[r].new]

OrderInv == ChainInv /\ \E rank \in [Tokens -> Nat], n \in Nat : Ranks(rank, n)

\* A step that issues no token: it makes at most a link it was about to make.
LEMMA RanksKept ==
  ASSUME NEW rank \in [Tokens -> Nat], NEW n \in Nat, Ranks(rank, n),
         \A t \in Tokens :
           /\ tokens'[t].state # "absent" => tokens[t].state # "absent"
           /\ \/ tokens'[t].replacedBy = tokens[t].replacedBy
              \/ \E r \in Slots : /\ requests[r].pc = "refresh.revoke" /\ requests[r].token = t
                                  /\ requests[r].new = tokens'[t].replacedBy,
         \A r \in Slots : requests'[r] = requests[r] \/ requests'[r].pc # "refresh.revoke"
  PROVE  Ranks(rank, n)'
BY DEF Ranks

\* The token issued is later than any there is.
LEMMA IssueRanks ==
  ASSUME ChainInv, NEW rank \in [Tokens -> Nat], NEW n \in Nat, Ranks(rank, n),
         NEW r \in Slots, NEW t \in Tokens, LoginIssue(r, t) \/ RefreshIssue(r, t)
  PROVE  Ranks([rank EXCEPT ![t] = n], n + 1)'
<1> DEFINE later == [rank EXCEPT ![t] = n]
<1>1. /\ tokens[t].state = "absent"
      /\ tokens'[t].state = "live" /\ tokens'[t].replacedBy = NoToken
      /\ \A s \in Tokens \ {t} : tokens'[s] = tokens[s]
  BY DEF LoginIssue, RefreshIssue, Inserted, AbsentToken, ChainInv, TypeOK
<1>2. later[t] = n /\ \A s \in Tokens \ {t} : later[s] = rank[s] /\ rank[s] \in Nat
  OBVIOUS
<1>3. \A s \in Tokens : tokens'[s].state # "absent" => later[s] < n + 1
  BY <1>1, <1>2 DEF Ranks
<1>4. ASSUME NEW s \in Tokens, tokens'[s].replacedBy # NoToken
      PROVE  later[s] < later[tokens'[s].replacedBy]
  <2>1. s # t /\ tokens'[s].replacedBy = tokens[s].replacedBy
    BY <1>1, <1>4
  <2>2. tokens[s].replacedBy \in Tokens /\ tokens[s].replacedBy # t
    BY <1>1, <1>4, <2>1 DEF ChainInv, LinksStayInLogin, Follows
  <2> QED BY <1>2, <1>4, <2>1, <2>2 DEF Ranks
<1>5. ASSUME NEW s \in Slots, requests'[s].pc = "refresh.revoke"
      PROVE  later[requests'[s].token] < later[requests'[s].new]
  <2>1. CASE requests'[s] = requests[s]
    <3>1. /\ requests[s].pc = "refresh.revoke"
          /\ requests[s].token \in Tokens \ {t} /\ requests[s].new \in Tokens \ {t}
      BY <1>1, <1>5, <2>1 DEF ChainInv, RotationsInFlight, Follows
    <3> QED BY <1>2, <2>1, <3>1 DEF Ranks
  <2>2. CASE requests'[s] # requests[s]
    <3>1. s = r /\ requests'[r].pc = "refresh.revoke"
      BY <1>5, <2>2 DEF LoginIssue, RefreshIssue, Ends, Goes, ChainInv, TypeOK
    <3>2. RefreshIssue(r, t)
      BY <3>1, IdleType DEF LoginIssue, Ends, Goes, ChainInv, TypeOK
    <3>3. /\ requests'[r].new = t /\ requests'[r].token = requests[r].token
          /\ requests[r].token \in Tokens \ {t} /\ tokens[requests[r].token].state # "absent"
      BY <1>1, <3>2
      DEF RefreshIssue, Goes, ChainInv, TypeOK, Request, RotationsInFlight
    <3> QED BY <1>2, <3>1, <3>3 DEF Ranks
  <2> QED BY <2>1, <2>2
<1> QED BY <1>3, <1>4, <1>5 DEF Ranks

LEMMA OrderStep == OrderInv /\ [Next]_vars => OrderInv'
<1> SUFFICES ASSUME OrderInv, [Next]_vars PROVE OrderInv'
  OBVIOUS
<1>1. ChainInv /\ ChainInv' /\ TypeOK
  BY ChainStep DEF OrderInv, ChainInv
<1>2. PICK rank \in [Tokens -> Nat], n \in Nat : Ranks(rank, n)
  BY DEF OrderInv
<1>3. ASSUME NEW r \in Slots, NEW t \in Tokens, LoginIssue(r, t) \/ RefreshIssue(r, t)
      PROVE  OrderInv'
  <2>1. Ranks([rank EXCEPT ![t] = n], n + 1)'
    BY <1>1, <1>2, <1>3, IssueRanks
  <2>2. [rank EXCEPT ![t] = n] \in [Tokens -> Nat] /\ n + 1 \in Nat
    OBVIOUS
  <2> QED BY <1>1, <2>1, <2>2 DEF OrderInv
<1>4. ASSUME \/ UNCHANGED vars
             \/ \E r \in Slots :
                  \/ LoginBegin(r) \/ RefreshUser(r) \/ RefreshRevoke(r) \/ TheftRevoke(r)
                  \/ \E t \in Tokens : RefreshBegin(r, t) \/ Logout(r, t)
                  \/ LogoutAll(r) \/ Deactivate(r)
                  \/ ChangePasswordBegin(r) \/ ChangePasswordWrite(r) \/ ChangePasswordRevoke(r)
                  \/ Interrupted(r)
             \/ \E t \in Tokens : Expire(t)
      PROVE  OrderInv'
  <2>1. \A t \in Tokens :
          /\ tokens'[t].state # "absent" => tokens[t].state # "absent"
          /\ \/ tokens'[t].replacedBy = tokens[t].replacedBy
             \/ \E r \in Slots : /\ requests[r].pc = "refresh.revoke" /\ requests[r].token = t
                                 /\ requests[r].new = tokens'[t].replacedBy
    <3>1. CASE tokens' = tokens
      BY <3>1
    <3>2. ASSUME RevokedAll PROVE \A t \in Tokens : SameButRevoked(tokens'[t], tokens[t])
      BY <1>1, <3>2, RevokedAllKeeps
    <3>3. ASSUME NEW t \in Tokens, Expire(t) \/ \E r \in Slots : Logout(r, t)
          PROVE  \A s \in Tokens : SameButRevoked(tokens'[s], tokens[s])
      BY <1>1, <3>3, OneRowKeeps DEF Expire, Logout
    <3>4. CASE \A t \in Tokens : SameButRevoked(tokens'[t], tokens[t])
      BY <3>4 DEF SameButRevoked
    <3>5. ASSUME NEW r \in Slots, RefreshRevoke(r)
          PROVE  \A t \in Tokens :
                   /\ tokens'[t].state # "absent" => tokens[t].state # "absent"
                   /\ \/ tokens'[t].replacedBy = tokens[t].replacedBy
                      \/ /\ requests[r].pc = "refresh.revoke" /\ requests[r].token = t
                         /\ requests[r].new = tokens'[t].replacedBy
      <4>1. /\ requests[r].token \in Tokens /\ requests[r].new \in Tokens
            /\ tokens[requests[r].token].state # "absent" /\ requests[r].pc = "refresh.revoke"
            /\ Replaced(requests[r].token, requests[r].new)
        BY <1>1, <3>5 DEF RefreshRevoke, ChainInv, RotationsInFlight, Follows
      <4>2. /\ tokens'[requests[r].token].replacedBy = requests[r].new
            /\ \A s \in Tokens \ {requests[r].token} : tokens'[s] = tokens[s]
        BY <1>1, <4>1, ReplacedKeeps
      <4> QED BY <4>1, <4>2
    <3>6. \/ tokens' = tokens \/ RevokedAll \/ \E r \in Slots : RefreshRevoke(r)
          \/ \E t \in Tokens : Expire(t) \/ \E r \in Slots : Logout(r, t)
      BY <1>4 DEF vars, LoginBegin, RefreshUser, TheftRevoke, RefreshBegin, LogoutAll, Deactivate,
         ChangePasswordBegin, ChangePasswordWrite, ChangePasswordRevoke, Interrupted
    <3> QED BY <3>1, <3>2, <3>3, <3>4, <3>5, <3>6
  <2>2. \A r \in Slots : requests'[r] = requests[r] \/ requests'[r].pc # "refresh.revoke"
    <3>1. ASSUME NEW r \in Slots, NEW q, Goes(r, q), q.pc # "refresh.revoke"
          PROVE  \A s \in Slots : requests'[s] = requests[s] \/ requests'[s].pc # "refresh.revoke"
      BY <1>1, <3>1 DEF Goes, TypeOK
    <3>2. ASSUME NEW r \in Slots, Ends(r)
          PROVE  \A s \in Slots : requests'[s] = requests[s] \/ requests'[s].pc # "refresh.revoke"
      BY <3>1, <3>2, IdleType DEF Ends
    <3>3. CASE UNCHANGED requests
      BY <3>3
    <3>4. ASSUME NEW r \in Slots,
                 \/ LoginBegin(r) \/ ChangePasswordBegin(r) \/ ChangePasswordWrite(r)
                 \/ \E t \in Tokens : RefreshBegin(r, t)
          PROVE  \A s \in Slots : requests'[s] = requests[s] \/ requests'[s].pc # "refresh.revoke"
      BY <3>1, <3>4
      DEF LoginBegin, ChangePasswordBegin, ChangePasswordWrite, RefreshBegin, Idle
    <3>5. ASSUME NEW r \in Slots, RefreshUser(r)
          PROVE  \A s \in Slots : requests'[s] = requests[s] \/ requests'[s].pc # "refresh.revoke"
      <4>1. [requests[r] EXCEPT !.pc = "refresh.issue"].pc # "refresh.revoke"
        BY <1>1 DEF TypeOK, Request
      <4> QED BY <3>1, <3>2, <3>5, <4>1 DEF RefreshUser
    <3> QED BY <1>4, <3>2, <3>3, <3>4, <3>5
        DEF vars, RefreshRevoke, TheftRevoke, Logout, LogoutAll, Deactivate, ChangePasswordRevoke,
            Interrupted, Expire
  <2>3. Ranks(rank, n)'
    BY <1>2, <2>1, <2>2, RanksKept
  <2> QED BY <1>1, <2>3 DEF OrderInv
<1> QED BY <1>3, <1>4 DEF Next, Serve

\* However rotations of a token race, following replacedByTokenId never returns
\* to where it began, stays within one sign-in, and starts at revoked tokens.
THEOREM RotationsChain == Spec => []RotationChains
<1>1. Init => OrderInv
  <2> SUFFICES ASSUME Init PROVE OrderInv
    OBVIOUS
  <2>1. ChainInv
    BY TypeInit DEF Init, ChainInv, LinksStayInLogin, RotationsInFlight, AbsentToken, Idle
  <2>2. Ranks([t \in Tokens |-> 0], 0)
    BY DEF Init, AbsentToken, Idle, Ranks
  <2> QED BY <2>1, <2>2 DEF OrderInv
<1>2. OrderInv => RotationChains
  <2> SUFFICES ASSUME OrderInv, NEW t \in Tokens
               PROVE  /\ tokens[t].replacedBy # NoToken => tokens[t].state = "revoked"
                      /\ t \notin Successors(t)
                      /\ \A s \in Successors(t) :
                           tokens[s].state # "absent" /\ tokens[s].login = tokens[t].login
    BY DEF RotationChains
  <2>1. PICK rank \in [Tokens -> Nat], n \in Nat : Ranks(rank, n)
    BY DEF OrderInv
  <2> DEFINE later == {s \in Tokens : /\ rank[t] < rank[s] /\ tokens[s].state # "absent"
                                      /\ tokens[s].login = tokens[t].login}
  <2>2. HoldsSuccessors(t, later)
    <3> SUFFICES ASSUME NEW s \in later \cup {t}, tokens[s].replacedBy # NoToken
                 PROVE  tokens[s].replacedBy \in later
      BY DEF HoldsSuccessors
    <3>1. /\ s \in Tokens /\ Follows(tokens[s].replacedBy, s)
          /\ rank[s] < rank[tokens[s].replacedBy] /\ rank[t] <= rank[s]
          /\ tokens[s].login = tokens[t].login
      BY <2>1 DEF OrderInv, ChainInv, LinksStayInLogin, Ranks
    <3> QED BY <3>1 DEF Follows
  <2>3. Successors(t) \subseteq later
    BY <2>2 DEF Successors
  <2>4. t \notin later
    OBVIOUS
  <2>5. tokens[t].replacedBy # NoToken => tokens[t].state = "revoked"
    BY DEF OrderInv, ChainInv, LinksStayInLogin
  <2> QED BY <2>3, <2>4, <2>5
<1> QED BY <1>1, <1>2, OrderStep, PTL DEF Spec


-----------------------------------------------------------------------------
(* Requests served one at a time and to their end.                          *)

\* While a request is in flight nothing else is, so what it has read is still so.
OneAtATime ==
  /\ \A r, s \in Slots : ~Free(r) /\ ~Free(s) => r = s
  /\ \A r \in Slots : LET q == requests[r] IN
       /\ q.pc = "login.issue" => q.password = account.password
       /\ q.pc \in {"refresh.user", "refresh.issue"} => q.token \in LiveTokens

\* The tokens of a sign-in that are live: at most one, but for a rotation's two.
LivePairs ==
  \A s, t \in LiveTokens : s # t /\ tokens[s].login = tokens[t].login =>
    \E r \in Slots : /\ requests[r].pc = "refresh.revoke"
                     /\ {s, t} = {requests[r].token, requests[r].new}

LoginsKnown == \A t \in Tokens : tokens[t].state # "absent" => tokens[tokens[t].login].state # "absent"

Serial == OneAtATime /\ LivePairs /\ PasswordEndsSessions

SerialInv ==
  /\ ChainInv
  /\ LoginsKnown
  /\ ~disturbed => Serial

LEMMA MCStep == MCNext => Next
BY DEF MCNext, Next

\* Every token has a known login, which takes no serving in turn.
LEMMA LoginsStayKnown == ChainInv /\ LoginsKnown /\ [Next]_vars => LoginsKnown'
<1> SUFFICES ASSUME ChainInv, LoginsKnown, [Next]_vars PROVE LoginsKnown'
  OBVIOUS
<1>1. TypeOK /\ LinksStayInLogin /\ RotationsInFlight
  BY DEF ChainInv
<1>2. ASSUME NEW r \in Slots, NEW t \in Tokens, LoginIssue(r, t) \/ RefreshIssue(r, t)
      PROVE  LoginsKnown'
  <2>1. PICK login \in Tokens :
          /\ tokens'[t].state = "live" /\ tokens'[t].login = login
          /\ \A s \in Tokens \ {t} : tokens'[s] = tokens[s]
          /\ tokens[t].state = "absent"
          /\ login = t \/ tokens[login].state # "absent"
    <3>1. CASE LoginIssue(r, t)
      BY <1>1, <3>1 DEF LoginIssue, Inserted, AbsentToken, TypeOK
    <3>2. CASE RefreshIssue(r, t)
      <4> DEFINE old == requests[r].token
      <4>1. /\ old \in Tokens /\ tokens[old].state # "absent" /\ tokens[old].login \in Tokens
            /\ tokens[tokens[old].login].state # "absent"
        BY <1>1, <3>2 DEF RefreshIssue, RotationsInFlight, LinksStayInLogin, LoginsKnown
      <4>2. Inserted(t, tokens[old].login, tokens[old].password)
        BY <3>2 DEF RefreshIssue
      <4> QED BY <1>1, <4>1, <4>2 DEF Inserted, AbsentToken, TypeOK
    <3> QED BY <1>2, <3>1, <3>2
  <2> QED BY <1>1, <2>1 DEF LoginsKnown, LinksStayInLogin
<1>3. ASSUME \A t \in Tokens : /\ tokens'[t].login = tokens[t].login
                               /\ tokens'[t].state # "absent" <=> tokens[t].state # "absent"
      PROVE  LoginsKnown'
  BY <1>1, <1>3 DEF LoginsKnown, LinksStayInLogin
<1>4. ASSUME \A t \in Tokens : SameButRevoked(tokens'[t], tokens[t]) PROVE LoginsKnown'
  BY <1>3, <1>4 DEF SameButRevoked
<1>5. ASSUME RevokedAll PROVE LoginsKnown'
  BY <1>1, <1>4, <1>5, RevokedAllKeeps
<1>6. ASSUME NEW t \in Tokens, Expire(t) \/ \E r \in Slots : Logout(r, t) PROVE LoginsKnown'
  BY <1>1, <1>4, <1>6, OneRowKeeps DEF Expire, Logout
<1>7. ASSUME NEW r \in Slots, RefreshRevoke(r) PROVE LoginsKnown'
  <2> DEFINE t == requests[r].token
             new == requests[r].new
  <2>1. t \in Tokens /\ new \in Tokens /\ tokens[t].state # "absent" /\ Replaced(t, new)
    BY <1>1, <1>7 DEF RefreshRevoke, RotationsInFlight, Follows
  <2> HIDE DEF t, new
  <2>2. /\ tokens'[t].state = "revoked" /\ tokens'[t].login = tokens[t].login
        /\ \A s \in Tokens \ {t} : tokens'[s] = tokens[s]
    BY <1>1, <2>1, ReplacedKeeps
  <2> QED BY <1>3, <2>1, <2>2
<1>8. CASE UNCHANGED tokens
  BY <1>3, <1>8
<1> QED BY <1>2, <1>5, <1>6, <1>7, <1>8
    DEF Next, Serve, vars, LoginBegin, RefreshUser, TheftRevoke, RefreshBegin, LogoutAll, Deactivate,
        ChangePasswordBegin, ChangePasswordWrite, ChangePasswordRevoke, Interrupted


\* What OneAtATime, LivePairs and PasswordEndsSessions say when only r is in
\* flight, with q as its record.
OnlyInFlight(r, q) ==
  /\ q = requests[r]
  /\ \A s \in Slots \ {r} : Free(s)
  /\ q.pc = "login.issue" => q.password = account.password
  /\ q.pc \in {"refresh.user", "refresh.issue"} => q.token \in LiveTokens
  /\ \A s, t \in LiveTokens : s # t /\ tokens[s].login = tokens[t].login =>
       q.pc = "refresh.revoke" /\ {s, t} = {q.token, q.new}
  /\ q.pc # "password.revoke" => \A t \in LiveTokens : tokens[t].password = account.password

LEMMA OnlyInFlightIsSerial ==
  ASSUME NEW r \in Slots, OnlyInFlight(r, requests[r])'
  PROVE  Serial'
<1>1. \A s \in Slots : requests'[s].pc # "idle" => s = r
  BY DEF OnlyInFlight, Free
<1>2. OneAtATime'
  BY <1>1 DEF OnlyInFlight, OneAtATime, Free
<1>3. LivePairs'
  BY <1>1 DEF OnlyInFlight, LivePairs
<1>4. PasswordEndsSessions'
  BY <1>1 DEF OnlyInFlight, PasswordEndsSessions
<1> QED BY <1>2, <1>3, <1>4 DEF Serial

LEMMA SerialIsOnlyInFlight ==
  ASSUME Serial, NEW r \in Slots, \A s \in Slots \ {r} : Free(s)
  PROVE  OnlyInFlight(r, requests[r])
<1>1. \A s \in Slots : requests[s].pc # "idle" => s = r
  BY DEF Free
<1> QED BY <1>1 DEF OnlyInFlight, Serial, OneAtATime, LivePairs, PasswordEndsSessions

\* A step of the one request in flight, which leaves the record q.
LEMMA OnlyStep ==
  ASSUME NEW r \in Slots, \A s \in Slots \ {r} : Free(s), requests \in [Slots -> Request],
         NEW q, Goes(r, q),
         q.pc = "login.issue" => q.password = account'.password,
         q.pc \in {"refresh.user", "refresh.issue"} => q.token \in LiveTokens',
         \A s, t \in LiveTokens' : s # t /\ tokens'[s].login = tokens'[t].login =>
           q.pc = "refresh.revoke" /\ {s, t} = {q.token, q.new},
         q.pc # "password.revoke" => \A t \in LiveTokens' : tokens'[t].password = account'.password
  PROVE  Serial'
<1>1. requests'[r] = q /\ \A s \in Slots \ {r} : requests'[s] = requests[s]
  BY DEF Goes
<1>2. OnlyInFlight(r, requests[r])'
  BY <1>1 DEF OnlyInFlight, Free
<1> QED BY <1>2, OnlyInFlightIsSerial

\* A request that reads, or is cut short before it has written anything.
LEMMA SerialRead ==
  ASSUME TypeOK, NEW r \in Slots, OnlyInFlight(r, requests[r]),
         \/ LoginBegin(r) \/ RefreshUser(r) \/ ChangePasswordBegin(r) \/ ChangePasswordWrite(r)
         \/ \E t \in Tokens : RefreshBegin(r, t)
         \/ Interrupted(r) /\ requests[r].pc = "refresh.user"
  PROVE  Serial'
<1>1. /\ requests \in [Slots -> Request] /\ \A s \in Slots \ {r} : Free(s)
      /\ requests[r].pc # "refresh.revoke" /\ requests[r].pc # "password.revoke"
  BY DEF TypeOK, OnlyInFlight, LoginBegin, RefreshUser, ChangePasswordBegin, ChangePasswordWrite,
         RefreshBegin, Interrupted, Free
<1>2. /\ \A s, t \in LiveTokens : tokens[s].login = tokens[t].login => s = t
      /\ \A t \in LiveTokens : tokens[t].password = account.password
  BY <1>1 DEF OnlyInFlight
<1>3. tokens' = tokens /\ LiveTokens' = LiveTokens
  BY DEF LoginBegin, RefreshUser, ChangePasswordBegin, ChangePasswordWrite, RefreshBegin,
         Interrupted, LiveTokens
<1>4. ASSUME NEW q, Goes(r, q), account' = account,
             q.pc = "login.issue" => q.password = account.password,
             q.pc \in {"refresh.user", "refresh.issue"} => q.token \in LiveTokens
      PROVE  Serial'
  BY <1>1, <1>2, <1>3, <1>4, OnlyStep
<1>5. CASE LoginBegin(r)
  <2>1. [Idle EXCEPT !.pc = "login.issue", !.password = account.password].password = account.password
        /\ [Idle EXCEPT !.pc = "login.issue", !.password = account.password].pc = "login.issue"
    BY DEF Idle
  <2> QED BY <1>4, <1>5, <2>1 DEF LoginBegin
<1>6. ASSUME Ends(r), account' = account PROVE Serial'
  BY <1>4, <1>6 DEF Ends, Idle
<1>7. CASE RefreshUser(r)
  <2>1. requests[r].token \in LiveTokens /\ requests[r] \in Request
    BY <1>1, <1>7 DEF OnlyInFlight, RefreshUser
  <2>2. /\ [requests[r] EXCEPT !.pc = "refresh.issue"].pc = "refresh.issue"
        /\ [requests[r] EXCEPT !.pc = "refresh.issue"].token = requests[r].token
    BY <2>1 DEF Request
  <2> QED BY <1>4, <1>6, <1>7, <2>1, <2>2 DEF RefreshUser
<1>8. CASE ChangePasswordBegin(r)
  BY <1>4, <1>8 DEF ChangePasswordBegin, Idle
<1>9. CASE ChangePasswordWrite(r)
  <2> DEFINE q == [Idle EXCEPT !.pc = "password.revoke"]
  <2>1. q.pc = "password.revoke" /\ Goes(r, q)
    BY <1>9 DEF Idle, ChangePasswordWrite
  <2> HIDE DEF q
  <2> QED BY <1>1, <1>2, <1>3, <2>1, OnlyStep
<1>10. ASSUME NEW t \in Tokens, RefreshBegin(r, t) PROVE Serial'
  <2>1. \A pc \in {"theft.revoke", "refresh.user"} :
          /\ [Idle EXCEPT !.pc = pc, !.token = t].pc = pc
          /\ [Idle EXCEPT !.pc = pc, !.token = t].token = t
    BY DEF Idle
  <2>2. CASE tokens[t].state = "live" /\ Goes(r, [Idle EXCEPT !.pc = "refresh.user", !.token = t])
    BY <1>4, <1>10, <2>1, <2>2 DEF RefreshBegin, LiveTokens
  <2>3. CASE Goes(r, [Idle EXCEPT !.pc = "theft.revoke", !.token = t])
    BY <1>4, <1>10, <2>1, <2>3 DEF RefreshBegin
  <2> QED BY <1>10, <2>2, <2>3 DEF RefreshBegin
<1>11. CASE Interrupted(r)
  BY <1>6, <1>11 DEF Interrupted
<1> QED BY <1>5, <1>7, <1>8, <1>9, <1>10, <1>11

LEMMA SerialIssue ==
  ASSUME ChainInv, LoginsKnown, NEW r \in Slots, OnlyInFlight(r, requests[r]),
         NEW t \in Tokens, LoginIssue(r, t) \/ RefreshIssue(r, t)
  PROVE  Serial'
<1>1. /\ requests \in [Slots -> Request] /\ \A s \in Slots \ {r} : Free(s)
      /\ requests[r].pc # "refresh.revoke" /\ requests[r].pc # "password.revoke"
      /\ TypeOK /\ account' = account
  BY DEF ChainInv, TypeOK, OnlyInFlight, LoginIssue, RefreshIssue
<1>2. /\ \A s, u \in LiveTokens : tokens[s].login = tokens[u].login => s = u
      /\ \A u \in LiveTokens : tokens[u].password = account.password
  BY <1>1 DEF OnlyInFlight
<1>3. CASE LoginIssue(r, t)
  <2>1. /\ tokens[t].state = "absent" /\ \A s \in Tokens \ {t} : tokens'[s] = tokens[s]
        /\ tokens'[t].state = "live" /\ tokens'[t].login = t
        /\ tokens'[t].password = account.password
    BY <1>1, <1>3 DEF LoginIssue, Inserted, AbsentToken, OnlyInFlight, TypeOK
  <2>2. LiveTokens' = LiveTokens \cup {t} /\ t \notin LiveTokens
    BY <2>1 DEF LiveTokens
  <2>3. \A s \in LiveTokens : tokens[s].login # t
    BY <2>1 DEF LiveTokens, LoginsKnown
  <2>4. \A s, u \in LiveTokens' : tokens'[s].login = tokens'[u].login => s = u
    BY <1>2, <2>1, <2>2, <2>3 DEF LiveTokens
  <2>5. \A s \in LiveTokens' : tokens'[s].password = account'.password
    BY <1>1, <1>2, <2>1, <2>2 DEF LiveTokens
  <2>6. Goes(r, Idle) /\ Idle.pc = "idle"
    BY <1>3 DEF LoginIssue, Ends, Idle
  <2> QED BY <1>1, <2>4, <2>5, <2>6, OnlyStep
<1>4. CASE RefreshIssue(r, t)
  <2> DEFINE old == requests[r].token
             q == [requests[r] EXCEPT !.pc = "refresh.revoke", !.new = t]
  <2>1. /\ old \in LiveTokens /\ old \in Tokens
        /\ tokens[t].state = "absent" /\ \A s \in Tokens \ {t} : tokens'[s] = tokens[s]
        /\ tokens'[t].state = "live" /\ tokens'[t].login = tokens[old].login
        /\ tokens'[t].password = account.password
    BY <1>1, <1>2, <1>4 DEF RefreshIssue, Inserted, AbsentToken, OnlyInFlight, TypeOK, LiveTokens
  <2>2. LiveTokens' = LiveTokens \cup {t} /\ t \notin LiveTokens
    BY <2>1 DEF LiveTokens
  <2>3. q.pc = "refresh.revoke" /\ q.token = old /\ q.new = t /\ Goes(r, q)
    BY <1>1, <1>4 DEF RefreshIssue, Request
  <2> HIDE DEF old, q
  <2>4. ASSUME NEW s \in LiveTokens', NEW u \in LiveTokens', s # u,
               tokens'[s].login = tokens'[u].login
        PROVE  {s, u} = {old, t}
    <3>1. \A v \in LiveTokens : tokens'[v] = tokens[v]
      BY <2>1, <2>2 DEF LiveTokens
    <3>2. CASE s \in LiveTokens /\ u \in LiveTokens
      BY <1>2, <2>4, <3>1, <3>2
    <3>3. CASE s = t /\ u \in LiveTokens
      BY <1>2, <2>1, <2>4, <3>1, <3>3
    <3>4. CASE u = t /\ s \in LiveTokens
      BY <1>2, <2>1, <2>4, <3>1, <3>4
    <3> QED BY <2>2, <2>4, <3>2, <3>3, <3>4
  <2>5. \A s \in LiveTokens' : tokens'[s].password = account'.password
    BY <1>1, <1>2, <2>1, <2>2 DEF LiveTokens
  <2> QED BY <1>1, <2>3, <2>4, <2>5, OnlyStep
<1> QED BY <1>3, <1>4

LEMMA SerialRevoke ==
  ASSUME ChainInv, NEW r \in Slots, OnlyInFlight(r, requests[r]), RefreshRevoke(r)
  PROVE  Serial'
<1> DEFINE old == requests[r].token
           new == requests[r].new
<1>1. /\ requests \in [Slots -> Request] /\ TypeOK
      /\ \A s \in Slots \ {r} : Free(s)
      /\ account' = account /\ old \in Tokens /\ new \in Tokens /\ Replaced(old, new)
      /\ Goes(r, Idle) /\ Idle.pc = "idle"
  BY DEF ChainInv, TypeOK, OnlyInFlight, RefreshRevoke, RotationsInFlight, Follows, Ends, Idle
<1>2. /\ \A s, u \in LiveTokens : tokens[s].login = tokens[u].login /\ s # u => {s, u} = {old, new}
      /\ \A u \in LiveTokens : tokens[u].password = account.password
  BY DEF OnlyInFlight, RefreshRevoke
<1> HIDE DEF old, new
<1>3. /\ tokens'[old].state = "revoked" /\ \A s \in Tokens \ {old} : tokens'[s] = tokens[s]
  BY <1>1, ReplacedKeeps
<1>4. LiveTokens' = LiveTokens \ {old} /\ \A s \in LiveTokens' : tokens'[s] = tokens[s]
  BY <1>1, <1>3 DEF LiveTokens
<1> QED BY <1>1, <1>2, <1>4, OnlyStep

\* Revoking one token or all, or one's expiry: at most fewer are live.
LEMMA SerialFewer ==
  ASSUME TypeOK, NEW r \in Slots, OnlyInFlight(r, requests[r]),
         \/ TheftRevoke(r) \/ LogoutAll(r) \/ ChangePasswordRevoke(r) \/ Deactivate(r)
         \/ \E t \in Tokens : Logout(r, t)
  PROVE  Serial'
<1>1. /\ requests \in [Slots -> Request] /\ Idle.pc = "idle"
      /\ \A s \in Slots \ {r} : Free(s)
  BY DEF TypeOK, OnlyInFlight, Idle
<1>2. ASSUME RevokedAll, Ends(r) \/ (UNCHANGED requests /\ Free(r)) PROVE Serial'
  <2>1. LiveTokens' = {}
    BY <1>2, RevokedAllKeeps DEF RevokedAll, LiveTokens, TypeOK, Token
  <2>2. CASE Ends(r)
    BY <1>1, <2>1, <2>2, OnlyStep DEF Ends
  <2>3. CASE UNCHANGED requests /\ Free(r)
    BY <1>1, <2>1, <2>3, OnlyInFlightIsSerial DEF Serial, OneAtATime, LivePairs, PasswordEndsSessions, Free
  <2> QED BY <1>2, <2>2, <2>3
<1>3. ASSUME NEW t \in Tokens, Logout(r, t) PROVE Serial'
  <2>1. /\ requests' = requests /\ account' = account /\ requests[r].pc = "idle"
        /\ t \in LiveTokens /\ tokens' = [tokens EXCEPT ![t].state = "revoked"]
    BY <1>3 DEF Logout, Free
  <2>2. tokens'[t].state = "revoked" /\ \A s \in Tokens \ {t} : tokens'[s] = tokens[s]
    BY <2>1 DEF TypeOK, Token
  <2>3. LiveTokens' = LiveTokens \ {t} /\ \A s \in LiveTokens' : tokens'[s] = tokens[s]
    BY <2>2 DEF LiveTokens
  <2>4. OnlyInFlight(r, requests[r])'
    BY <2>1, <2>3 DEF OnlyInFlight, Free
  <2> QED BY <2>4, OnlyInFlightIsSerial
<1> QED BY <1>2, <1>3 DEF TheftRevoke, LogoutAll, ChangePasswordRevoke, Deactivate


LEMMA SerialExpire ==
  ASSUME TypeOK, Serial, NEW t \in Tokens, Expire(t)
  PROVE  Serial'
<1>1. \A s \in Tokens : /\ tokens'[s].state = tokens[s].state
                        /\ tokens'[s].login = tokens[s].login
                        /\ tokens'[s].password = tokens[s].password
  BY DEF Expire, TypeOK, Token
<1>2. LiveTokens' = LiveTokens /\ LiveTokens \subseteq Tokens
  BY <1>1 DEF LiveTokens
<1>3. requests' = requests /\ account' = account
  BY DEF Expire
<1>4. OneAtATime'
  BY <1>2, <1>3 DEF Serial, OneAtATime, Free
<1>5. LivePairs'
  BY <1>1, <1>2, <1>3 DEF Serial, LivePairs
<1>6. PasswordEndsSessions'
  BY <1>1, <1>2, <1>3 DEF Serial, PasswordEndsSessions
<1> QED BY <1>4, <1>5, <1>6 DEF Serial

LEMMA SerialStep == SerialInv /\ [MCNext]_<<vars, disturbed>> => SerialInv'
<1> SUFFICES ASSUME SerialInv, [MCNext]_<<vars, disturbed>> PROVE SerialInv'
  OBVIOUS
<1>1. ChainInv /\ LoginsKnown /\ TypeOK /\ (~disturbed => Serial)
  BY DEF SerialInv, ChainInv
<1>2. ChainInv' /\ LoginsKnown'
  <2>1. [Next]_vars
    BY MCStep
  <2> QED BY <1>1, <2>1, ChainStep, LoginsStayKnown
<1>3. ASSUME ~disturbed' PROVE Serial'
  <2>1. ~disturbed
    BY <1>3 DEF MCNext
  <2>2. Serial
    BY <1>1, <2>1
  <2>3. ASSUME NEW r \in Slots, Serve(r),
               disturbed' = (disturbed \/ \E other \in Slots \ {r} : ~Free(other))
        PROVE  Serial'
    <3>1. OnlyInFlight(r, requests[r])
      BY <1>3, <2>2, <2>3, SerialIsOnlyInFlight
    <3> QED BY <1>1, <2>3, <3>1, SerialRead, SerialIssue, SerialRevoke, SerialFewer DEF Serve
  <2>4. ASSUME NEW r \in Slots, Interrupted(r),
               disturbed' = (disturbed \/ requests[r].pc # "refresh.user")
        PROVE  Serial'
    <3>1. requests[r].pc = "refresh.user"
      BY <1>3, <2>4
    <3>2. OnlyInFlight(r, requests[r])
      BY <2>2, <2>4, SerialIsOnlyInFlight DEF Interrupted, Serial, OneAtATime
    <3> QED BY <1>1, <2>4, <3>1, <3>2, SerialRead
  <2>5. ASSUME NEW t \in Tokens, Expire(t) PROVE Serial'
    BY <1>1, <2>2, <2>5, SerialExpire
  <2>6. CASE UNCHANGED <<vars, disturbed>>
    BY <2>2, <2>6 DEF vars, Serial, OneAtATime, LivePairs, PasswordEndsSessions, Free, LiveTokens
  <2> QED BY <2>3, <2>4, <2>5, <2>6 DEF MCNext
<1> QED BY <1>2, <1>3 DEF SerialInv

LEMMA SerialAlways == MCSpec => []SerialInv
<1>1. MCInit => SerialInv
  <2> SUFFICES ASSUME MCInit PROVE SerialInv
    OBVIOUS
  <2>1. ChainInv
    BY TypeInit DEF MCInit, Init, ChainInv, LinksStayInLogin, RotationsInFlight, AbsentToken, Idle
  <2>2. LiveTokens = {} /\ LoginsKnown /\ \A r \in Slots : requests[r].pc = "idle"
    BY DEF MCInit, Init, AbsentToken, Idle, LiveTokens, LoginsKnown
  <2> QED BY <2>1, <2>2 DEF SerialInv, Serial, OneAtATime, LivePairs, PasswordEndsSessions, Free
<1> QED BY <1>1, SerialStep, PTL DEF MCSpec

\* While requests are served one at a time and to their end, a sign-in has one
\* live refresh token, or none, but for the moment within a rotation.
THEOREM OneLivePerLoginSerially == MCSpec => []SerialOneLivePerLogin
<1>1. SerialInv => SerialOneLivePerLogin
  <2> SUFFICES ASSUME ~disturbed => LivePairs PROVE SerialOneLivePerLogin
    BY DEF SerialInv, Serial
  <2> QED BY DEF LivePairs, SerialOneLivePerLogin, OneLivePerLogin
<1> QED BY <1>1, SerialAlways, PTL

\* And a password change that has ended leaves no session of an older password.
THEOREM PasswordEndsSessionsSerially == MCSpec => []SerialPasswordEndsSessions
<1>1. SerialInv => SerialPasswordEndsSessions
  BY DEF SerialInv, Serial, SerialPasswordEndsSessions
<1> QED BY <1>1, SerialAlways, PTL

=============================================================================
