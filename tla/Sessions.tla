------------------------------ MODULE Sessions ------------------------------
(***************************************************************************)
(* TokensService and the handlers of AuthService and UsersService that     *)
(* issue, rotate and revoke one user's refresh tokens.                     *)
(*                                                                         *)
(* A refresh token is its row: nobody but the user holds it.  A request    *)
(* occupies a slot from its first read to its end, and its Prisma calls,   *)
(* none of which share a transaction except in deactivate, are its steps.  *)
(***************************************************************************)
EXTENDS Naturals

CONSTANTS
  Tokens,          \* the ids (jti) refresh tokens can get
  NoToken,
  Slots,           \* how many requests can be in flight
  MaxPasswords,    \* bound: password changes explored
  Interruptions    \* whether a request can end between two of its steps

ASSUME SessionsAssumption ==
  /\ NoToken \notin Tokens
  /\ MaxPasswords \in Nat
  /\ Interruptions \in BOOLEAN

VARIABLES
  tokens,      \* the refresh_tokens table
  account,     \* whether the user is active, and which password is current
  requests     \* the request in each slot

vars == <<tokens, account, requests>>

\* login and password are history: the token that the chain of rotations began
\* with, and the password its sign-in was verified against.
Token ==
  [state : {"absent", "live", "revoked"}, expired : BOOLEAN, replacedBy : Tokens \cup {NoToken},
   login : Tokens \cup {NoToken}, password : 0 .. MaxPasswords]

AbsentToken ==
  [state |-> "absent", expired |-> FALSE, replacedBy |-> NoToken, login |-> NoToken, password |-> 0]

Pc == {"idle", "login.issue", "refresh.user", "refresh.issue", "refresh.revoke", "theft.revoke",
       "password.write", "password.revoke"}

Request == [pc : Pc, token : Tokens \cup {NoToken}, new : Tokens \cup {NoToken},
            password : 0 .. MaxPasswords]

Idle == [pc |-> "idle", token |-> NoToken, new |-> NoToken, password |-> 0]

TypeOK ==
  /\ tokens \in [Tokens -> Token]
  /\ account \in [active : BOOLEAN, password : 0 .. MaxPasswords]
  /\ requests \in [Slots -> Request]

Init ==
  /\ tokens = [t \in Tokens |-> AbsentToken]
  /\ account = [active |-> TRUE, password |-> 0]
  /\ requests = [r \in Slots |-> Idle]

Free(r) == requests[r].pc = "idle"
Goes(r, record) == requests' = [requests EXCEPT ![r] = record]
Ends(r) == Goes(r, Idle)
LiveTokens == {t \in Tokens : tokens[t].state = "live"}

-----------------------------------------------------------------------------
\* issue: the insert, under a fresh jti.
Inserted(t, login, password) ==
  /\ tokens[t].state = "absent"
  /\ tokens' = [tokens EXCEPT ![t] = [AbsentToken EXCEPT !.state = "live", !.login = login,
                                                         !.password = password]]

\* Mutant: the new token is remembered and the old one is not revoked.
ReplacedUnrevoked(t, new) == tokens' = [tokens EXCEPT ![t].replacedBy = new]

\* Mutant: the old token says that it was replaced, and not by which.
ReplacedFlagged(t, new) == tokens' = [tokens EXCEPT ![t].state = "revoked", ![t].replacedBy = TRUE]

\* issue, for a rotation: the update of the token presented, by its id alone.
Replaced(t, new) == tokens' = [tokens EXCEPT ![t].state = "revoked", ![t].replacedBy = new]

\* Mutant: revokes what is live and brings back what is not.
RevokedToggled ==
  tokens' = [t \in Tokens |->
               IF tokens[t].state = "absent" THEN tokens[t]
               ELSE [tokens[t] EXCEPT !.state = IF @ = "live" THEN "revoked" ELSE "live"]]

\* Mutant: revokes the tokens of the current password.
RevokedCurrent ==
  tokens' = [t \in Tokens |->
               IF t \in LiveTokens /\ tokens[t].password = account.password
               THEN [tokens[t] EXCEPT !.state = "revoked"] ELSE tokens[t]]

\* revokeAllForUser, in one statement.
RevokedAll ==
  tokens' = [t \in Tokens |->
               IF t \in LiveTokens THEN [tokens[t] EXCEPT !.state = "revoked"] ELSE tokens[t]]

-----------------------------------------------------------------------------
\* login: reads the user and verifies the password.
LoginBegin(r) ==
  /\ Free(r)
  /\ account.active
  /\ Goes(r, [Idle EXCEPT !.pc = "login.issue", !.password = account.password])
  /\ UNCHANGED <<tokens, account>>

LoginIssue(r, t) ==
  /\ requests[r].pc = "login.issue"
  /\ Inserted(t, t, requests[r].password)
  /\ Ends(r)
  /\ UNCHANGED account

\* rotate: reads the row.  A revoked one means theft; an expired one is refused.
RefreshBegin(r, t) ==
  /\ Free(r)
  /\ \/ /\ tokens[t].state = "revoked"
        /\ Goes(r, [Idle EXCEPT !.pc = "theft.revoke", !.token = t])
     \/ /\ tokens[t].state = "live" /\ ~tokens[t].expired
        /\ Goes(r, [Idle EXCEPT !.pc = "refresh.user", !.token = t])
  /\ UNCHANGED <<tokens, account>>

RefreshUser(r) ==
  /\ requests[r].pc = "refresh.user"
  /\ IF account.active THEN Goes(r, [requests[r] EXCEPT !.pc = "refresh.issue"]) ELSE Ends(r)
  /\ UNCHANGED <<tokens, account>>

RefreshIssue(r, new) ==
  LET t == requests[r].token IN
  /\ requests[r].pc = "refresh.issue"
  /\ Inserted(new, tokens[t].login, tokens[t].password)
  /\ Goes(r, [requests[r] EXCEPT !.pc = "refresh.revoke", !.new = new])
  /\ UNCHANGED account

RefreshRevoke(r) ==
  /\ requests[r].pc = "refresh.revoke"
  /\ Replaced(requests[r].token, requests[r].new)
  /\ Ends(r)
  /\ UNCHANGED account

TheftRevoke(r) ==
  /\ requests[r].pc = "theft.revoke"
  /\ RevokedAll
  /\ Ends(r)
  /\ UNCHANGED account

-----------------------------------------------------------------------------
\* logout: one statement, by the hash of the token.
Logout(r, t) ==
  /\ Free(r)
  /\ t \in LiveTokens
  /\ tokens' = [tokens EXCEPT ![t].state = "revoked"]
  /\ UNCHANGED <<account, requests>>

\* The routes below want an access token, and JwtStrategy an active account.
LogoutAll(r) ==
  /\ Free(r)
  /\ account.active
  /\ RevokedAll
  /\ UNCHANGED <<account, requests>>

\* changePassword: reads the user and verifies the current password.
ChangePasswordBegin(r) ==
  /\ Free(r)
  /\ account.active
  /\ account.password < MaxPasswords
  /\ Goes(r, [Idle EXCEPT !.pc = "password.write"])
  /\ UNCHANGED <<tokens, account>>

ChangePasswordWrite(r) ==
  /\ requests[r].pc = "password.write"
  /\ account.password < MaxPasswords
  /\ account' = [account EXCEPT !.password = @ + 1]
  /\ Goes(r, [Idle EXCEPT !.pc = "password.revoke"])
  /\ UNCHANGED tokens

ChangePasswordRevoke(r) ==
  /\ requests[r].pc = "password.revoke"
  /\ RevokedAll
  /\ Ends(r)
  /\ UNCHANGED account

\* deactivate: one transaction.
Deactivate(r) ==
  /\ Free(r)
  /\ account.active
  /\ account' = [account EXCEPT !.active = FALSE]
  /\ RevokedAll
  /\ UNCHANGED requests

-----------------------------------------------------------------------------
Expire(t) ==
  /\ t \in LiveTokens /\ ~tokens[t].expired
  /\ tokens' = [tokens EXCEPT ![t].expired = TRUE]
  /\ UNCHANGED <<account, requests>>

\* A failed query or a crash between two calls: what is written stays.
Interrupted(r) ==
  /\ Interruptions
  /\ ~Free(r)
  /\ Ends(r)
  /\ UNCHANGED <<tokens, account>>

Serve(r) ==
  \/ LoginBegin(r) \/ RefreshUser(r) \/ RefreshRevoke(r) \/ TheftRevoke(r)
  \/ \E t \in Tokens : LoginIssue(r, t) \/ RefreshBegin(r, t) \/ RefreshIssue(r, t) \/ Logout(r, t)
  \/ LogoutAll(r) \/ Deactivate(r)
  \/ ChangePasswordBegin(r) \/ ChangePasswordWrite(r) \/ ChangePasswordRevoke(r)

Next ==
  \/ \E r \in Slots : Serve(r) \/ Interrupted(r)
  \/ \E t \in Tokens : Expire(t)

Spec == Init /\ [][Next]_vars

-----------------------------------------------------------------------------
\* A sign-in has one live refresh token, or none, but for the moment in which
\* a rotation has issued the next and not yet revoked the one it replaces.
OneLivePerLogin ==
  \A s, t \in LiveTokens :
    s # t /\ tokens[s].login = tokens[t].login =>
      \E r \in Slots : requests[r].pc = "refresh.revoke" /\ requests[r].token \in {s, t}

\* Once a password change has ended, no session verified against an older
\* password is left (auth.service.ts: "A password change invalidates every
\* existing session").
PasswordEndsSessions ==
  (\A r \in Slots : requests[r].pc # "password.revoke") =>
    \A t \in LiveTokens : tokens[t].password = account.password

\* A deactivated account has no session left.
InactiveSignedOut == ~account.active => LiveTokens = {}

\* A revoked token is never live again, whatever is in flight when it is
\* revoked: rotation, the one step that writes by id alone, revokes too.
RevokedForGood ==
  [][\A t \in Tokens : tokens[t].state = "revoked" => tokens'[t].state = "revoked"]_vars

\* The tokens met: the least set that holds the successor of t and of its members.
HoldsSuccessors(t, set) ==
  \A s \in set \cup {t} : tokens[s].replacedBy # NoToken => tokens[s].replacedBy \in set

Successors(t) ==
  {s \in Tokens : \A set \in SUBSET Tokens : HoldsSuccessors(t, set) => s \in set}

\* Following replacedByTokenId from a token never returns to it and stays within
\* one sign-in, so schema.prisma's "rotation chain" is one, even where several
\* rotations of a token have raced and the last to write decided its successor.
RotationChains ==
  \A t \in Tokens :
    /\ tokens[t].replacedBy # NoToken => tokens[t].state = "revoked"
    /\ t \notin Successors(t)
    /\ \A s \in Successors(t) : tokens[s].state # "absent" /\ tokens[s].login = tokens[t].login

=============================================================================
