---------------------------- MODULE Friendships ----------------------------
(***************************************************************************)
(* FriendshipsService: requests, answers, removals and blocks, concurrent. *)
(*                                                                         *)
(* A row has a direction, and the unique index is on the direction; the    *)
(* service looks for a row of the pair in either one.  Each handler but    *)
(* remove reads a row, awaits, and writes by its id or inserts.            *)
(***************************************************************************)
EXTENDS Naturals, FiniteSets

CONSTANTS
  Users,     \* active users
  Rows,      \* ids of friendship rows, never used twice
  NoRow,
  Slots      \* requests in flight

ASSUME FriendshipsAssumption == NoRow \notin Rows /\ Users # {}

VARIABLES
  rows,      \* the friendships table
  asked,     \* history: who has ever asked or accepted whom
  requests

vars == <<rows, asked, requests>>

SomeUser == CHOOSE u \in Users : TRUE

\* "none": not yet inserted.  "gone": removed.
Statuses == {"PENDING", "ACCEPTED", "REJECTED", "BLOCKED"}
Row == [status : Statuses \cup {"none", "gone"}, requester : Users, addressee : Users]
NoneRow == [status |-> "none", requester |-> SomeUser, addressee |-> SomeUser]

Pc == {"idle", "send.create", "send.again", "respond.read", "respond.write",
       "block.create", "block.write"}
Request == [pc : Pc, user : Users, other : Users, row : Rows \cup {NoRow}, answer : Statuses]
Idle == [pc |-> "idle", user |-> SomeUser, other |-> SomeUser, row |-> NoRow, answer |-> "PENDING"]

TypeOK ==
  /\ rows \in [Rows -> Row]
  /\ asked \subseteq Users \X Users
  /\ requests \in [Slots -> Request]

Init ==
  /\ rows = [f \in Rows |-> NoneRow]
  /\ asked = {}
  /\ requests = [r \in Slots |-> Idle]

Free(r) == requests[r].pc = "idle"
Goes(r, record) == requests' = [requests EXCEPT ![r] = record]
Ends(r) == Goes(r, Idle)

Exists(f) == f \in Rows /\ rows[f].status \in Statuses
Joins(f, u, v) == {rows[f].requester, rows[f].addressee} = {u, v}

\* Mutant: one direction only.
PairOneWay(u, v) == {f \in Rows : Exists(f) /\ rows[f].requester = u /\ rows[f].addressee = v}

\* pairWhere.  findFirst has no order: of two rows it may return either.
Pair(u, v) == {f \in Rows : Exists(f) /\ Joins(f, u, v)}

\* areFriends.
AreFriends(u, v) == \E f \in Pair(u, v) : rows[f].status = "ACCEPTED"

\* The unique index on (requesterId, addresseeId), but for the row f itself.
Fits(f, u, v) ==
  \A g \in Rows \ {f} : Exists(g) => <<rows[g].requester, rows[g].addressee>> # <<u, v>>

Written(f, status, u, v) ==
  rows' = [rows EXCEPT ![f] = [status |-> status, requester |-> u, addressee |-> v]]

-----------------------------------------------------------------------------
\* sendRequest: a pending request of the other one is accepted, a rejected one
\* sent again; connected, blocked and waiting pairs are refused.
SendBegin(r, u, v) ==
  /\ Free(r)
  /\ u # v
  /\ \/ /\ Pair(u, v) = {}
        /\ Goes(r, [Idle EXCEPT !.pc = "send.create", !.user = u, !.other = v])
     \/ \E f \in Pair(u, v) :
          \/ /\ rows[f].status = "PENDING" /\ rows[f].addressee = u
             /\ Goes(r, [pc |-> "respond.read", user |-> u, other |-> v, row |-> f,
                         answer |-> "ACCEPTED"])
          \/ /\ rows[f].status = "REJECTED"
             /\ Goes(r, [Idle EXCEPT !.pc = "send.again", !.user = u, !.other = v, !.row = f])
  /\ asked' = asked \cup {<<u, v>>}
  /\ UNCHANGED rows

SendCreate(r, f) ==
  LET q == requests[r] IN
  /\ q.pc = "send.create"
  /\ rows[f].status = "none"
  /\ Fits(f, q.user, q.other)
  /\ Written(f, "PENDING", q.user, q.other)
  /\ Ends(r)
  /\ UNCHANGED asked

SendAgain(r) ==
  LET q == requests[r] IN
  /\ q.pc = "send.again"
  /\ Exists(q.row)
  /\ Fits(q.row, q.user, q.other)
  /\ Written(q.row, "PENDING", q.user, q.other)
  /\ Ends(r)
  /\ UNCHANGED asked

-----------------------------------------------------------------------------
\* Mutants: in whatever state, or by either of the two.
AnswerableAlways(f, u) == Exists(f) /\ rows[f].addressee = u
AnswerableByEither(f, u) ==
  rows[f].status = "PENDING" /\ u \in {rows[f].requester, rows[f].addressee}

\* respond: only the addressee answers, and only a pending request.
Answerable(f, u) == rows[f].status = "PENDING" /\ rows[f].addressee = u

RespondBegin(r, u, f, answer) ==
  /\ Free(r)
  /\ Answerable(f, u)
  /\ answer \in {"ACCEPTED", "REJECTED"}
  /\ \E v \in Users :
       /\ Joins(f, u, v)
       /\ Goes(r, [pc |-> "respond.write", user |-> u, other |-> v, row |-> f, answer |-> answer])
       /\ asked' = IF answer = "ACCEPTED" THEN asked \cup {<<u, v>>} ELSE asked
  /\ UNCHANGED rows

\* respond, called by sendRequest: the row is read again.
RespondRead(r) ==
  LET q == requests[r] IN
  /\ q.pc = "respond.read"
  /\ Answerable(q.row, q.user)
  /\ Goes(r, [q EXCEPT !.pc = "respond.write"])
  /\ UNCHANGED <<rows, asked>>

\* The status alone, by id.
RespondWrite(r) ==
  LET q == requests[r] IN
  /\ q.pc = "respond.write"
  /\ Exists(q.row)
  /\ Written(q.row, q.answer, rows[q.row].requester, rows[q.row].addressee)
  /\ Ends(r)
  /\ UNCHANGED asked

\* remove: one deleteMany, in both directions.
Remove(r, u, v) ==
  /\ Free(r)
  /\ AreFriends(u, v)
  /\ rows' = [f \in Rows |-> IF f \in Pair(u, v) /\ rows[f].status = "ACCEPTED"
                             THEN [rows[f] EXCEPT !.status = "gone"] ELSE rows[f]]
  /\ UNCHANGED <<asked, requests>>

-----------------------------------------------------------------------------
BlockBegin(r, u, v) ==
  /\ Free(r)
  /\ u # v
  /\ \/ /\ Pair(u, v) = {}
        /\ Goes(r, [Idle EXCEPT !.pc = "block.create", !.user = u, !.other = v])
     \/ \E f \in Pair(u, v) :
          Goes(r, [Idle EXCEPT !.pc = "block.write", !.user = u, !.other = v, !.row = f])
  /\ UNCHANGED <<rows, asked>>

BlockCreate(r, f) ==
  LET q == requests[r] IN
  /\ q.pc = "block.create"
  /\ rows[f].status = "none"
  /\ Fits(f, q.user, q.other)
  /\ Written(f, "BLOCKED", q.user, q.other)
  /\ Ends(r)
  /\ UNCHANGED asked

BlockWrite(r) ==
  LET q == requests[r] IN
  /\ q.pc = "block.write"
  /\ Exists(q.row)
  /\ Fits(q.row, q.user, q.other)
  /\ Written(q.row, "BLOCKED", q.user, q.other)
  /\ Ends(r)
  /\ UNCHANGED asked

\* A unique violation, a row that is gone, a 4xx, a crash.
Fails(r) ==
  /\ ~Free(r)
  /\ Ends(r)
  /\ UNCHANGED <<rows, asked>>

Next ==
  \E r \in Slots :
    \/ \E u, v \in Users : SendBegin(r, u, v) \/ BlockBegin(r, u, v) \/ Remove(r, u, v)
    \/ \E f \in Rows : SendCreate(r, f) \/ BlockCreate(r, f)
    \/ \E u \in Users, f \in Rows, answer \in Statuses : RespondBegin(r, u, f, answer)
    \/ SendAgain(r) \/ RespondRead(r) \/ RespondWrite(r) \/ BlockWrite(r) \/ Fails(r)

Spec == Init /\ [][Next]_vars

-----------------------------------------------------------------------------
\* However requests, answers, re-sent requests and blocks interleave, nobody
\* is anybody's friend without having asked or accepted: being added to a
\* place rests on that (members.service.ts: "the friendship handshake already
\* served as the consent step").
Consented(f) ==
  LET u == rows[f].requester
      v == rows[f].addressee
  IN  {<<u, v>>, <<v, u>>} \subseteq asked

FriendsConsented == \A f \in Rows : rows[f].status = "ACCEPTED" => Consented(f)

\* What makes it inductive: a pending row was asked for by its requester; a
\* request in flight refers to a row of its own two users, whatever has been
\* written to it since; and who is about to accept has been asked.
RowsAsked ==
  \A f \in Rows : rows[f].status = "PENDING" => <<rows[f].requester, rows[f].addressee>> \in asked

RequestAsked(q) ==
  /\ q.pc \in {"send.create", "send.again"} => <<q.user, q.other>> \in asked
  /\ q.pc \in {"send.again", "respond.read", "respond.write", "block.write"} =>
       q.row \in Rows /\ rows[q.row].status # "none" /\ Joins(q.row, q.user, q.other)
  /\ q.pc = "respond.read" => q.answer = "ACCEPTED" /\ <<q.user, q.other>> \in asked
  /\ q.pc = "respond.write" =>
       /\ q.answer \in {"ACCEPTED", "REJECTED"}
       /\ q.answer = "ACCEPTED" => {<<q.user, q.other>>, <<q.other, q.user>>} \subseteq asked

ConsentInv ==
  /\ TypeOK
  /\ FriendsConsented
  /\ RowsAsked
  /\ \A r \in Slots : RequestAsked(requests[r])

\* One row for two people, though the index would take one each way.
OneRowPerPair ==
  \A u, v \in Users : u # v => Cardinality({f \in Rows : Exists(f) /\ Joins(f, u, v)}) <= 1

\* Blocked once is blocked for good, and no friend.
Blocked(u, v) == \E f \in Pair(u, v) : rows[f].status = "BLOCKED"

BlockHolds == \A u, v \in Users : Blocked(u, v) => Blocked(u, v)' /\ ~AreFriends(u, v)'

\* A rejected request is not accepted unless it was sent again, nor an accepted
\* one rejected ("This request has already been answered").
AnswerStands ==
  \A f \in Rows : rows[f].status \in {"ACCEPTED", "REJECTED"} =>
    rows'[f].status \in {"PENDING", "BLOCKED", "gone", rows[f].status}

=============================================================================
