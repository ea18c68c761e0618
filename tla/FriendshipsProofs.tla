------------------------- MODULE FriendshipsProofs -------------------------
(***************************************************************************)
(* Nobody becomes a friend without having said so, for any number of       *)
(* users, rows and requests in flight; and, while requests are served one  *)
(* after the other, two users share one row, and a block stays.            *)
(***************************************************************************)
EXTENDS MCFriendships, FiniteSetTheorems, TLAPS

\* What a request in flight relies on survives a write of its row, since no
\* write takes a row from one pair of users to another.
LEMMA RequestKept ==
  ASSUME NEW q \in Request, RequestAsked(q), asked \subseteq asked',
         \A f \in Rows : rows[f].status # "none" =>
           /\ rows'[f].status # "none"
           /\ {rows'[f].requester, rows'[f].addressee} = {rows[f].requester, rows[f].addressee}
  PROVE  RequestAsked(q)'
BY DEF RequestAsked, Joins

\* A step that leaves the rows and what was asked alone, and sets one request.
LEMMA OnlyRequest ==
  ASSUME ConsentInv, NEW r \in Slots, NEW q \in Request, RequestAsked(q)', Goes(r, q),
         rows' = rows, asked' \in SUBSET (Users \X Users), asked \subseteq asked'
  PROVE  ConsentInv'
<1>1. TypeOK'
  BY DEF ConsentInv, TypeOK, Goes
<1>2. FriendsConsented' /\ RowsAsked'
  BY DEF ConsentInv, FriendsConsented, RowsAsked, Consented
<1>3. ASSUME NEW s \in Slots PROVE RequestAsked(requests[s])'
  <2>1. requests[s] \in Request /\ RequestAsked(requests[s])
    BY DEF ConsentInv, TypeOK
  <2>2. RequestAsked(requests[s])' \/ s = r
    BY <2>1, RequestKept DEF Goes, ConsentInv, TypeOK, RequestAsked, Joins
  <2>3. CASE s = r
    BY <2>3 DEF Goes, ConsentInv, TypeOK, RequestAsked, Joins
  <2> QED BY <2>2, <2>3
<1> QED BY <1>1, <1>2, <1>3 DEF ConsentInv

\* An idle request claims nothing.
LEMMA IdleAsks == Idle \in Request /\ RequestAsked(Idle)'
BY FriendshipsAssumption DEF Idle, Request, Pc, Statuses, SomeUser, RequestAsked

\* A step that writes one row, for one pair of users, and ends its request.
LEMMA RowWritten ==
  ASSUME ConsentInv, NEW r \in Slots, NEW f \in Rows, NEW status \in Statuses,
         NEW u \in Users, NEW v \in Users,
         Written(f, status, u, v), Ends(r), asked' = asked,
         rows[f].status = "none" \/ Joins(f, u, v),
         status = "PENDING" => <<u, v>> \in asked,
         status = "ACCEPTED" => {<<u, v>>, <<v, u>>} \subseteq asked
  PROVE  ConsentInv'
<1>1. TypeOK'
  BY IdleAsks DEF ConsentInv, TypeOK, Written, Ends, Goes, Row
<1>2. FriendsConsented' /\ RowsAsked'
  BY DEF ConsentInv, FriendsConsented, RowsAsked, Consented, Written, TypeOK, Row
<1>3. \A g \in Rows : rows[g].status # "none" =>
         /\ rows'[g].status # "none"
         /\ {rows'[g].requester, rows'[g].addressee} = {rows[g].requester, rows[g].addressee}
  BY DEF Written, Joins, ConsentInv, TypeOK, Row, Statuses
<1>4. ASSUME NEW s \in Slots PROVE RequestAsked(requests[s])'
  <2>1. requests[s] \in Request /\ RequestAsked(requests[s])
    BY DEF ConsentInv, TypeOK
  <2>2. CASE s = r
    BY <2>2, IdleAsks DEF Ends, Goes, ConsentInv, TypeOK, RequestAsked, Idle
  <2>3. CASE s # r
    <3>1. requests'[s] = requests[s]
      BY <2>3 DEF Ends, Goes, ConsentInv, TypeOK
    <3> QED BY <3>1, <2>1, <1>3 DEF RequestAsked, Joins
  <2> QED BY <2>2, <2>3
<1> QED BY <1>1, <1>2, <1>4 DEF ConsentInv

LEMMA ConsentInit == Init => ConsentInv
<1> SUFFICES ASSUME Init PROVE ConsentInv
  OBVIOUS
<1>1. TypeOK
  BY FriendshipsAssumption DEF Init, TypeOK, NoneRow, Row, SomeUser, Idle, Request, Pc, Statuses
<1> QED BY <1>1 DEF Init, ConsentInv, FriendsConsented, RowsAsked, RequestAsked, NoneRow, Idle

\* One step per action of the service.
LEMMA ConsentStep == ConsentInv /\ [Next]_vars => ConsentInv'
<1> SUFFICES ASSUME ConsentInv, [Next]_vars PROVE ConsentInv'
  OBVIOUS
<1> USE IdleAsks
<1>a. TypeOK /\ FriendsConsented /\ RowsAsked /\ \A r \in Slots : RequestAsked(requests[r])
  BY DEF ConsentInv
<1>b. \A r \in Slots : requests[r] \in Request
  BY <1>a DEF TypeOK
<1>1. ASSUME NEW r \in Slots, NEW u \in Users, NEW v \in Users, SendBegin(r, u, v)
      PROVE  ConsentInv'
  <2>a. asked' \in SUBSET (Users \X Users) /\ asked \subseteq asked' /\ <<u, v>> \in asked' /\ rows' = rows
    <3>1. asked' = asked \cup {<<u, v>>} /\ rows' = rows
      BY <1>1 DEF SendBegin
    <3> QED BY <1>a, <3>1 DEF TypeOK
  <2>b. u # v
    BY <1>1 DEF SendBegin
  <2>1. CASE Goes(r, [Idle EXCEPT !.pc = "send.create", !.user = u, !.other = v])
    <3> DEFINE q == [Idle EXCEPT !.pc = "send.create", !.user = u, !.other = v]
    <3>1. q \in Request /\ RequestAsked(q)'
      BY <2>a, FriendshipsAssumption DEF Request, Idle, Pc, RequestAsked, Statuses, SomeUser
    <3> QED BY <2>1, <2>a, <3>1, OnlyRequest
  <2>2. ASSUME NEW f \in Pair(u, v), rows[f].status = "PENDING", rows[f].addressee = u,
               Goes(r, [pc |-> "respond.read", user |-> u, other |-> v, row |-> f, answer |-> "ACCEPTED"])
        PROVE  ConsentInv'
    <3> DEFINE q == [pc |-> "respond.read", user |-> u, other |-> v, row |-> f, answer |-> "ACCEPTED"]
    <3>1. q \in Request /\ RequestAsked(q)'
      BY <2>a, <2>2 DEF Request, Pc, RequestAsked, Statuses, Pair, Joins
    <3> QED BY <2>2, <2>a, <3>1, OnlyRequest
  <2>3. ASSUME NEW f \in Pair(u, v), rows[f].status = "REJECTED",
               Goes(r, [Idle EXCEPT !.pc = "send.again", !.user = u, !.other = v, !.row = f])
        PROVE  ConsentInv'
    <3> DEFINE q == [Idle EXCEPT !.pc = "send.again", !.user = u, !.other = v, !.row = f]
    <3>1. q \in Request /\ RequestAsked(q)'
      BY <2>a, <2>3, FriendshipsAssumption
      DEF Request, Idle, Pc, RequestAsked, Statuses, SomeUser, Pair, Joins
    <3> QED BY <2>3, <2>a, <3>1, OnlyRequest
  <2> QED BY <1>1, <2>1, <2>2, <2>3 DEF SendBegin
<1>2. ASSUME NEW r \in Slots, NEW u \in Users, NEW v \in Users, BlockBegin(r, u, v)
      PROVE  ConsentInv'
  <2>a. asked' \in SUBSET (Users \X Users) /\ asked \subseteq asked' /\ rows' = rows
    BY <1>a, <1>2 DEF BlockBegin, TypeOK
  <2>1. CASE Goes(r, [Idle EXCEPT !.pc = "block.create", !.user = u, !.other = v])
    <3> DEFINE q == [Idle EXCEPT !.pc = "block.create", !.user = u, !.other = v]
    <3>1. q \in Request /\ RequestAsked(q)'
      BY FriendshipsAssumption DEF Request, Idle, Pc, RequestAsked, Statuses, SomeUser
    <3> QED BY <2>1, <2>a, <3>1, OnlyRequest
  <2>2. ASSUME NEW f \in Pair(u, v),
               Goes(r, [Idle EXCEPT !.pc = "block.write", !.user = u, !.other = v, !.row = f])
        PROVE  ConsentInv'
    <3> DEFINE q == [Idle EXCEPT !.pc = "block.write", !.user = u, !.other = v, !.row = f]
    <3>1. q \in Request /\ RequestAsked(q)'
      BY <2>a, FriendshipsAssumption
      DEF Request, Idle, Pc, RequestAsked, Statuses, SomeUser, Pair, Joins, Exists
    <3> QED BY <2>2, <2>a, <3>1, OnlyRequest
  <2> QED BY <1>2, <2>1, <2>2 DEF BlockBegin
<1>3. ASSUME NEW r \in Slots, NEW u \in Users, NEW v \in Users, Remove(r, u, v)
      PROVE  ConsentInv'
  <2>1. TypeOK'
    BY <1>a, <1>3 DEF Remove, TypeOK, Row
  <2>2. \A f \in Rows : rows'[f] = rows[f] \/ rows'[f] = [rows[f] EXCEPT !.status = "gone"]
    BY <1>3 DEF Remove
  <2>3. FriendsConsented' /\ RowsAsked'
    BY <1>a, <1>3, <2>2 DEF Remove, FriendsConsented, RowsAsked, Consented, TypeOK, Row
  <2>4. \A f \in Rows : rows[f].status # "none" =>
          /\ rows'[f].status # "none"
          /\ {rows'[f].requester, rows'[f].addressee} = {rows[f].requester, rows[f].addressee}
    <3> SUFFICES ASSUME NEW f \in Rows, rows[f].status # "none"
                 PROVE  /\ rows'[f].status # "none"
                        /\ rows'[f].requester = rows[f].requester
                        /\ rows'[f].addressee = rows[f].addressee
      OBVIOUS
    <3>1. rows[f] \in Row
      BY <1>a DEF TypeOK
    <3> QED BY <2>2, <3>1 DEF Row
  <2>5. ASSUME NEW s \in Slots PROVE RequestAsked(requests[s])'
    <3>1. requests'[s] = requests[s] /\ asked' = asked
      BY <1>3 DEF Remove
    <3> QED BY <1>a, <3>1, <2>4 DEF RequestAsked, Joins
  <2> QED BY <2>1, <2>3, <2>5 DEF ConsentInv
<1>4. ASSUME NEW r \in Slots, NEW f \in Rows, SendCreate(r, f)
      PROVE  ConsentInv'
  <2>1. requests[r].user \in Users /\ requests[r].other \in Users
        /\ <<requests[r].user, requests[r].other>> \in asked
    BY <1>a, <1>b, <1>4 DEF SendCreate, RequestAsked, Request
  <2> QED BY <2>1, <1>4, RowWritten DEF SendCreate, Statuses
<1>5. ASSUME NEW r \in Slots, NEW f \in Rows, BlockCreate(r, f)
      PROVE  ConsentInv'
  <2>1. requests[r].user \in Users /\ requests[r].other \in Users
    BY <1>b DEF Request
  <2> QED BY <2>1, <1>5, RowWritten DEF BlockCreate, Statuses
<1>6. ASSUME NEW r \in Slots, NEW u \in Users, NEW f \in Rows, NEW answer \in Statuses,
             RespondBegin(r, u, f, answer)
      PROVE  ConsentInv'
  <2>1. PICK v \in Users :
          /\ Joins(f, u, v)
          /\ Goes(r, [pc |-> "respond.write", user |-> u, other |-> v, row |-> f, answer |-> answer])
          /\ asked' = IF answer = "ACCEPTED" THEN asked \cup {<<u, v>>} ELSE asked
    BY <1>6 DEF RespondBegin
  <2>2. asked' \in SUBSET (Users \X Users) /\ asked \subseteq asked' /\ rows' = rows
    <3>1. asked' \in {asked, asked \cup {<<u, v>>}} /\ rows' = rows
      BY <1>6, <2>1 DEF RespondBegin
    <3> QED BY <1>a, <3>1 DEF TypeOK
  <2>3. rows[f].status = "PENDING" /\ rows[f].addressee = u /\ answer \in {"ACCEPTED", "REJECTED"}
    BY <1>6 DEF RespondBegin, Answerable
  <2>4. <<rows[f].requester, u>> \in asked
    BY <1>a, <2>3 DEF RowsAsked
  <2>5. rows[f].requester = v \/ (rows[f].requester = u /\ u = v)
    BY <2>1, <2>3 DEF Joins
  <2> DEFINE q == [pc |-> "respond.write", user |-> u, other |-> v, row |-> f, answer |-> answer]
  <2>6. q \in Request
    BY DEF Request, Pc
  <2>7. answer = "ACCEPTED" => {<<u, v>>, <<v, u>>} \subseteq asked'
    BY <2>1, <2>4, <2>5
  <2>8. RequestAsked(q)'
    BY <2>1, <2>2, <2>3, <2>7 DEF RequestAsked, Joins
  <2> QED BY <2>1, <2>2, <2>6, <2>8, OnlyRequest
<1>7. ASSUME NEW r \in Slots, SendAgain(r)
      PROVE  ConsentInv'
  <2>1. requests[r].user \in Users /\ requests[r].other \in Users /\ requests[r].row \in Rows
        /\ <<requests[r].user, requests[r].other>> \in asked
        /\ Joins(requests[r].row, requests[r].user, requests[r].other)
    BY <1>a, <1>b, <1>7 DEF SendAgain, RequestAsked, Request
  <2> QED BY <2>1, <1>7, RowWritten DEF SendAgain, Statuses
<1>8. ASSUME NEW r \in Slots, RespondRead(r)
      PROVE  ConsentInv'
  <2>0. PICK q \in Request : q = requests[r]
    BY <1>b
  <2>1. q \in Request /\ q.pc = "respond.read" /\ q.row \in Rows /\ q.answer = "ACCEPTED"
        /\ <<q.user, q.other>> \in asked /\ Joins(q.row, q.user, q.other)
        /\ rows[q.row].status = "PENDING" /\ rows[q.row].addressee = q.user
    BY <1>a, <1>8, <2>0 DEF RespondRead, RequestAsked, Answerable
  <2>2. <<rows[q.row].requester, q.user>> \in asked
    BY <1>a, <2>1 DEF RowsAsked
  <2>3. <<q.other, q.user>> \in asked
    BY <2>1, <2>2 DEF Joins
  <2> DEFINE n == [q EXCEPT !.pc = "respond.write"]
  <2>4. n \in Request
    BY <2>1 DEF Request, Pc
  <2>5. rows' = rows /\ asked' = asked /\ Goes(r, n)
    BY <1>8, <2>0 DEF RespondRead
  <2>6. RequestAsked(n)'
    BY <2>1, <2>3, <2>5 DEF RequestAsked, Joins, Request
  <2> QED BY <1>a, <2>4, <2>5, <2>6, OnlyRequest DEF TypeOK
<1>9. ASSUME NEW r \in Slots, RespondWrite(r)
      PROVE  ConsentInv'
  <2> DEFINE q == requests[r]
  <2>1. q \in Request /\ q.row \in Rows /\ q.answer \in {"ACCEPTED", "REJECTED"}
        /\ Joins(q.row, q.user, q.other)
        /\ (q.answer = "ACCEPTED" => {<<q.user, q.other>>, <<q.other, q.user>>} \subseteq asked)
    BY <1>a, <1>b, <1>9 DEF RespondWrite, RequestAsked
  <2> DEFINE u == rows[q.row].requester
             v == rows[q.row].addressee
  <2>2. u \in Users /\ v \in Users /\ Joins(q.row, u, v)
    BY <1>a, <2>1 DEF TypeOK, Row, Joins
  <2>3. q.answer = "ACCEPTED" => {<<u, v>>, <<v, u>>} \subseteq asked
    BY <2>1 DEF Joins
  <2>4. Written(q.row, q.answer, u, v) /\ Ends(r) /\ asked' = asked
    BY <1>9 DEF RespondWrite
  <2>5. q.row \in Rows /\ q.answer \in Statuses /\ q.answer # "PENDING"
    BY <2>1 DEF Statuses
  <2> HIDE DEF u, v, q
  <2> QED BY <2>2, <2>3, <2>4, <2>5, RowWritten
<1>10. ASSUME NEW r \in Slots, BlockWrite(r)
       PROVE  ConsentInv'
  <2>1. requests[r].user \in Users /\ requests[r].other \in Users /\ requests[r].row \in Rows
        /\ Joins(requests[r].row, requests[r].user, requests[r].other)
    BY <1>a, <1>b, <1>10 DEF BlockWrite, RequestAsked, Request
  <2> QED BY <2>1, <1>10, RowWritten DEF BlockWrite, Statuses
<1>11. ASSUME NEW r \in Slots, Fails(r)
       PROVE  ConsentInv'
  BY <1>a, <1>11, OnlyRequest DEF Fails, Ends, TypeOK
<1>12. CASE UNCHANGED vars
  BY <1>a, <1>12 DEF vars, ConsentInv, TypeOK, FriendsConsented, RowsAsked, Consented, RequestAsked, Joins
<1> QED
  BY <1>1, <1>2, <1>3, <1>4, <1>5, <1>6, <1>7, <1>8, <1>9, <1>10, <1>11, <1>12 DEF Next

\* The invariant that carries the theorem below.
THEOREM ConsentInvariant == Spec => []ConsentInv
BY ConsentInit, ConsentStep, PTL DEF Spec

\* However requests, answers, re-sent requests and blocks interleave, of two
\* friends each has asked or accepted the other.
THEOREM FriendsAlwaysConsented == Spec => []FriendsConsented
<1>1. ConsentInv => FriendsConsented
  BY DEF ConsentInv
<1> QED BY <1>1, ConsentInvariant, PTL

-----------------------------------------------------------------------------
(* Requests served one after the other.                                     *)

OneBusy == \A r, s \in Slots : ~Free(r) /\ ~Free(s) => r = s

\* What a request has read before it writes is still so: that the pair has no
\* row, or what the status of its row is.
StillAsRead(q) ==
  /\ q.pc \in {"send.create", "block.create"} => Pair(q.user, q.other) = {}
  /\ q.pc = "send.again" => rows[q.row].status = "REJECTED"
  /\ q.pc = "respond.write" => rows[q.row].status = "PENDING"

AllStillAsRead == \A r \in Slots : StillAsRead(requests[r])

PairsOnce ==
  \A f, g \in Rows : Exists(f) /\ Exists(g) /\ Joins(f, rows[g].requester, rows[g].addressee) => f = g

SerialInv == ConsentInv /\ (~overlapped => OneBusy /\ AllStillAsRead /\ PairsOnce)

\* A step that overlaps nothing is of the one request there is.
LEMMA OthersFree ==
  ASSUME TypeOK, NEW r \in Slots, NEW q, Goes(r, q), \A s \in Busy : requests'[s] # requests[s]
  PROVE  /\ requests'[r] = q
         /\ \A s \in Slots \ {r} : requests[s].pc = "idle" /\ requests'[s].pc = "idle"
BY DEF TypeOK, Goes, Busy, Free

LEMMA SerialBegin ==
  ASSUME TypeOK, PairsOnce, NEW r \in Slots, NEW q, Goes(r, q), \A s \in Busy : requests'[s] # requests[s],
         rows' = rows, StillAsRead(q)
  PROVE  (OneBusy /\ AllStillAsRead /\ PairsOnce)'
<1>1. /\ requests'[r] = q
      /\ \A s \in Slots \ {r} : requests'[s].pc = "idle"
  BY OthersFree
<1>2. PairsOnce'
  BY DEF PairsOnce, Exists, Joins
<1>3. AllStillAsRead'
  BY <1>1 DEF AllStillAsRead, StillAsRead, Pair, Exists, Joins
<1>4. OneBusy'
  BY <1>1 DEF OneBusy, Free
<1> QED BY <1>2, <1>3, <1>4

LEMMA SerialWrite ==
  ASSUME TypeOK, PairsOnce, NEW r \in Slots, Ends(r), \A s \in Busy : requests'[s] # requests[s],
         NEW f \in Rows, NEW status \in Statuses, NEW u \in Users, NEW v \in Users,
         Written(f, status, u, v),
         (Exists(f) /\ Joins(f, u, v)) \/ Pair(u, v) = {}
  PROVE  (OneBusy /\ AllStillAsRead /\ PairsOnce)'
<1>1. /\ requests'[r] = Idle
      /\ \A s \in Slots \ {r} : requests'[s].pc = "idle"
  BY OthersFree DEF Ends
<1>2. \A s \in Slots : requests'[s].pc = "idle"
  BY <1>1 DEF Idle
<1>3. OneBusy' /\ AllStillAsRead'
  BY <1>2 DEF OneBusy, AllStillAsRead, StillAsRead, Free
<1>4. /\ rows'[f].requester = u /\ rows'[f].addressee = v
      /\ \A g \in Rows \ {f} : rows'[g] = rows[g]
  BY DEF Written, TypeOK
<1>5. \A g \in Rows \ {f} : Exists(g) => {rows[g].requester, rows[g].addressee} # {u, v}
  <2>1. CASE Exists(f) /\ Joins(f, u, v)
    BY <2>1 DEF PairsOnce, Joins
  <2>2. CASE Pair(u, v) = {}
    BY <2>2 DEF Pair, Joins
  <2> QED BY <2>1, <2>2
<1>6. PairsOnce'
  <2> SUFFICES ASSUME NEW g \in Rows, NEW h \in Rows, Exists(g)', Exists(h)',
                      Joins(g, rows[h].requester, rows[h].addressee)'
               PROVE  g = h
    BY DEF PairsOnce
  <2>1. CASE g # f /\ h # f
    BY <1>4, <2>1 DEF PairsOnce, Exists, Joins
  <2>2. CASE g = f /\ h # f
    BY <1>4, <1>5, <2>2 DEF Exists, Joins
  <2>3. CASE h = f /\ g # f
    BY <1>4, <1>5, <2>3 DEF Exists, Joins
  <2> QED BY <2>1, <2>2, <2>3
<1> QED BY <1>3, <1>6

LEMMA SerialInit == MCInit => SerialInv
<1> SUFFICES ASSUME MCInit PROVE SerialInv
  OBVIOUS
<1>1. \A r \in Slots : requests[r].pc = "idle"
  BY DEF MCInit, Init, Idle
<1>2. \A f \in Rows : ~Exists(f)
  BY DEF MCInit, Init, NoneRow, Exists, Statuses
<1> QED BY <1>1, <1>2, ConsentInit
    DEF MCInit, SerialInv, OneBusy, AllStillAsRead, StillAsRead, PairsOnce, Free

LEMMA SerialStep == SerialInv /\ [MCNext]_<<vars, overlapped>> => SerialInv'
<1> SUFFICES ASSUME SerialInv, [MCNext]_<<vars, overlapped>>, ~overlapped'
             PROVE  (OneBusy /\ AllStillAsRead /\ PairsOnce)'
  BY ConsentStep DEF SerialInv, MCNext, vars
<1>0. ~overlapped
  BY DEF MCNext
<1>1. /\ ConsentInv /\ TypeOK /\ OneBusy /\ AllStillAsRead /\ PairsOnce
      /\ \A r \in Slots : requests[r] \in Request /\ RequestAsked(requests[r])
  BY <1>0 DEF SerialInv, ConsentInv, TypeOK
<1>2. CASE UNCHANGED <<vars, overlapped>>
  BY <1>1, <1>2 DEF vars, OneBusy, AllStillAsRead, StillAsRead, PairsOnce, Free, Pair, Exists, Joins
<1> SUFFICES ASSUME NEW r \in Slots,
               \/ \E u, v \in Users : SendBegin(r, u, v) \/ BlockBegin(r, u, v) \/ Remove(r, u, v)
               \/ \E f \in Rows : SendCreate(r, f) \/ BlockCreate(r, f)
               \/ \E u \in Users, f \in Rows, answer \in Statuses : RespondBegin(r, u, f, answer)
               \/ SendAgain(r) \/ RespondRead(r) \/ RespondWrite(r) \/ BlockWrite(r) \/ Fails(r),
               \A s \in Busy : requests'[s] # requests[s]
             PROVE  (OneBusy /\ AllStillAsRead /\ PairsOnce)'
  BY <1>2 DEF MCNext, Next
<1>3. ASSUME NEW u \in Users, NEW v \in Users, SendBegin(r, u, v) \/ BlockBegin(r, u, v)
      PROVE  (OneBusy /\ AllStillAsRead /\ PairsOnce)'
  <2>1. rows' = rows
    BY <1>3 DEF SendBegin, BlockBegin
  <2>2. ASSUME NEW pc \in {"send.create", "block.create"}, Pair(u, v) = {},
               Goes(r, [Idle EXCEPT !.pc = pc, !.user = u, !.other = v])
        PROVE  (OneBusy /\ AllStillAsRead /\ PairsOnce)'
    <3> DEFINE q == [Idle EXCEPT !.pc = pc, !.user = u, !.other = v]
    <3>1. q.pc = pc /\ q.user = u /\ q.other = v /\ Goes(r, q)
      BY <2>2 DEF Idle
    <3> HIDE DEF q
    <3>2. StillAsRead(q)
      BY <2>2, <3>1 DEF StillAsRead
    <3> QED BY <1>1, <2>1, <3>1, <3>2, SerialBegin
  <2>3. ASSUME NEW f, NEW pc \in {"send.again", "block.write"},
               pc = "send.again" => rows[f].status = "REJECTED",
               Goes(r, [Idle EXCEPT !.pc = pc, !.user = u, !.other = v, !.row = f])
        PROVE  (OneBusy /\ AllStillAsRead /\ PairsOnce)'
    <3> DEFINE q == [Idle EXCEPT !.pc = pc, !.user = u, !.other = v, !.row = f]
    <3>1. q.pc = pc /\ q.row = f /\ Goes(r, q)
      BY <2>3 DEF Idle
    <3> HIDE DEF q
    <3>2. StillAsRead(q)
      BY <2>3, <3>1 DEF StillAsRead
    <3> QED BY <1>1, <2>1, <3>1, <3>2, SerialBegin
  <2>4. ASSUME NEW f, Goes(r, [pc |-> "respond.read", user |-> u, other |-> v, row |-> f,
                               answer |-> "ACCEPTED"])
        PROVE  (OneBusy /\ AllStillAsRead /\ PairsOnce)'
    <3> DEFINE q == [pc |-> "respond.read", user |-> u, other |-> v, row |-> f, answer |-> "ACCEPTED"]
    <3>1. StillAsRead(q) /\ Goes(r, q)
      BY <2>4 DEF StillAsRead
    <3> HIDE DEF q
    <3> QED BY <1>1, <2>1, <3>1, SerialBegin
  <2>5. CASE SendBegin(r, u, v)
    BY <2>2, <2>3, <2>4, <2>5 DEF SendBegin
  <2>6. CASE BlockBegin(r, u, v)
    BY <2>2, <2>3, <2>6 DEF BlockBegin
  <2> QED BY <1>3, <2>5, <2>6
<1>4. ASSUME NEW u \in Users, NEW f \in Rows, NEW answer \in Statuses, RespondBegin(r, u, f, answer)
      PROVE  (OneBusy /\ AllStillAsRead /\ PairsOnce)'
  <2>1. PICK q : Goes(r, q) /\ rows' = rows /\ StillAsRead(q)
    BY <1>4 DEF RespondBegin, Answerable, StillAsRead
  <2> QED BY <1>1, <2>1, SerialBegin
<1>5. CASE RespondRead(r)
  <2>1. PICK q : Goes(r, q) /\ rows' = rows /\ StillAsRead(q)
    BY <1>1, <1>5 DEF RespondRead, Answerable, StillAsRead, Request
  <2> QED BY <1>1, <2>1, SerialBegin
<1>6. CASE Fails(r)
  <2>1. Goes(r, Idle) /\ StillAsRead(Idle) /\ rows' = rows
    BY <1>6 DEF Fails, Ends, Idle, StillAsRead
  <2> QED BY <1>1, <2>1, SerialBegin
<1>7. ASSUME NEW f \in Rows, SendCreate(r, f) \/ BlockCreate(r, f)
      PROVE  (OneBusy /\ AllStillAsRead /\ PairsOnce)'
  <2> DEFINE u == requests[r].user
             v == requests[r].other
  <2>1. u \in Users /\ v \in Users /\ Pair(u, v) = {}
    BY <1>1, <1>7 DEF Request, AllStillAsRead, StillAsRead, SendCreate, BlockCreate
  <2>2. Ends(r) /\ \E status \in Statuses : Written(f, status, u, v)
    BY <1>7 DEF SendCreate, BlockCreate, Statuses
  <2> HIDE DEF u, v
  <2> QED BY <1>1, <2>1, <2>2, SerialWrite
<1>8. CASE SendAgain(r) \/ BlockWrite(r)
  <2> DEFINE q == requests[r]
  <2>1. /\ q.user \in Users /\ q.other \in Users /\ q.row \in Rows
        /\ Exists(q.row) /\ Joins(q.row, q.user, q.other)
    BY <1>1, <1>8 DEF Request, RequestAsked, SendAgain, BlockWrite
  <2>2. Ends(r) /\ \E status \in Statuses : Written(q.row, status, q.user, q.other)
    BY <1>8 DEF SendAgain, BlockWrite, Statuses
  <2> HIDE DEF q
  <2> QED BY <1>1, <2>1, <2>2, SerialWrite
<1>9. CASE RespondWrite(r)
  <2> DEFINE f == requests[r].row
             u == rows[f].requester
             v == rows[f].addressee
  <2>1. /\ f \in Rows /\ u \in Users /\ v \in Users /\ Exists(f) /\ Joins(f, u, v)
        /\ requests[r].answer \in Statuses
    BY <1>1, <1>9 DEF RespondWrite, Exists, Joins, TypeOK, Row, Request
  <2>2. Ends(r) /\ Written(f, requests[r].answer, u, v)
    BY <1>9 DEF RespondWrite
  <2> HIDE DEF f, u, v
  <2> QED BY <1>1, <2>1, <2>2, SerialWrite
<1>10. ASSUME NEW u \in Users, NEW v \in Users, Remove(r, u, v)
       PROVE  (OneBusy /\ AllStillAsRead /\ PairsOnce)'
  <2>1. \A s \in Slots : requests'[s].pc = "idle"
    BY <1>10 DEF Remove, Busy, Free
  <2>2. OneBusy' /\ AllStillAsRead'
    BY <2>1 DEF OneBusy, AllStillAsRead, StillAsRead, Free
  <2>3. \A f \in Rows : /\ rows'[f].requester = rows[f].requester
                        /\ rows'[f].addressee = rows[f].addressee
                        /\ Exists(f)' => Exists(f)
    BY <1>1, <1>10 DEF Remove, Exists, TypeOK, Row, Statuses
  <2>4. PairsOnce'
    BY <1>1, <2>3 DEF PairsOnce, Joins
  <2> QED BY <2>2, <2>4
<1> QED BY <1>3, <1>4, <1>5, <1>6, <1>7, <1>8, <1>9, <1>10

\* One request after the other, two people share one row, in whichever
\* direction it was written.
THEOREM OneRowPerPairSerially == MCSpec => []SerialOneRowPerPair
<1>1. SerialInv => SerialOneRowPerPair
  <2> SUFFICES ASSUME PairsOnce, NEW u \in Users, NEW v \in Users
               PROVE  Cardinality({f \in Rows : Exists(f) /\ Joins(f, u, v)}) <= 1
    BY DEF SerialInv, SerialOneRowPerPair, OneRowPerPair
  <2> DEFINE both == {f \in Rows : Exists(f) /\ Joins(f, u, v)}
  <2>1. \A f, g \in both : f = g
    <3> SUFFICES ASSUME NEW f \in both, NEW g \in both
                 PROVE  Joins(f, rows[g].requester, rows[g].addressee)
      BY DEF PairsOnce
    <3> QED BY DEF Joins
  <2> HIDE DEF both
  <2>2. CASE both = {}
    BY <2>2, FS_EmptySet DEF both
  <2>3. ASSUME NEW f \in both PROVE Cardinality(both) <= 1
    <3>1. both = {f}
      BY <2>1
    <3>2. Cardinality({f}) = 1
      BY FS_Singleton
    <3> QED BY <3>1, <3>2
  <2> QED BY <2>2, <2>3 DEF both
<1> QED BY <1>1, SerialInit, SerialStep, PTL DEF MCSpec

\* While a request is served alone, a block that is there stays there, and so
\* does the pair it is about.
LEMMA BlockedRowStays ==
  ASSUME SerialInv, MCNext, ~overlapped', NEW f \in Rows, rows[f].status = "BLOCKED"
  PROVE  /\ rows'[f].status = "BLOCKED"
         /\ {rows'[f].requester, rows'[f].addressee} = {rows[f].requester, rows[f].addressee}
<1>0. ~overlapped
  BY DEF MCNext
<1>1. /\ TypeOK
      /\ \A r \in Slots : /\ requests[r] \in Request /\ RequestAsked(requests[r])
                          /\ StillAsRead(requests[r])
  BY <1>0 DEF SerialInv, ConsentInv, TypeOK, AllStillAsRead
<1>2. ASSUME rows'[f] = rows[f]
      PROVE  /\ rows'[f].status = "BLOCKED"
             /\ {rows'[f].requester, rows'[f].addressee} = {rows[f].requester, rows[f].addressee}
  BY <1>2
<1>3. ASSUME NEW g \in Rows, rows[g].status # "BLOCKED",
             NEW status, NEW u, NEW v, Written(g, status, u, v)
      PROVE  rows'[f] = rows[f]
  BY <1>1, <1>3 DEF Written, TypeOK
<1>4. ASSUME NEW r \in Slots, SendAgain(r) \/ RespondWrite(r)
      PROVE  rows'[f] = rows[f]
  <2>1. requests[r].row \in Rows /\ rows[requests[r].row].status # "BLOCKED"
    BY <1>1, <1>4 DEF SendAgain, RespondWrite, StillAsRead, Exists
  <2> QED BY <1>3, <1>4, <2>1 DEF SendAgain, RespondWrite
<1>5. ASSUME NEW r \in Slots, NEW g \in Rows, SendCreate(r, g) \/ BlockCreate(r, g)
      PROVE  rows'[f] = rows[f]
  BY <1>3, <1>5 DEF SendCreate, BlockCreate
<1>6. ASSUME NEW r \in Slots, BlockWrite(r)
      PROVE  /\ rows'[f].status = "BLOCKED"
             /\ {rows'[f].requester, rows'[f].addressee} = {rows[f].requester, rows[f].addressee}
  <2>1. /\ requests[r].row \in Rows /\ Joins(requests[r].row, requests[r].user, requests[r].other)
        /\ Written(requests[r].row, "BLOCKED", requests[r].user, requests[r].other)
    BY <1>1, <1>6 DEF BlockWrite, RequestAsked
  <2> QED BY <1>1, <1>2, <2>1 DEF Written, Joins, TypeOK
<1>7. ASSUME NEW r \in Slots, NEW u \in Users, NEW v \in Users, Remove(r, u, v)
      PROVE  rows'[f] = rows[f]
  BY <1>7 DEF Remove
<1>8. CASE UNCHANGED rows
  BY <1>2, <1>8
<1> QED BY <1>2, <1>4, <1>5, <1>6, <1>7, <1>8
    DEF MCNext, Next, SendBegin, BlockBegin, RespondBegin, RespondRead, Fails

\* One request after the other, a block stays, and the two are no friends.
THEOREM BlocksHoldSerially == MCSpec => SerialBlocksHold
<1>1. SerialInv /\ SerialInv' /\ [MCNext]_<<vars, overlapped>> =>
        [~overlapped' => BlockHolds]_vars
  <2> SUFFICES ASSUME SerialInv, SerialInv', MCNext, ~overlapped',
                      NEW u \in Users, NEW v \in Users, Blocked(u, v)
               PROVE  Blocked(u, v)' /\ ~AreFriends(u, v)'
    BY DEF BlockHolds, vars
  <2>1. PICK f \in Rows : Exists(f) /\ Joins(f, u, v) /\ rows[f].status = "BLOCKED"
    BY DEF Blocked, Pair
  <2>2. rows'[f].status = "BLOCKED" /\ Joins(f, u, v)'
    BY <2>1, BlockedRowStays DEF Joins
  <2>3. f \in Pair(u, v)'
    BY <2>2 DEF Pair, Exists, Statuses
  <2>4. PairsOnce'
    BY DEF SerialInv
  <2>5. \A g \in Pair(u, v)' : g = f
    <3> SUFFICES ASSUME NEW g \in Rows, Exists(g)', Joins(g, u, v)'
                 PROVE  g = f
      BY DEF Pair
    <3>1. Exists(f)' /\ Joins(g, rows[f].requester, rows[f].addressee)'
      BY <2>2, <2>3 DEF Joins, Pair
    <3> QED BY <2>4, <3>1 DEF PairsOnce
  <2> QED BY <2>2, <2>3, <2>5 DEF Blocked, AreFriends
<1>2. MCSpec => []SerialInv
  BY SerialInit, SerialStep, PTL DEF MCSpec
<1> QED BY <1>1, <1>2, PTL DEF MCSpec, SerialBlocksHold

=============================================================================
