------------------------- MODULE IdempotencyProofs -------------------------
(***************************************************************************)
(* While no handler outlives its key's day, however many attempts race and *)
(* whatever else fails, one attempt at a time runs under a key, what is    *)
(* replayed was decided as the answer to the same body, and no two         *)
(* attempts succeed.  If only crashes can happen, no two attempts save     *)
(* what the key asks for at all.                                           *)
(***************************************************************************)
EXTENDS Idempotency, TLAPS

\* What a step of one attempt leaves as it was.
Steps(a, pc, answer) ==
  /\ attempts' \in [Attempts -> Attempt]
  /\ \A b \in Attempts \ {a} : attempts'[b] = attempts[b]
  /\ \A b \in Attempts : attempts'[b].body = attempts[b].body
  /\ attempts'[a].pc = pc
  /\ attempts'[a].answer = answer

LEMMA Moved ==
  ASSUME TypeOK, NEW a \in Attempts, NEW pc \in Pc, NEW answer \in Outcomes, Moves(a, pc, answer)
  PROVE  /\ Steps(a, pc, answer)
         /\ attempts'[a].seen = attempts[a].seen /\ attempts'[a].replayOf = attempts[a].replayOf
  BY DEF TypeOK, Attempt, Moves, Steps

LEMMA Went ==
  ASSUME TypeOK, NEW a \in Attempts, NEW pc \in Pc, Goes(a, pc)
  PROVE  /\ Steps(a, pc, attempts[a].answer)
         /\ attempts'[a].seen = attempts[a].seen /\ attempts'[a].replayOf = attempts[a].replayOf
  BY DEF TypeOK, Attempt, Goes, Steps

\* An attempt that is done is what others have replayed, and it stays.
LEMMA ReplaysKept ==
  ASSUME KeyInv, NEW a \in Attempts, NEW pc, NEW answer, Steps(a, pc, answer), ~Settled(a),
         attempts'[a].replayOf = attempts[a].replayOf
  PROVE  ReplaysDone' /\ ReplaysFaithful'
  <1>1. attempts[a].replayOf = NoOne
    BY DEF KeyInv, ReplaysDone, At, Settled
  <1>2. ASSUME NEW b \in Attempts, attempts'[b].replayOf # NoOne
        PROVE  /\ attempts'[b] = attempts[b]
               /\ attempts[b].replayOf \in Attempts
               /\ attempts'[attempts[b].replayOf] = attempts[attempts[b].replayOf]
               /\ At(b, "done") /\ Settled(attempts[b].replayOf)
    <2>1. b # a
      BY <1>1, <1>2
    <2>2. attempts'[b] = attempts[b]
      BY <2>1 DEF Steps
    <2>3. attempts[b].replayOf \in Attempts /\ At(b, "done") /\ Settled(attempts[b].replayOf)
      BY <1>2, <2>2 DEF KeyInv, ReplaysDone
    <2> QED BY <2>2, <2>3 DEF Steps, At, Settled
  <1>3. ReplaysDone'
    BY <1>2 DEF ReplaysDone, At, Settled
  <1>4. ReplaysFaithful'
    BY <1>2 DEF KeyInv, ReplaysFaithful
  <1> QED BY <1>3, <1>4

\* The row and the attempts agree when one attempt moves on without the row
\* and neither starts nor ends as a holder.
LEMMA RowKept ==
  ASSUME KeyInv, NEW a \in Attempts, NEW pc, NEW answer, Steps(a, pc, answer), ~Settled(a),
         row' = row, pc \notin {"run", "store", "release"}, a \notin Holding
  PROVE  RunnerOwnsRow' /\ RowHasAuthor' /\ CompletedByAuthor'
  <1>1. \A b \in Attempts : b # a => attempts'[b] = attempts[b]
    BY DEF Steps
  <1>2. Holding' = Holding
    BY <1>1 DEF Holding, Steps
  <1>3. row # NoRow => row.by \in Attempts /\ row.by # a
    BY DEF KeyInv, RowHasAuthor
  <1>4. row.status = "COMPLETED" \/ row.expired => row # NoRow
    BY DEF NoRow
  <1>5. RunnerOwnsRow'
    BY <1>2 DEF KeyInv, RunnerOwnsRow
  <1>6. RowHasAuthor'
    BY <1>1, <1>2, <1>3, <1>4 DEF KeyInv, RowHasAuthor, At, Settled
  <1>7. CompletedByAuthor'
    BY <1>1, <1>3, <1>4 DEF KeyInv, CompletedByAuthor
  <1> QED BY <1>5, <1>6, <1>7

\* A step of a disturbs no one about to clear a stale row but a.
LEMMA ClearsKept ==
  ASSUME KeyInv, NEW a \in Attempts, NEW pc, NEW answer, Steps(a, pc, answer), ~Settled(a),
         pc # "clear",
         \A b \in Attempts : Settled(b) /\ row'.by = b =>
            row.by = b /\ (row.expired => row'.expired)
  PROVE  ClearsStale'
  <1>1. ASSUME NEW c \in Attempts, At(c, "clear")'
        PROVE  attempts'[c] = attempts[c] /\ At(c, "clear")
    BY <1>1 DEF Steps, At, Settled
  <1>2. ASSUME NEW c \in Attempts, At(c, "clear")'
        PROVE  LET b == attempts[c].seen IN
               /\ b \in Attempts /\ Settled(b) /\ attempts'[b] = attempts[b]
               /\ row.by = b => row.expired
    BY <1>1, <1>2 DEF KeyInv, ClearsStale, Steps, At, Settled
  <1> QED BY <1>1, <1>2 DEF ClearsStale, At, Settled

LEMMA StoresKept ==
  ASSUME KeyInv, NEW a \in Attempts, NEW pc, NEW answer, Steps(a, pc, answer),
         pc = "store" => answer \in {"2xx", "4xx"}
  PROVE  StoresAnswer'
  BY DEF KeyInv, StoresAnswer, Steps, At, Settled

-----------------------------------------------------------------------------
LEMMA SendKeeps ==
  ASSUME KeyInv, NEW a \in Attempts, Send(a)
  PROVE  KeyInv'
  <1>1. /\ Steps(a, "reserve", attempts[a].answer)
        /\ attempts'[a].replayOf = attempts[a].replayOf
    BY Went DEF Send, KeyInv, Pc
  <1>2. ~Settled(a) /\ a \notin Holding /\ row' = row
    BY DEF Send, At, Settled, Holding
  <1>3. TypeOK'
    BY <1>1 DEF Send, KeyInv, TypeOK, Steps
  <1> QED BY <1>1, <1>2, <1>3, ReplaysKept, RowKept, ClearsKept, StoresKept DEF KeyInv

LEMMA ReserveKeeps ==
  ASSUME KeyInv, NEW a \in Attempts, Reserve(a)
  PROVE  KeyInv'
  <1>1. TypeOK /\ ~Settled(a) /\ a \notin Holding
    BY DEF Reserve, At, Settled, Holding, KeyInv
  <1>2. CASE row = NoRow /\ Goes(a, "run")
             /\ row' = [NoRow EXCEPT !.by = a, !.status = "PENDING", !.body = attempts[a].body]
    <2>1. /\ Steps(a, "run", attempts[a].answer)
          /\ attempts'[a].replayOf = attempts[a].replayOf
      BY <1>1, <1>2, Went DEF Pc
    <2>2. /\ row'.by = a /\ row'.status = "PENDING" /\ row'.body = attempts[a].body
          /\ row'.expired = FALSE /\ row' \in RowType /\ row' # NoRow
      BY <1>1, <1>2 DEF NoRow, RowType, TypeOK, Attempt, Answers
    <2>3. Holding = {}
      BY <1>2, FaultsAssumption DEF KeyInv, RunnerOwnsRow, NoRow
    <2>4. Holding' = {a}
      BY <2>1, <2>3 DEF Holding, Steps
    <2>5. TypeOK'
      BY <1>1, <2>1, <2>2 DEF Reserve, TypeOK, Steps
    <2>6. RunnerOwnsRow' /\ RowHasAuthor' /\ CompletedByAuthor'
      BY <2>1, <2>2, <2>4 DEF RunnerOwnsRow, RowHasAuthor, CompletedByAuthor, Steps, At, Settled
    <2>7. ClearsStale'
      BY <1>1, <2>1, <2>2, ClearsKept
    <2> QED BY <1>1, <2>1, <2>5, <2>6, <2>7, ReplaysKept, StoresKept DEF KeyInv
  <1>3. CASE Goes(a, "lookup") /\ UNCHANGED row
    <2>1. /\ Steps(a, "lookup", attempts[a].answer)
          /\ attempts'[a].replayOf = attempts[a].replayOf
      BY <1>1, <1>3, Went DEF Pc
    <2>2. TypeOK'
      BY <1>1, <1>3, <2>1 DEF Reserve, TypeOK, Steps
    <2> QED
      BY <1>1, <1>3, <2>1, <2>2, ReplaysKept, RowKept, ClearsKept, StoresKept DEF KeyInv
  <1> QED BY <1>2, <1>3 DEF Reserve

LEMMA LookupKeeps ==
  ASSUME KeyInv, NEW a \in Attempts, Lookup(a)
  PROVE  KeyInv'
  <1>1. TypeOK /\ ~Settled(a) /\ a \notin Holding /\ row' = row /\ saved' = saved
    BY DEF Lookup, At, Settled, Holding, KeyInv
  <1>2. ASSUME NEW pc \in {"reserve", "done"}, NEW answer \in Outcomes, Steps(a, pc, answer),
               attempts'[a].replayOf = attempts[a].replayOf
        PROVE  KeyInv'
    <2>1. TypeOK'
      BY <1>1, <1>2 DEF TypeOK, Steps
    <2> QED BY <1>1, <1>2, <2>1, ReplaysKept, RowKept, ClearsKept, StoresKept DEF KeyInv
  <1>3. CASE Goes(a, "reserve")
    <2>1. attempts[a].answer \in Outcomes
      BY <1>1 DEF TypeOK, Attempt
    <2> QED BY <1>1, <1>2, <1>3, <2>1, Went DEF Pc
  <1>4. CASE Moves(a, "done", "422 mismatch") \/ Moves(a, "done", "409 busy")
    BY <1>1, <1>2, <1>4, Moved DEF Pc, Outcomes
  <1>5. CASE /\ row # NoRow /\ row.expired
             /\ attempts' = [attempts EXCEPT ![a].pc = "clear", ![a].seen = row.by]
    <2>1. row.by \in Attempts /\ Settled(row.by)
      BY <1>5 DEF KeyInv, RowHasAuthor
    <2>2. /\ Steps(a, "clear", attempts[a].answer)
          /\ attempts'[a].seen = row.by /\ attempts'[a].replayOf = attempts[a].replayOf
      BY <1>1, <1>5, <2>1 DEF TypeOK, Attempt, Pc, Steps
    <2>3. TypeOK'
      BY <1>1, <2>2 DEF TypeOK, Steps
    <2>4. ClearsStale'
      <3>1. \A b \in Attempts : b # a => attempts'[b] = attempts[b]
        BY <2>2 DEF Steps
      <3>2. \A b \in Attempts : Settled(b) => Settled(b)'
        BY <1>1, <3>1 DEF Settled
      <3>3. ASSUME NEW c \in Attempts, At(c, "clear")'
            PROVE  /\ attempts'[c].seen \in Attempts /\ Settled(attempts'[c].seen)
                   /\ row.by = attempts'[c].seen => row.expired
        <4>1. CASE c = a
          BY <1>5, <2>1, <2>2, <4>1
        <4>2. CASE c # a
          <5>1. attempts'[c] = attempts[c] /\ At(c, "clear")
            BY <3>1, <3>3, <4>2 DEF At
          <5> QED BY <5>1 DEF KeyInv, ClearsStale
        <4> QED BY <4>1, <4>2
      <3> QED BY <1>1, <3>2, <3>3 DEF ClearsStale
    <2> QED BY <1>1, <2>2, <2>3, <2>4, ReplaysKept, RowKept, StoresKept DEF KeyInv
  <1>6. CASE /\ row # NoRow /\ row.body = attempts[a].body /\ row.status = "COMPLETED"
             /\ attempts' = [attempts EXCEPT ![a] = [@ EXCEPT !.pc = "done",
                                                !.answer = row.answer, !.replayOf = row.by]]
    <2>1. /\ row.by \in Attempts /\ Settled(row.by) /\ row.body = attempts[row.by].body
          /\ attempts[row.by].answer = row.answer
      BY <1>6 DEF KeyInv, RowHasAuthor, CompletedByAuthor
    <2>2. row.answer \in Outcomes
      BY <1>1 DEF TypeOK, RowType, Outcomes
    <2>3. /\ Steps(a, "done", row.answer)
          /\ attempts'[a].replayOf = row.by
      <3> DEFINE q == [attempts[a] EXCEPT !.pc = "done", !.answer = row.answer, !.replayOf = row.by]
      <3>1. /\ q \in Attempt /\ q.pc = "done" /\ q.answer = row.answer /\ q.replayOf = row.by
            /\ q.body = attempts[a].body
        BY <1>1, <2>1, <2>2 DEF TypeOK, Attempt, Pc
      <3>2. attempts' = [attempts EXCEPT ![a] = q]
        BY <1>6
      <3> HIDE DEF q
      <3> QED BY <1>1, <3>1, <3>2 DEF TypeOK, Steps
    <2>4. TypeOK'
      BY <1>1, <2>3 DEF TypeOK, Steps
    <2>5. ReplaysDone' /\ ReplaysFaithful'
      <3>1. ASSUME NEW b \in Attempts, b # a, attempts'[b].replayOf # NoOne
            PROVE  LET c == attempts[b].replayOf IN
                   /\ attempts'[b] = attempts[b] /\ attempts'[c] = attempts[c]
                   /\ c \in Attempts /\ At(b, "done") /\ Settled(c)
        <4>1. attempts'[b] = attempts[b]
          BY <2>3, <3>1 DEF Steps
        <4>2. LET c == attempts[b].replayOf IN c \in Attempts /\ At(b, "done") /\ Settled(c)
          BY <3>1, <4>1 DEF KeyInv, ReplaysDone
        <4> QED BY <1>1, <2>3, <4>1, <4>2 DEF Steps, At, Settled
      <3>2. attempts'[row.by] = attempts[row.by] /\ row.by # a
        BY <1>1, <2>1, <2>3 DEF Steps, At, Settled
      <3>3. ReplaysDone'
        BY <2>1, <2>3, <3>1, <3>2 DEF ReplaysDone, Steps, At, Settled
      <3>4. ReplaysFaithful'
        <4>1. ASSUME NEW b \in Attempts, b # a, attempts'[b].replayOf # NoOne
              PROVE  /\ attempts'[b].body = attempts'[attempts'[b].replayOf].body
                     /\ attempts'[b].answer = attempts'[attempts'[b].replayOf].answer
          BY <3>1, <4>1 DEF KeyInv, ReplaysFaithful
        <4>2. /\ attempts'[a].body = attempts'[attempts'[a].replayOf].body
              /\ attempts'[a].answer = attempts'[attempts'[a].replayOf].answer
          BY <1>6, <2>1, <2>3, <3>2 DEF Steps
        <4> QED BY <4>1, <4>2 DEF ReplaysFaithful
      <3> QED BY <3>3, <3>4
    <2> QED BY <1>1, <2>3, <2>4, <2>5, RowKept, ClearsKept, StoresKept DEF KeyInv
  <1> QED BY <1>3, <1>4, <1>5, <1>6 DEF Lookup

LEMMA ClearStaleKeeps ==
  ASSUME KeyInv, NEW a \in Attempts, ClearStale(a)
  PROVE  KeyInv'
  <1> DEFINE b == attempts[a].seen
  <1>1. /\ TypeOK /\ ~Settled(a) /\ a \notin Holding /\ saved' = saved
        /\ row' = IF row.by = b THEN NoRow ELSE row
        /\ b \in Attempts /\ Settled(b) /\ (row.by = b => row.expired)
    BY DEF ClearStale, At, Settled, Holding, KeyInv, ClearsStale
  <1>2. /\ Steps(a, "reserve", attempts[a].answer)
        /\ attempts'[a].replayOf = attempts[a].replayOf
    BY <1>1 DEF ClearStale, Steps, TypeOK, Attempt, Pc
  <1>3. TypeOK'
    BY <1>1, <1>2 DEF TypeOK, Steps, NoRow, RowType, Answers
  <1>4. RunnerOwnsRow' /\ RowHasAuthor' /\ CompletedByAuthor'
    <2>1. CASE row.by = b
      <3>1. Holding' = {}
        BY <1>1, <1>2, <2>1 DEF KeyInv, RunnerOwnsRow, Holding, Steps
      <3> QED
        BY <1>1, <2>1, <3>1 DEF RunnerOwnsRow, RowHasAuthor, CompletedByAuthor, NoRow
    <2>2. CASE row.by # b
      BY <1>1, <1>2, <2>2, RowKept
    <2> QED BY <2>1, <2>2
  <1>5. ClearsStale'
    BY <1>1, <1>2, ClearsKept, FaultsAssumption DEF NoRow
  <1> QED BY <1>1, <1>2, <1>3, <1>4, <1>5, ReplaysKept, StoresKept DEF KeyInv

-----------------------------------------------------------------------------
\* A holder that goes on holding.
LEMMA HolderStays ==
  ASSUME KeyInv, NEW a \in Holding, NEW pc \in {"store", "release"}, NEW answer,
         Steps(a, pc, answer), row' = row
  PROVE  RunnerOwnsRow' /\ RowHasAuthor' /\ CompletedByAuthor' /\ ClearsStale'
  <1>1. a \in Attempts /\ row.by = a /\ row.status = "PENDING" /\ ~row.expired /\ ~Settled(a)
    BY DEF KeyInv, RunnerOwnsRow, Holding, At, Settled
  <1>2. Holding' = Holding
    BY <1>1 DEF Holding, Steps
  <1>3. RunnerOwnsRow' /\ CompletedByAuthor'
    BY <1>1, <1>2 DEF KeyInv, RunnerOwnsRow, CompletedByAuthor
  <1>4. RowHasAuthor'
    BY <1>1, <1>2 DEF KeyInv, RowHasAuthor, Steps
  <1>5. ClearsStale'
    BY <1>1, ClearsKept
  <1> QED BY <1>3, <1>4, <1>5

\* A holder that ends, with the row complete, as it was, or gone.
LEMMA HolderEnds ==
  ASSUME KeyInv, NEW a \in Holding, NEW answer, Steps(a, "answer", answer),
         \/ row' = row
         \/ row' = NoRow
         \/ /\ row' \in RowType /\ row'.by = a /\ row'.body = row.body
            /\ row'.answer = answer /\ row'.expired = row.expired
  PROVE  RunnerOwnsRow' /\ RowHasAuthor' /\ CompletedByAuthor' /\ ClearsStale'
  <1>1. /\ a \in Attempts /\ row.by = a /\ row.status = "PENDING" /\ ~row.expired /\ ~Settled(a)
        /\ row # NoRow /\ row.body = attempts[a].body
    BY DEF KeyInv, RunnerOwnsRow, RowHasAuthor, Holding, At, Settled, NoRow
  <1>2. Holding = {a}
    BY <1>1 DEF KeyInv, RunnerOwnsRow
  <1>3. Holding' = {}
    BY <1>1, <1>2 DEF Holding, Steps
  <1>4. row'.by # NoOne => row'.by = a /\ row'.body = attempts'[a].body /\ ~row'.expired
    BY <1>1 DEF NoRow, Steps
  <1>5. row' # NoRow => row'.by = a
    BY <1>1
  <1>6. row'.expired => row' # NoRow
    BY <1>1 DEF NoRow
  <1>7. RunnerOwnsRow'
    BY <1>3 DEF RunnerOwnsRow
  <1>8. RowHasAuthor'
    <2>1. CASE row' = NoRow
      BY <2>1 DEF RowHasAuthor, NoRow
    <2>2. CASE row' # NoRow
      BY <1>1, <1>4, <1>5, <1>6, <2>2, FaultsAssumption DEF RowHasAuthor, Steps, At, Settled
    <2> QED BY <2>1, <2>2
  <1>9. CompletedByAuthor'
    BY <1>1 DEF CompletedByAuthor, NoRow, Steps
  <1>10. ClearsStale'
    BY <1>1, <1>4, ClearsKept, FaultsAssumption DEF NoRow
  <1> QED BY <1>7, <1>8, <1>9, <1>10

LEMMA HandleKeeps ==
  ASSUME KeyInv, NEW a \in Attempts, Handle(a)
  PROVE  KeyInv'
  <1>1. TypeOK /\ a \in Holding /\ ~Settled(a) /\ row' = row
    BY DEF Handle, At, Settled, Holding, KeyInv
  <1>2. PICK pc \in {"store", "release"}, answer \in {"2xx", "4xx", "5xx"} :
          /\ Moves(a, pc, answer)
          /\ pc = "store" => answer \in {"2xx", "4xx"}
    BY DEF Handle
  <1>3. /\ Steps(a, pc, answer)
        /\ attempts'[a].replayOf = attempts[a].replayOf
    BY <1>1, <1>2, Moved DEF Pc, Outcomes, Answers
  <1>4. TypeOK'
    BY <1>1, <1>3 DEF Handle, TypeOK, Steps
  <1> QED BY <1>1, <1>2, <1>3, <1>4, HolderStays, ReplaysKept, StoresKept DEF KeyInv

LEMMA StoreKeeps ==
  ASSUME KeyInv, NEW a \in Attempts, Store(a)
  PROVE  KeyInv'
  <1>1. /\ TypeOK /\ a \in Holding /\ ~Settled(a) /\ saved' = saved
        /\ row.by = a
        /\ attempts[a].answer \in {"2xx", "4xx"}
    BY DEF Store, At, Settled, Holding, KeyInv, StoresAnswer, RunnerOwnsRow
  <1>2. CASE /\ row' = [row EXCEPT !.status = "COMPLETED", !.answer = attempts[a].answer]
             /\ Goes(a, "answer")
    <2>1. /\ Steps(a, "answer", attempts[a].answer)
          /\ attempts'[a].replayOf = attempts[a].replayOf
      BY <1>1, <1>2, Went DEF Pc
    <2>2. /\ row' \in RowType /\ row'.by = a /\ row'.body = row.body
          /\ row'.answer = attempts[a].answer /\ row'.expired = row.expired
      BY <1>1, <1>2 DEF TypeOK, RowType, Answers
    <2>3. TypeOK'
      BY <1>1, <2>1, <2>2 DEF TypeOK, Steps
    <2> QED BY <1>1, <2>1, <2>2, <2>3, HolderEnds, ReplaysKept, StoresKept DEF KeyInv
  <1>3. ASSUME NEW pc \in {"release", "answer"}, NEW answer \in {"4xx", "5xx"},
               Moves(a, pc, answer), row' = row
        PROVE  KeyInv'
    <2>1. /\ Steps(a, pc, answer)
          /\ attempts'[a].replayOf = attempts[a].replayOf
      BY <1>1, <1>3, Moved DEF Pc, Outcomes, Answers
    <2>2. TypeOK'
      BY <1>1, <1>3, <2>1 DEF TypeOK, Steps
    <2>3. RunnerOwnsRow' /\ RowHasAuthor' /\ CompletedByAuthor' /\ ClearsStale'
      BY <1>1, <1>3, <2>1, HolderEnds, HolderStays
    <2> QED BY <1>1, <2>1, <2>2, <2>3, ReplaysKept, StoresKept DEF KeyInv
  <1> QED BY <1>2, <1>3 DEF Store

LEMMA ReleaseKeeps ==
  ASSUME KeyInv, NEW a \in Attempts, Release(a)
  PROVE  KeyInv'
  <1>1. TypeOK /\ a \in Holding /\ ~Settled(a) /\ saved' = saved
    BY DEF Release, At, Settled, Holding, KeyInv
  <1>2. PICK answer \in Outcomes : Steps(a, "answer", answer)
    <2>1. attempts[a].answer \in Outcomes
      BY <1>1 DEF TypeOK, Attempt
    <2> QED BY <1>1, <2>1, Went, Moved DEF Release, Pc, Outcomes
  <1>3. row' = NoRow \/ row' = row
    BY DEF Release
  <1>4. attempts'[a].replayOf = attempts[a].replayOf
    BY <1>1, Went, Moved DEF Release, Pc, Outcomes
  <1>5. row' \in RowType
    <2>1. NoRow \in RowType
      BY DEF NoRow, RowType, Answers
    <2> QED BY <1>1, <1>3, <2>1 DEF TypeOK
  <1>6. TypeOK'
    BY <1>1, <1>2, <1>5 DEF TypeOK, Steps
  <1> QED BY <1>1, <1>2, <1>3, <1>4, <1>6, HolderEnds, ReplaysKept, StoresKept DEF KeyInv

\* Attempts that come to their end, told or not.
LEMMA EndsKeep ==
  ASSUME KeyInv, row' = row, saved' = saved, attempts' \in [Attempts -> Attempt],
         \A b \in Attempts :
           /\ attempts'[b].body = attempts[b].body /\ attempts'[b].answer = attempts[b].answer
           /\ attempts'[b].seen = attempts[b].seen /\ attempts'[b].replayOf = attempts[b].replayOf
           /\ \/ attempts'[b].pc = attempts[b].pc
              \/ attempts'[b].pc \in {"done", "lost"} /\ ~At(b, "done")
  PROVE  KeyInv'
  <1>1. TypeOK'
    BY DEF KeyInv, TypeOK
  <1>2. \A b \in Attempts : b \in Holding' => b \in Holding
    BY DEF Holding
  <1>3. \A b \in Attempts : /\ b \in Holding => b \in Holding' \/ Settled(b)'
                            /\ Settled(b) => Settled(b)'
                            /\ At(b, "done") => At(b, "done")'
                            /\ At(b, "clear")' => At(b, "clear")
                            /\ At(b, "store")' => At(b, "store")
    BY DEF Holding, Settled, At
  <1>4. \A b \in Holding' : b \in Attempts
    BY DEF Holding
  <1>5. RunnerOwnsRow'
    BY <1>2, <1>4 DEF KeyInv, RunnerOwnsRow
  <1>6. row.status = "COMPLETED" \/ row.expired => row # NoRow
    BY DEF NoRow
  <1>7. RowHasAuthor'
    BY <1>3, <1>6 DEF KeyInv, RowHasAuthor
  <1>8. CompletedByAuthor'
    BY <1>6 DEF KeyInv, CompletedByAuthor, RowHasAuthor
  <1>9. ClearsStale'
    BY <1>3 DEF KeyInv, ClearsStale
  <1>10. ReplaysDone' /\ ReplaysFaithful'
    BY <1>3 DEF KeyInv, ReplaysDone, ReplaysFaithful
  <1>11. StoresAnswer'
    BY <1>3 DEF KeyInv, StoresAnswer
  <1> QED BY <1>1, <1>5, <1>7, <1>8, <1>9, <1>10, <1>11 DEF KeyInv

LEMMA AnswerKeeps ==
  ASSUME KeyInv, NEW a \in Attempts, Answer(a)
  PROVE  KeyInv'
  <1>1. TypeOK /\ row' = row /\ saved' = saved /\ At(a, "answer")
    BY DEF Answer, KeyInv
  <1>2. Steps(a, "done", attempts[a].answer) /\ attempts'[a].seen = attempts[a].seen
        /\ attempts'[a].replayOf = attempts[a].replayOf
    BY <1>1, Went DEF Answer, Pc
  <1> QED BY <1>1, <1>2, EndsKeep DEF Steps, At

LEMMA CrashKeeps ==
  ASSUME KeyInv, Crash
  PROVE  KeyInv'
  <1>1. TypeOK /\ row' = row /\ saved' = saved
    BY DEF KeyInv, Crash
  <1>2. \A b \in Attempts :
          /\ attempts'[b] \in Attempt
          /\ attempts'[b].body = attempts[b].body /\ attempts'[b].answer = attempts[b].answer
          /\ attempts'[b].seen = attempts[b].seen /\ attempts'[b].replayOf = attempts[b].replayOf
          /\ \/ attempts'[b].pc = attempts[b].pc
             \/ attempts'[b].pc \in {"done", "lost"} /\ ~At(b, "done")
    BY <1>1 DEF Crash, InFlight, At, TypeOK, Attempt, Pc
  <1>3. attempts' \in [Attempts -> Attempt]
    BY <1>2 DEF Crash
  <1> QED BY <1>1, <1>2, <1>3, EndsKeep

LEMMA ExpireKeeps ==
  ASSUME KeyInv, Expire, "slow" \notin Faults
  PROVE  KeyInv'
  <1>1. /\ TypeOK /\ attempts' = attempts /\ saved' = {}
        /\ row # NoRow /\ row.by \in Attempts /\ row.by \notin Holding /\ Settled(row.by)
    BY DEF KeyInv, Expire, RowHasAuthor
  <1>2. /\ row' \in RowType /\ row'.by = row.by /\ row'.body = row.body /\ row'.expired
        /\ row'.status = row.status /\ row'.answer = row.answer
    BY <1>1 DEF Expire, TypeOK, RowType
  <1>3. row' # NoRow
    BY <1>2 DEF NoRow
  <1>4. Holding = {} /\ Holding' = {}
    BY <1>1 DEF KeyInv, RunnerOwnsRow, Holding
  <1>5. TypeOK' /\ RunnerOwnsRow'
    BY <1>1, <1>2, <1>4 DEF TypeOK, RunnerOwnsRow
  <1>6. RowHasAuthor' /\ CompletedByAuthor' /\ ClearsStale'
    BY <1>1, <1>2, <1>3 DEF KeyInv, RowHasAuthor, CompletedByAuthor, ClearsStale, At, Settled
  <1>7. StoresAnswer' /\ ReplaysDone' /\ ReplaysFaithful'
    BY <1>1 DEF KeyInv, StoresAnswer, ReplaysDone, ReplaysFaithful, At, Settled
  <1> QED BY <1>5, <1>6, <1>7 DEF KeyInv

LEMMA PurgeKeeps ==
  ASSUME KeyInv, PurgeExpired
  PROVE  KeyInv'
  <1>1. TypeOK /\ attempts' = attempts /\ saved' = saved /\ row.expired /\ row' = NoRow
    BY DEF KeyInv, PurgeExpired
  <1>2. Holding = {} /\ Holding' = {}
    BY <1>1 DEF KeyInv, RunnerOwnsRow, Holding
  <1>3. TypeOK'
    BY <1>1 DEF TypeOK, NoRow, RowType, Answers
  <1>4. RunnerOwnsRow' /\ RowHasAuthor' /\ CompletedByAuthor'
    BY <1>1, <1>2 DEF RunnerOwnsRow, RowHasAuthor, CompletedByAuthor, NoRow
  <1>5. ClearsStale'
    BY <1>1, FaultsAssumption DEF KeyInv, ClearsStale, At, Settled, NoRow
  <1>6. StoresAnswer' /\ ReplaysDone' /\ ReplaysFaithful'
    BY <1>1 DEF KeyInv, StoresAnswer, ReplaysDone, ReplaysFaithful, At, Settled
  <1> QED BY <1>3, <1>4, <1>5, <1>6 DEF KeyInv

LEMMA InitKey == Init => KeyInv
  <1> SUFFICES ASSUME Init PROVE KeyInv
    OBVIOUS
  <1>1. \A a \in Attempts : /\ attempts[a] \in Attempt
                            /\ attempts[a].pc = "new" /\ attempts[a].replayOf = NoOne
    BY DEF Init, Attempt, Pc, Outcomes, Answers
  <1>2. TypeOK
    BY <1>1 DEF Init, TypeOK, NoRow, RowType, Answers
  <1>3. StoresAnswer /\ RunnerOwnsRow /\ ClearsStale /\ ReplaysDone /\ ReplaysFaithful
    BY <1>1 DEF StoresAnswer, RunnerOwnsRow, ClearsStale, ReplaysDone, ReplaysFaithful, Holding, At, Settled
  <1>4. RowHasAuthor /\ CompletedByAuthor
    BY DEF Init, RowHasAuthor, CompletedByAuthor, NoRow
  <1> QED BY <1>2, <1>3, <1>4 DEF KeyInv

LEMMA NextKey ==
  ASSUME "slow" \notin Faults
  PROVE  KeyInv /\ [Next]_vars => KeyInv'
  <1> SUFFICES ASSUME KeyInv, [Next]_vars PROVE KeyInv'
    OBVIOUS
  <1>1. CASE UNCHANGED vars
    BY <1>1 DEF vars, KeyInv, TypeOK, StoresAnswer, RunnerOwnsRow, RowHasAuthor, CompletedByAuthor,
                ClearsStale, ReplaysDone, ReplaysFaithful, Holding, At, Settled
  <1>2. ASSUME NEW a \in Attempts, Serve(a) PROVE KeyInv'
    BY <1>2, ReserveKeeps, LookupKeeps, ClearStaleKeeps, HandleKeeps, StoreKeeps, ReleaseKeeps,
       AnswerKeeps
    DEF Serve
  <1> QED
    BY <1>1, <1>2, SendKeeps, CrashKeeps, ExpireKeeps, PurgeKeeps DEF Next

\* The inductive invariant, for any number of attempts.
THEOREM KeyInvariant ==
  ASSUME "slow" \notin Faults
  PROVE  Spec => []KeyInv
  <1>1. Init => KeyInv
    BY InitKey
  <1>2. KeyInv /\ [Next]_vars => KeyInv'
    BY NextKey
  <1> QED BY <1>1, <1>2, PTL DEF Spec

\* Two attempts never run the handler of one key at the same time, whichever
\* of them crash, fail to store their answer or fail after their commit.
THEOREM OneRunnerAtATime ==
  ASSUME "slow" \notin Faults
  PROVE  Spec => []OneRunner
  <1>1. KeyInv => OneRunner
    BY DEF KeyInv, RunnerOwnsRow, OneRunner
  <1> QED BY <1>1, KeyInvariant, PTL

\* A replay is what an earlier attempt answered to the same body.
THEOREM ReplaysAlwaysFaithful ==
  ASSUME "slow" \notin Faults
  PROVE  Spec => []ReplaysFaithful
  <1>1. KeyInv => ReplaysFaithful
    BY DEF KeyInv
  <1> QED BY <1>1, KeyInvariant, PTL

-----------------------------------------------------------------------------
\* A step of one attempt that saves nothing, and makes no success of what was
\* none.
LEMMA SavedKept ==
  ASSUME SavedInv, KeyInv', NEW a \in Attempts, NEW pc \in Pc, NEW answer, Steps(a, pc, answer),
         saved' = saved, a \in saved => pc \in {"store", "release", "answer", "done", "lost"},
         pc = "release" => answer \in {"4xx", "5xx"},
         answer = "2xx" => attempts[a].answer = "2xx",
         \A b \in Succeeded : row'.by = row.by /\ row'.expired = row.expired
  PROVE  SavedInv'
  <1>1. saved \subseteq Attempts
    BY DEF SavedInv, KeyInv, TypeOK
  <1>2. \A b \in Attempts : b # a => attempts'[b] = attempts[b]
    BY DEF Steps
  <1>3. attempts'[a].pc = pc /\ attempts'[a].answer = answer
    BY DEF Steps
  <1>4. \A b \in saved' : attempts'[b].pc \in {"store", "release", "answer", "done", "lost"}
    BY <1>1, <1>2, <1>3 DEF SavedInv
  <1>5. \A b \in Attempts : At(b, "release")' => attempts'[b].answer \in {"4xx", "5xx"}
    BY <1>2, <1>3 DEF SavedInv, At, Settled
  <1>6. Succeeded' \subseteq Succeeded
    BY <1>1, <1>2, <1>3 DEF Succeeded
  <1>7. \A b \in Succeeded' : row'.by = b /\ ~row'.expired
    BY <1>6 DEF SavedInv
  <1> QED BY <1>4, <1>5, <1>7 DEF SavedInv

\* What a saved attempt has to do with the row, step by step.
LEMMA NextSaved ==
  ASSUME "slow" \notin Faults
  PROVE  SavedInv /\ [Next]_vars => SavedInv'
  <1> SUFFICES ASSUME SavedInv, [Next]_vars PROVE SavedInv'
    OBVIOUS
  <1>1. KeyInv /\ KeyInv' /\ TypeOK /\ saved \subseteq Attempts /\ NoOne \notin Attempts
    BY NextKey, FaultsAssumption DEF SavedInv, KeyInv, TypeOK
  <1>2. /\ \A s \in Succeeded : row.by = s /\ ~row.expired /\ row # NoRow
        /\ \A s \in saved : attempts[s].pc \in {"store", "release", "answer", "done", "lost"}
    BY <1>1 DEF SavedInv, Succeeded, NoRow
  <1>3. \A s \in Attempts : attempts[s].answer \in Outcomes
    BY <1>1 DEF TypeOK, Attempt
  <1>4. CASE UNCHANGED vars
    BY <1>1, <1>4 DEF vars, SavedInv, Succeeded, At, Settled
  <1>5. ASSUME NEW a \in Attempts, Send(a) PROVE SavedInv'
    <2>1. Steps(a, "reserve", attempts[a].answer) /\ At(a, "new") /\ row' = row /\ saved' = saved
      BY <1>1, <1>5, Went DEF Send, Pc
    <2>2. a \notin saved
      BY <1>2, <2>1 DEF At, Settled
    <2> QED BY <1>1, <2>1, <2>2, SavedKept DEF Pc
  <1>6. ASSUME NEW a \in Attempts, Reserve(a) PROVE SavedInv'
    <2>1. a \notin saved /\ saved' = saved
      BY <1>2, <1>6 DEF Reserve, At, Settled
    <2>2. CASE row = NoRow
      <3>1. Succeeded = {}
        BY <1>2, <2>2
      <3>2. PICK pc \in {"run", "lookup"} : Steps(a, pc, attempts[a].answer)
        BY <1>1, <1>6, Went DEF Reserve, Pc
      <3> QED BY <1>1, <2>1, <3>1, <3>2, SavedKept DEF Pc
    <2>3. CASE row # NoRow
      <3>1. Steps(a, "lookup", attempts[a].answer) /\ row' = row
        BY <1>1, <1>6, <2>3, Went DEF Reserve, Pc
      <3> QED BY <1>1, <2>1, <3>1, SavedKept DEF Pc
    <2> QED BY <2>2, <2>3
  <1>7. ASSUME NEW a \in Attempts, Lookup(a) PROVE SavedInv'
    <2>1. At(a, "lookup") /\ row' = row /\ saved' = saved
      BY <1>7 DEF Lookup
    <2>2. \A s \in Attempts \ {a} : attempts'[s] = attempts[s]
      BY <1>1, <1>7 DEF Lookup, Goes, Moves, TypeOK
    <2>3. a \notin saved
      BY <1>2, <2>1 DEF At, Settled
    <2>4. attempts'[a].pc # "release"
      <3>1. CASE Goes(a, "reserve")
        BY <1>1, <3>1, Went DEF Pc, Steps
      <3>2. CASE Moves(a, "done", "422 mismatch") \/ Moves(a, "done", "409 busy")
        BY <1>1, <3>2, Moved DEF Pc, Outcomes, Steps
      <3>3. CASE attempts' = [attempts EXCEPT ![a].pc = "clear", ![a].seen = row.by]
        BY <1>1, <3>3 DEF TypeOK, Attempt
      <3>4. CASE attempts' = [attempts EXCEPT ![a] = [@ EXCEPT !.pc = "done",
                                                 !.answer = row.answer, !.replayOf = row.by]]
        BY <1>1, <3>4 DEF TypeOK, Attempt
      <3> QED BY <1>7, <3>1, <3>2, <3>3, <3>4 DEF Lookup
    <2>5. Succeeded' = Succeeded
      BY <1>1, <2>1, <2>2, <2>3 DEF Succeeded
    <2>6. \A s \in saved' : attempts'[s].pc \in {"store", "release", "answer", "done", "lost"}
      BY <1>1, <1>2, <2>1, <2>2, <2>3
    <2>7. \A s \in Attempts : At(s, "release")' => attempts'[s].answer \in {"4xx", "5xx"}
      BY <2>2, <2>4 DEF SavedInv, At, Settled
    <2> QED BY <1>1, <1>2, <2>1, <2>5, <2>6, <2>7 DEF SavedInv
  <1>8. ASSUME NEW a \in Attempts, ClearStale(a) PROVE SavedInv'
    <2>1. /\ Steps(a, "reserve", attempts[a].answer) /\ saved' = saved
          /\ row.by = attempts[a].seen => row.expired
      BY <1>1, <1>8 DEF ClearStale, Steps, TypeOK, Attempt, Pc, KeyInv, ClearsStale
    <2>2. \A s \in Succeeded : row' = row
      BY <1>2, <1>8, <2>1 DEF ClearStale
    <2>3. a \notin saved
      BY <1>2, <1>8 DEF ClearStale, At, Settled
    <2> QED BY <1>1, <2>1, <2>2, <2>3, SavedKept DEF Pc
  <1>9. ASSUME NEW a \in Attempts, Handle(a) PROVE SavedInv'
    <2>1. At(a, "run") /\ row.by = a /\ ~row.expired /\ row' = row
      BY <1>1, <1>9 DEF Handle, KeyInv, RunnerOwnsRow, Holding, At, Settled
    <2>2. Succeeded = {}
      BY <1>2, <2>1 DEF At, Settled, Succeeded
    <2>3. PICK pc \in {"store", "release"}, answer \in {"2xx", "4xx", "5xx"} :
            /\ Moves(a, pc, answer)
            /\ pc = "release" => answer \in {"4xx", "5xx"}
      BY <1>9 DEF Handle
    <2>4. Steps(a, pc, answer)
      BY <1>1, <2>3, Moved DEF Pc, Outcomes, Answers
    <2>5. saved' \subseteq saved \cup {a}
      BY <1>9 DEF Handle
    <2>6. \A b \in Attempts : b # a => attempts'[b] = attempts[b]
      BY <2>4 DEF Steps
    <2>7. \A s \in saved' : attempts'[s].pc \in {"store", "release", "answer", "done", "lost"}
      BY <1>1, <1>2, <2>4, <2>5, <2>6 DEF Steps
    <2>8. \A s \in Attempts : At(s, "release")' => attempts'[s].answer \in {"4xx", "5xx"}
      BY <2>3, <2>4, <2>6 DEF SavedInv, At, Settled, Steps
    <2>9. Succeeded' \subseteq {a}
      BY <1>1, <2>2, <2>5, <2>6 DEF Succeeded
    <2> QED BY <1>1, <2>1, <2>7, <2>8, <2>9 DEF SavedInv
  <1>10. ASSUME NEW a \in Attempts, Store(a) PROVE SavedInv'
    <2>1. /\ At(a, "store") /\ row.by = a /\ row # NoRow /\ saved' = saved
      BY <1>1, <1>10 DEF Store, KeyInv, RunnerOwnsRow, Holding, At, Settled, NoRow
    <2>2. CASE Goes(a, "answer") /\ row'.by = row.by /\ row'.expired = row.expired
      BY <1>1, <1>2, <2>1, <2>2, Went, SavedKept DEF Pc
    <2>3. CASE row' = row /\ Moves(a, "release", "5xx")
      BY <1>1, <1>2, <2>1, <2>3, Moved, SavedKept DEF Pc, Outcomes
    <2>4. CASE row' = row /\ Moves(a, "answer", "5xx")
      BY <1>1, <1>2, <2>1, <2>4, Moved, SavedKept DEF Pc, Outcomes
    <2> QED BY <1>1, <1>10, <2>1, <2>2, <2>3, <2>4 DEF Store, TypeOK, RowType
  <1>11. ASSUME NEW a \in Attempts, Release(a) PROVE SavedInv'
    <2>1. /\ At(a, "release") /\ row.by = a /\ saved' = saved
          /\ attempts[a].answer \in {"4xx", "5xx"}
      BY <1>1, <1>11 DEF Release, KeyInv, RunnerOwnsRow, Holding, At, Settled, SavedInv
    <2>2. Succeeded = {}
      BY <1>2, <2>1 DEF Succeeded
    <2>3. Goes(a, "answer") \/ Moves(a, "answer", "5xx")
      BY <1>11 DEF Release
    <2>4. PICK answer \in {"4xx", "5xx"} : Steps(a, "answer", answer)
      BY <1>1, <2>1, <2>3, Went, Moved DEF Pc, Outcomes
    <2> QED BY <1>1, <2>1, <2>2, <2>4, SavedKept DEF Pc
  <1>15. ASSUME NEW a \in Attempts, Answer(a) PROVE SavedInv'
    <2>1. Steps(a, "done", attempts[a].answer) /\ row' = row /\ saved' = saved
      BY <1>1, <1>15, Went DEF Answer, Pc
    <2> QED BY <1>1, <2>1, SavedKept DEF Pc
  <1>12. CASE Crash
    <2>1. /\ row' = row /\ saved' = saved
          /\ \A s \in Attempts : /\ attempts'[s].answer = attempts[s].answer
                                 /\ \/ s \in InFlight /\ attempts'[s].pc = "lost"
                                    \/ s \notin InFlight /\ attempts'[s] = attempts[s]
      BY <1>1, <1>12 DEF Crash, InFlight, TypeOK, Attempt
    <2>2. Succeeded' = Succeeded
      BY <1>1, <2>1 DEF Succeeded
    <2>3. \A s \in saved' : attempts'[s].pc \in {"store", "release", "answer", "done", "lost"}
      BY <1>1, <1>2, <2>1
    <2>4. \A s \in Attempts : ~At(s, "release")'
      BY <2>1 DEF At, InFlight
    <2> QED BY <1>1, <1>2, <2>1, <2>2, <2>3, <2>4 DEF SavedInv
  <1>13. CASE Expire
    BY <1>1, <1>13 DEF Expire, SavedInv, Succeeded, At, Settled
  <1>14. CASE PurgeExpired
    <2>1. Succeeded = {}
      BY <1>2, <1>14 DEF PurgeExpired
    <2>2. Succeeded' = {} /\ saved' = saved /\ attempts' = attempts
      BY <1>14, <2>1 DEF PurgeExpired, Succeeded
    <2> QED BY <1>1, <2>2 DEF SavedInv, At, Settled
  <1> QED
    BY <1>4, <1>5, <1>6, <1>7, <1>8, <1>9, <1>10, <1>11, <1>12, <1>13, <1>14, <1>15
    DEF Next, Serve

\* However many attempts race, retry, die before or after their last commit, fail
\* to store their answer or fail after their commit, no two of them succeed while
\* the key lasts: who saves again does so after a failure that released the key.
\* The client need not have heard of that failure.
THEOREM SavedAtMostOnce ==
  ASSUME "slow" \notin Faults
  PROVE  Spec => []SavedOnce
  <1>1. Init => SavedInv
    BY InitKey DEF Init, SavedInv, Succeeded, At, Settled
  <1>2. SavedInv /\ [Next]_vars => SavedInv'
    BY NextSaved
  <1>3. SavedInv => SavedOnce
    BY DEF SavedInv, SavedOnce
  <1> QED BY <1>1, <1>2, <1>3, PTL DEF Spec

\* When only crashes happen, whoever saved has succeeded.
LEMMA NextSucceeds ==
  ASSUME Faults \subseteq {"crash"}
  PROVE  SavedInv /\ saved = Succeeded /\ [Next]_vars => (saved = Succeeded)'
  <1> SUFFICES ASSUME SavedInv, saved = Succeeded, [Next]_vars PROVE (saved = Succeeded)'
    OBVIOUS
  <1>1. TypeOK /\ saved \subseteq Attempts /\ "late" \notin Faults /\ "store" \notin Faults
    BY DEF SavedInv, KeyInv, TypeOK
  <1>2. \A s \in saved : /\ attempts[s].answer = "2xx"
                         /\ attempts[s].pc \in {"store", "answer", "done", "lost"}
    BY <1>1 DEF SavedInv, Succeeded, At
  <1>3. ASSUME saved' \subseteq saved, \A s \in saved : attempts'[s].answer = attempts[s].answer
        PROVE  (saved = Succeeded)'
    BY <1>2, <1>3 DEF Succeeded
  <1>4. ASSUME NEW a \in Attempts, a \notin saved, saved' = saved,
               \A s \in Attempts \ {a} : attempts'[s] = attempts[s]
        PROVE  (saved = Succeeded)'
    BY <1>1, <1>3, <1>4
  <1>5. CASE UNCHANGED vars
    BY <1>3, <1>5 DEF vars
  <1>6. ASSUME NEW a \in Attempts, Send(a) \/ Reserve(a) \/ Lookup(a) \/ ClearStale(a) \/ Release(a)
        PROVE  (saved = Succeeded)'
    <2>1. a \notin saved /\ saved' = saved
      BY <1>2, <1>6 DEF Send, Reserve, Lookup, ClearStale, Release, At
    <2>2. \A s \in Attempts \ {a} : attempts'[s] = attempts[s]
      BY <1>1, <1>6 DEF Send, Reserve, Lookup, ClearStale, Release, Goes, Moves, TypeOK
    <2> QED BY <1>4, <2>1, <2>2
  <1>7. ASSUME NEW a \in Attempts, Handle(a) PROVE (saved = Succeeded)'
    <2>1. a \notin saved
      BY <1>2, <1>7 DEF Handle, At
    <2>2. \A s \in Attempts \ {a} : attempts'[s] = attempts[s]
      BY <1>1, <1>7 DEF Handle, Moves, TypeOK
    <2>3. CASE saved' = saved \cup {a} /\ Moves(a, "store", "2xx")
      <3>1. attempts'[a].answer = "2xx"
        BY <1>1, <2>3, Moved DEF Steps, Pc, Outcomes, Answers
      <3> QED BY <1>1, <1>2, <2>2, <2>3, <3>1 DEF Succeeded
    <2>4. CASE saved' = saved
      BY <1>4, <2>1, <2>2, <2>4
    <2> QED BY <1>1, <1>7, <2>3, <2>4 DEF Handle
  <1>8. ASSUME NEW a \in Attempts, Store(a) PROVE (saved = Succeeded)'
    <2>1. row # NoRow
      BY <1>8, FaultsAssumption DEF Store, SavedInv, KeyInv, RunnerOwnsRow, Holding, At, NoRow
    <2>2. Goes(a, "answer") /\ saved' = saved
      BY <1>1, <1>8, <2>1 DEF Store
    <2>3. \A s \in Attempts : attempts'[s].answer = attempts[s].answer
      BY <1>1, <2>2 DEF Goes, TypeOK, Attempt
    <2> QED BY <1>1, <1>3, <2>2, <2>3
  <1>9. ASSUME NEW a \in Attempts, Answer(a) PROVE (saved = Succeeded)'
    <2>1. \A s \in Attempts : attempts'[s].answer = attempts[s].answer
      BY <1>1, <1>9 DEF Answer, Goes, TypeOK, Attempt
    <2> QED BY <1>1, <1>3, <1>9, <2>1 DEF Answer
  <1>10. CASE Crash
    <2>1. \A s \in Attempts : attempts'[s].answer = attempts[s].answer
      BY <1>1, <1>10 DEF Crash, TypeOK, Attempt
    <2> QED BY <1>1, <1>3, <1>10, <2>1 DEF Crash
  <1>11. CASE Expire \/ PurgeExpired
    BY <1>3, <1>11 DEF Expire, PurgeExpired
  <1> QED BY <1>5, <1>6, <1>7, <1>8, <1>9, <1>10, <1>11 DEF Next, Serve

\* If nothing but crashes can go wrong, at whatever point the process dies, what
\* the key asks for is done once while it lasts, and the client may safely retry.
THEOREM RunsAtMostOnce ==
  ASSUME Faults \subseteq {"crash"}
  PROVE  Spec => []RunsOnce
  <1>1. Init => SavedInv /\ saved = Succeeded
    BY InitKey DEF Init, SavedInv, Succeeded, At
  <1>2. SavedInv /\ saved = Succeeded /\ [Next]_vars => SavedInv' /\ (saved = Succeeded)'
    <2>1. "slow" \notin Faults
      OBVIOUS
    <2> QED BY <2>1, NextSaved, NextSucceeds
  <1>3. SavedInv /\ saved = Succeeded => RunsOnce
    BY DEF SavedInv, RunsOnce
  <1> QED BY <1>1, <1>2, <1>3, PTL DEF Spec

=============================================================================
