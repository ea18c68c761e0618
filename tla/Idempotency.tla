---------------------------- MODULE Idempotency ----------------------------
(***************************************************************************)
(* IdempotencyInterceptor: what happens to the attempts a user makes under *)
(* one Idempotency-Key, and IdempotencyCleanupService.                     *)
(*                                                                         *)
(* An attempt is one HTTP request.  Rows are unique per user and key, so   *)
(* the table is one row, or none.  Every Prisma call is a step of its own; *)
(* between two of them other attempts run, the key's day may end, and the  *)
(* process may die, which ends its attempts and leaves the row.  What an   *)
(* attempt will answer is decided before it is sent, and the process may   *)
(* die between the two, when everything it did to the database has         *)
(* committed: the client is then told nothing.                             *)
(***************************************************************************)
EXTENDS Naturals, FiniteSets

CONSTANTS
  Attempts,   \* the requests sent with the key
  Targets,    \* what the URL names: the parameters of the route
  Bodies,     \* the route pattern, method and body, which the row records
  NoOne,      \* no attempt
  Faults      \* which of the faults below may happen

\* "crash": the process dies.  "store": the row cannot be written after the
\* handler ran.  "late": the handler fails after its transaction committed, in
\* the reads it answers with.  "slow": a handler outlives its key's day.
ASSUME FaultsAssumption ==
  /\ Faults \subseteq {"crash", "store", "late", "slow"}
  /\ NoOne \notin Attempts

VARIABLES
  row,        \* the row of the key
  attempts,   \* each attempt's progress
  saved       \* attempts whose handler committed since the key last expired

vars == <<row, attempts, saved>>

\* `by' stands for the row's id: an attempt inserts at most one row.
NoRow == [by |-> NoOne, status |-> "none", body |-> NoOne, expired |-> FALSE, answer |-> "none"]

Answers == {"none", "2xx", "4xx"}

RowType ==
  [by : Attempts \cup {NoOne}, status : {"none", "PENDING", "COMPLETED"},
   body : Bodies \cup {NoOne}, expired : BOOLEAN, answer : Answers]

Outcomes == Answers \cup {"409 busy", "422 mismatch", "5xx"}

\* "answer": nothing is left to do but to send it.  "lost": the process died.
Pc == {"new", "reserve", "lookup", "clear", "run", "store", "release", "answer", "done", "lost"}

Attempt ==
  [pc : Pc, target : Targets, body : Bodies, seen : Attempts \cup {NoOne},
   answer : Outcomes, replayOf : Attempts \cup {NoOne}]

TypeOK ==
  /\ row \in RowType
  /\ attempts \in [Attempts -> Attempt]
  /\ saved \subseteq Attempts

Init ==
  /\ row = NoRow
  /\ attempts \in [Attempts -> [pc : {"new"}, target : Targets, body : Bodies, seen : {NoOne},
                                answer : {"none"}, replayOf : {NoOne}]]
  /\ saved = {}

At(a, pc) == attempts[a].pc = pc
Goes(a, pc) == attempts' = [attempts EXCEPT ![a].pc = pc]
Moves(a, pc, answer) == attempts' = [attempts EXCEPT ![a].pc = pc, ![a].answer = answer]

\* The attempts between their insert and the end of what follows it.
Holding == {a \in Attempts : attempts[a].pc \in {"run", "store", "release"}}
InFlight == {a \in Attempts : attempts[a].pc \notin {"new", "done", "lost"}}

\* The attempt has done what it will ever do, whether the client hears of it or
\* not.
Settled(a) == attempts[a].pc \in {"answer", "done", "lost"}

-----------------------------------------------------------------------------
Send(a) ==
  /\ At(a, "new")
  /\ Goes(a, "reserve")
  /\ UNCHANGED <<row, saved>>

\* The insert, or the unique violation.
Reserve(a) ==
  /\ At(a, "reserve")
  /\ \/ /\ row = NoRow
        /\ row' = [NoRow EXCEPT !.by = a, !.status = "PENDING", !.body = attempts[a].body]
        /\ Goes(a, "run")
     \/ /\ row # NoRow
        /\ Goes(a, "lookup")
        /\ UNCHANGED row
  /\ UNCHANGED saved

\* Mutant: replays whatever the row holds, without comparing the request.
LookupAnyBody(a) ==
  /\ At(a, "lookup")
  /\ row # NoRow /\ ~row.expired
  /\ row.status = "COMPLETED"
  /\ attempts' = [attempts EXCEPT ![a] = [@ EXCEPT !.pc = "done", !.answer = row.answer,
                                                   !.replayOf = row.by]]
  /\ UNCHANGED <<row, saved>>

\* replayOrReject reads the row and, unless it is gone or stale, answers.
Lookup(a) ==
  /\ At(a, "lookup")
  /\ \/ /\ row = NoRow
        /\ Goes(a, "reserve")
     \/ /\ row # NoRow /\ row.expired
        /\ attempts' = [attempts EXCEPT ![a].pc = "clear", ![a].seen = row.by]
     \/ /\ row # NoRow /\ ~row.expired
        /\ row.body # attempts[a].body
        /\ Moves(a, "done", "422 mismatch")
     \/ /\ row # NoRow /\ ~row.expired
        /\ row.body = attempts[a].body
        /\ row.status = "PENDING"
        /\ Moves(a, "done", "409 busy")
     \/ /\ row # NoRow /\ ~row.expired
        /\ row.body = attempts[a].body
        /\ row.status = "COMPLETED"
        /\ attempts' = [attempts EXCEPT ![a] = [@ EXCEPT !.pc = "done", !.answer = row.answer,
                                                         !.replayOf = row.by]]
  /\ UNCHANGED <<row, saved>>

\* Mutant: deletes the row of the key, whichever it is by now.
ClearStaleByKey(a) ==
  /\ At(a, "clear")
  /\ row' = NoRow
  /\ Goes(a, "reserve")
  /\ UNCHANGED saved

\* Deletes the stale row by its id, unless somebody has done so.
ClearStale(a) ==
  /\ At(a, "clear")
  /\ row' = IF row.by = attempts[a].seen THEN NoRow ELSE row
  /\ attempts' = [attempts EXCEPT ![a].pc = "reserve", ![a].seen = NoOne]
  /\ UNCHANGED saved

-----------------------------------------------------------------------------
\* Mutant: the answer is not kept and the key is released.
HandleKeepsNothing(a) ==
  /\ At(a, "run")
  /\ Moves(a, "release", "2xx")
  /\ saved' = saved \cup {a}
  /\ UNCHANGED row

\* The handler: done, refused with an HttpException below 500, or failed by any
\* other error, which PrismaExceptionFilter may yet answer with a 4xx.
Handle(a) ==
  /\ At(a, "run")
  /\ \/ /\ saved' = saved \cup {a}
        /\ Moves(a, "store", "2xx")
     \/ /\ \/ Moves(a, "store", "4xx")
           \/ \E answer \in {"4xx", "5xx"} : Moves(a, "release", answer)
        /\ saved' \in {saved} \cup IF "late" \in Faults THEN {saved \cup {a}} ELSE {}
  /\ UNCHANGED row

\* Mutant: tries until the update succeeds.
StoreStubborn(a) ==
  /\ At(a, "store")
  /\ row # NoRow
  /\ row' = [row EXCEPT !.status = "COMPLETED", !.answer = attempts[a].answer]
  /\ Goes(a, "answer")
  /\ UNCHANGED saved

\* The update names the key, not the row's id.  When it fails, the row gone
\* (P2025, a 404) or the database out of reach, catchError takes that for the
\* handler's own failure after a success, and lets it pass after a refusal.
Store(a) ==
  /\ At(a, "store")
  /\ \/ /\ row # NoRow
        /\ row' = [row EXCEPT !.status = "COMPLETED", !.answer = attempts[a].answer]
        /\ Goes(a, "answer")
     \/ /\ row = NoRow \/ "store" \in Faults
        /\ Moves(a, IF attempts[a].answer = "2xx" THEN "release" ELSE "answer",
                 IF row = NoRow THEN "4xx" ELSE "5xx")
        /\ UNCHANGED row
  /\ UNCHANGED saved

\* The delete names the key, not the row's id; it is awaited, and the error is
\* thrown when it has committed.
Release(a) ==
  /\ At(a, "release")
  /\ \/ /\ row' = NoRow
        /\ Goes(a, "answer")
     \/ /\ "store" \in Faults
        /\ Moves(a, "answer", "5xx")
        /\ UNCHANGED row
  /\ UNCHANGED saved

\* The body or the error leaves the interceptor.  A lookup that answers writes
\* nothing and is one step with this.
Answer(a) ==
  /\ At(a, "answer")
  /\ Goes(a, "done")
  /\ UNCHANGED <<row, saved>>

-----------------------------------------------------------------------------
Crash ==
  /\ "crash" \in Faults
  /\ InFlight # {}
  /\ attempts' = [a \in Attempts |-> IF a \in InFlight
                                     THEN [attempts[a] EXCEPT !.pc = "lost"]
                                     ELSE attempts[a]]
  /\ UNCHANGED <<row, saved>>

\* The row's day ends, and with it what the key promises.
Expire ==
  /\ row # NoRow /\ ~row.expired
  /\ "slow" \in Faults \/ row.by \notin Holding
  /\ row' = [row EXCEPT !.expired = TRUE]
  /\ saved' = {}
  /\ UNCHANGED attempts

\* Mutant: the sweep leaves what is pending.
PurgeCompleted ==
  /\ row.expired /\ row.status = "COMPLETED"
  /\ row' = NoRow
  /\ UNCHANGED <<attempts, saved>>

\* Mutant: the sweep ignores expiresAt.
PurgeAny ==
  /\ row # NoRow
  /\ row' = NoRow
  /\ UNCHANGED <<attempts, saved>>

\* The hourly sweep.
PurgeExpired ==
  /\ row.expired
  /\ row' = NoRow
  /\ UNCHANGED <<attempts, saved>>

Serve(a) ==
  \/ Reserve(a) \/ Lookup(a) \/ ClearStale(a)
  \/ Handle(a) \/ Store(a) \/ Release(a) \/ Answer(a)

Next ==
  \/ \E a \in Attempts : Send(a) \/ Serve(a)
  \/ Crash
  \/ Expire \/ PurgeExpired

Spec == Init /\ [][Next]_vars

\* What has arrived is served, days pass and the sweep runs; no client has to
\* send anything.
FairSpec ==
  /\ Spec
  /\ \A a \in Attempts : WF_vars(Serve(a))
  /\ WF_vars(Expire) /\ WF_vars(PurgeExpired)

-----------------------------------------------------------------------------
\* Two attempts never run the handler at the same time: of two that race on
\* the insert one loses (class comment: "rather than both executing").
OneRunner == \A a, b \in Holding : a = b

\* The attempts that did what the key asks for and have not failed since: their
\* answer, sent or not, is the success.
Succeeded == {a \in saved : attempts[a].answer = "2xx"}

\* While the key lasts no two attempts succeed, whatever the retries, their order
\* and the crashes between them: for what the key asks for to be done again, the
\* attempt that did it must have failed after its commit and released the key.
\* It is not said that the client of that attempt has been told so.
SavedOnce == \A a, b \in Succeeded : a = b

\* The reading on which a client that repeats what it has no answer to is safe:
\* what is done twice, it was told had failed.  False when the process dies
\* between the key's release and the answer.
Untold == Succeeded \cup {a \in saved : At(a, "lost")}
ToldOrOnce == \A a, b \in Untold : a = b

\* The stronger reading of the class comment, a client may "safely retry".  True
\* when nothing but crashes can go wrong; false when the answer cannot be stored,
\* or fails to be made after the commit.
RunsOnce == \A a, b \in saved : a = b

\* The attempt that runs holds the row it will complete or release, so naming
\* the row by its key hits no one else's.
RunnerOwnsRow ==
  \A a \in Holding : row.by = a /\ row.status = "PENDING" /\ ~row.expired

\* What is replayed was decided before, as the answer to the same request.
ReplaysFaithful ==
  \A a \in Attempts : attempts[a].replayOf # NoOne =>
    /\ attempts[a].body = attempts[attempts[a].replayOf].body
    /\ attempts[a].answer = attempts[attempts[a].replayOf].answer

\* What makes these inductive.  The author of a row inserted it once and runs
\* or is settled; what somebody is about to clear, or took an answer from, is
\* the row of an attempt that is settled.
RowHasAuthor ==
  /\ row # NoRow =>
       /\ row.by \in Attempts
       /\ row.by \in Holding \/ Settled(row.by)
       /\ row.body = attempts[row.by].body
  /\ row.expired => row # NoRow
  /\ row.expired \/ row.status = "COMPLETED" => Settled(row.by)

CompletedByAuthor == row.status = "COMPLETED" => attempts[row.by].answer = row.answer

ClearsStale ==
  \A a \in Attempts : At(a, "clear") =>
    LET b == attempts[a].seen IN
    b \in Attempts /\ Settled(b) /\ (row.by = b => row.expired)

ReplaysDone ==
  \A a \in Attempts : attempts[a].replayOf # NoOne =>
    attempts[a].replayOf \in Attempts /\ At(a, "done") /\ Settled(attempts[a].replayOf)

StoresAnswer ==
  \A a \in Attempts : At(a, "store") => attempts[a].answer \in {"2xx", "4xx"}

KeyInv ==
  /\ TypeOK /\ StoresAnswer
  /\ RunnerOwnsRow /\ RowHasAuthor /\ CompletedByAuthor
  /\ ClearsStale
  /\ ReplaysDone /\ ReplaysFaithful

\* The success is what the row stands for.
SavedInv ==
  /\ KeyInv
  /\ \A a \in saved : attempts[a].pc \in {"store", "release", "answer", "done", "lost"}
  /\ \A a \in Attempts : At(a, "release") => attempts[a].answer \in {"4xx", "5xx"}
  /\ \A a \in Succeeded : row.by = a /\ ~row.expired

\* What FRONTEND.md says of "409 already being processed": another attempt
\* with this key is still running.
BusyMeansRunning ==
  [][\A a \in Attempts :
       attempts'[a].answer = "409 busy" /\ attempts[a].answer # "409 busy" => Holding # {}]_vars

\* What FRONTEND.md says of a 5xx: nothing was saved and the key is released.
FailureSavedNothing == \A a \in saved : attempts[a].answer # "5xx"

\* What schema.prisma says of the recorded fingerprint: it tells a retry from
\* a genuinely different request.
ReplayIsSameRequest ==
  \A a \in Attempts : attempts[a].replayOf # NoOne =>
    attempts[a].target = attempts[attempts[a].replayOf].target

\* A key is not reserved for ever: the row of an attempt that will never
\* complete it goes too.
PendingIsTemporary == row.status = "PENDING" ~> row.status # "PENDING"

\* Every attempt comes to an end: the mutual calls of reserveAndRun and
\* replayOrReject terminate.
EveryAttemptEnds == \A a \in Attempts : At(a, "reserve") ~> Settled(a) /\ ~At(a, "answer")

=============================================================================
