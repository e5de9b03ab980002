----------------------------- MODULE Governance -----------------------------
(***************************************************************************)
(* The sweeps that run beside the cycles of an objective, and the requests  *)
(* that race with them: conversation extracts, periodic reviews, automatic  *)
(* approval, conflict detection, drift of an objective's text, retention.   *)
(* They share the event journal, whose keys make each of them happen once,  *)
(* and retention deletes old rows of the journal and old task attempts.     *)
(*                                                                          *)
(* One objective.  Time is the age of a row: a review is fresh, due (more   *)
(* than 5 minutes old) or past (older than the review interval); a journal  *)
(* row or an attempt is old when retention may delete it.  Whoever has      *)
(* waited long enough is chosen by Wait, Week and Month.                    *)
(***************************************************************************)
EXTENDS Naturals, Sequences, FiniteSets, SequencesExt

CONSTANTS Extracts,          \* conversation extracts of the objective
          ClientKeys,        \* idempotency keys of POST /api/reviews
          Threshold,         \* auto approval is enabled and not forbidden
          Scopes,            \* what may happen beside the tick, chosen at Init
          MaxReviews, MaxTasks, MaxAttempts, MaxEvents

ASSUME GovernanceAssumption ==
  /\ Threshold \in BOOLEAN /\ "none" \notin ClientKeys
  /\ Scopes \subseteq SUBSET {"reviews", "extracts", "text", "attempts"}
  /\ {MaxReviews, MaxTasks, MaxAttempts, MaxEvents} \subseteq Nat

VARIABLES reviews,     \* review_artifacts, by review_id (oldest first)
          approvals,   \* review -> its durable artifacts, [auto, manual]
          reviewed,    \* plan_gates.review_satisfied
          tally,       \* the objective's tasks, [ok, all]
          absorbed,    \* extract -> how often it was processed; its entries reached the plan
          arrived,     \* conversation_extracts that exist
          text,        \* the objective's text is newer than [plan, drift event]
          attempts,    \* the attempt indices of one task, [index, done, old]
          keys,        \* idempotency keys in event_journal
          old,         \* the keys of journal rows older than the retention time
          sweep,       \* where the loop runner's tick stands
          scope,       \* which of Scopes this behaviour is about
          asked,       \* requests between their statements
          spent        \* restarts, months, weeks, PATCH requests: how often

govVars == <<reviews, approvals, reviewed, tally, absorbed, arrived, text,
             attempts, keys, old, sweep, scope, asked, spent>>

-----------------------------------------------------------------------------
(* Rows and keys *)

ReviewStatuses == {"scheduled", "in_progress", "integrated", "approved", "changes_requested"}
Verdicts == {"none", "informational", "approved", "auto_approved", "rejected"}
Review(st, v) == [status |-> st, verdict |-> v, age |-> "fresh", key |-> "none"]

Approve(r) == <<"approve_review", r>>
AutoApprove(r) == <<"auto-approve", r>>
ExtractKey(e) == <<"process-extract", e>>
ClientKey(k) == <<"client", k>>
AttemptKey(i) == <<"worker-dispatch", i>>
DriftKey == <<"drift-obj">>

\* ON CONFLICT DO NOTHING: the row that is there stays, with its age.
Journal(k) == keys' = keys \cup {k} /\ old' = old

Start == [at |-> "extracts", rows |-> {}]
TickEnds == sweep' = Start
Next1(phase) == sweep' = [at |-> phase, rows |-> {}]

GovInit ==
  /\ reviews = <<>> /\ approvals = <<>>
  /\ reviewed = FALSE
  /\ tally = [ok |-> 0, all |-> 1]
  /\ absorbed = [e \in Extracts |-> [times |-> 0, planned |-> FALSE]] /\ arrived = {}
  /\ text = [plan |-> FALSE, event |-> FALSE]
  /\ attempts = {}
  /\ keys = {} /\ old = {}
  /\ sweep = Start /\ scope \in Scopes /\ asked = {}
  /\ spent = [restarts |-> 0, prunes |-> 0, weeks |-> 0, patches |-> 0]

Spend(what) ==
  /\ spent.restarts + spent.prunes + spent.weeks + spent.patches < MaxEvents
  /\ spent' = [spent EXCEPT ![what] = @ + 1]

\* A new review; its artifacts are counted next to it.
AddReview(r) ==
  /\ Len(reviews) < MaxReviews
  /\ reviews' = Append(reviews, r)
  /\ approvals' = Append(approvals, [auto |-> 0, manual |-> 0])

-----------------------------------------------------------------------------
(* The tick *)

\* process_conversation_extracts: the extracts without their event.
SelectExtracts ==
  /\ sweep.at = "extracts"
  /\ LET rows == {e \in arrived : ExtractKey(e) \notin keys} IN
     sweep' = IF rows = {} THEN [at |-> "periodic", rows |-> {}]
              ELSE [at |-> "absorb", rows |-> rows]
  /\ UNCHANGED <<reviews, approvals, reviewed, tally, absorbed, arrived, text,
                 attempts, keys, old, asked, spent, scope>>

\* The writers of extracts (routes/chat.rs) store constraints, decisions and
\* questions as objects, {"decision": ...}; the tick takes those that are strings.
Entries == "objects"

Taken(e) == absorbed' = [absorbed EXCEPT ![e] = [times |-> @.times + 1,
                                                 planned |-> @.planned \/ Entries = "strings"]]

AfterExtract(e) == sweep' = IF sweep.rows = {e} THEN [at |-> "periodic", rows |-> {}]
                            ELSE [sweep EXCEPT !.rows = @ \ {e}]

\* Mistake: the event is written after the transaction, and may be lost.
AbsorbThenEvent(e) ==
  /\ sweep.at = "absorb" /\ e \in sweep.rows
  /\ Taken(e) /\ AfterExtract(e)
  /\ keys' \in {keys, keys \cup {ExtractKey(e)}} /\ old' = old
  /\ UNCHANGED <<reviews, approvals, reviewed, tally, arrived, text, attempts, asked, spent, scope>>

\* Mistake: an insert that fails is not noticed, and the event written.
AbsorbUnchecked(e) ==
  /\ sweep.at = "absorb" /\ e \in sweep.rows
  /\ absorbed' = absorbed \/ Taken(e)
  /\ Journal(ExtractKey(e)) /\ AfterExtract(e)
  /\ UNCHANGED <<reviews, approvals, reviewed, tally, arrived, text, attempts, asked, spent, scope>>

\* One transaction per extract: invariants, questions, roadmap, the event.
Absorb(e) ==
  /\ sweep.at = "absorb" /\ e \in sweep.rows
  /\ Taken(e) /\ AfterExtract(e)
  /\ Journal(ExtractKey(e))
  /\ UNCHANGED <<reviews, approvals, reviewed, tally, arrived, text, attempts, asked, spent, scope>>

\* check_periodic_reviews: no review of the objective within the interval.
Recent == \E r \in DOMAIN reviews : reviews[r].age # "past"

\* Mistake: any review counts, however old.
PeriodicOnce ==
  /\ sweep.at = "periodic"
  /\ IF reviews # <<>>
     THEN UNCHANGED <<reviews, approvals>>
     ELSE AddReview(Review("integrated", "informational"))
  /\ Next1("pending")
  /\ UNCHANGED <<reviewed, tally, absorbed, arrived, text, attempts, keys, old, asked, spent, scope>>

Periodic ==
  /\ sweep.at = "periodic"
  /\ IF Recent \/ Len(reviews) = MaxReviews
     THEN UNCHANGED <<reviews, approvals>>
     ELSE AddReview(Review("integrated", "informational"))
  /\ Next1("pending")
  /\ UNCHANGED <<reviewed, tally, absorbed, arrived, text, attempts, keys, old, asked, spent, scope>>

\* Mistake: the clients' reviews are left out, not those of the sweep.
SelectPendingOfSweep ==
  /\ sweep.at = "pending"
  /\ LET rows == {r \in DOMAIN reviews : reviews[r].status = "scheduled" /\ reviews[r].key = "none"
                                         /\ reviews[r].age # "fresh"}
     IN sweep' = IF rows = {} \/ ~Threshold THEN [at |-> "conflicts", rows |-> {}]
                 ELSE [at |-> "stats", rows |-> rows]
  /\ UNCHANGED <<reviews, approvals, reviewed, tally, absorbed, arrived, text,
                 attempts, keys, old, asked, spent, scope>>

\* process_pending_reviews: scheduled for more than 5 minutes ...
SelectPending ==
  /\ sweep.at = "pending"
  /\ LET rows == {r \in DOMAIN reviews : reviews[r].status = "scheduled" /\ reviews[r].age # "fresh"}
     IN sweep' = IF rows = {} \/ ~Threshold THEN [at |-> "conflicts", rows |-> {}]
                 ELSE [at |-> "stats", rows |-> rows]
  /\ UNCHANGED <<reviews, approvals, reviewed, tally, absorbed, arrived, text,
                 attempts, keys, old, asked, spent, scope>>

Eligible == tally.ok > 0 /\ 2 * tally.ok > tally.all

NextPending(r) == sweep' = IF sweep.rows = {r} THEN [at |-> "conflicts", rows |-> {}]
                           ELSE [at |-> "stats", rows |-> sweep.rows \ {r}]

\* Mistake: an objective without tasks counts as successful.
ReadStatsOfNone(r) ==
  /\ sweep.at = "stats" /\ r \in sweep.rows
  /\ sweep' = [at |-> "approve", rows |-> sweep.rows, row |-> r]
  /\ UNCHANGED <<reviews, approvals, reviewed, tally, absorbed, arrived, text,
                 attempts, keys, old, asked, spent, scope>>

\* ... more than half of the tasks succeeded ...
ReadStats(r) ==
  /\ sweep.at = "stats" /\ r \in sweep.rows
  /\ IF Eligible THEN sweep' = [at |-> "approve", rows |-> sweep.rows, row |-> r]
     ELSE NextPending(r)
  /\ UNCHANGED <<reviews, approvals, reviewed, tally, absorbed, arrived, text,
                 attempts, keys, old, asked, spent, scope>>

\* Mistake: the verdict is written into the status.
AutoApprovalStatus ==
  /\ sweep.at = "approve"
  /\ LET r == sweep.row IN
     /\ reviews' = [reviews EXCEPT ![r].status = "auto_approved"]
     /\ approvals' = [approvals EXCEPT ![r].auto = @ + 1]
     /\ Journal(AutoApprove(r))
     /\ NextPending(r)
  /\ reviewed' = TRUE
  /\ UNCHANGED <<tally, absorbed, arrived, text, attempts, asked, spent, scope>>

\* ... then approve: review, artifact, plan gate and event in a transaction that
\* does not look at the status again.
AutoApproval ==
  /\ sweep.at = "approve"
  /\ LET r == sweep.row IN
     /\ reviews' = [reviews EXCEPT ![r].status = "approved", ![r].verdict = "auto_approved"]
     /\ approvals' = [approvals EXCEPT ![r].auto = @ + 1]
     /\ Journal(AutoApprove(r))
     /\ NextPending(r)
  /\ reviewed' = TRUE
  /\ UNCHANGED <<tally, absorbed, arrived, text, attempts, asked, spent, scope>>

\* An older approval and a younger rejection of the same target.
Disagreement == \E a, b \in DOMAIN reviews :
                  /\ a < b
                  /\ reviews[a].verdict \in {"approved", "auto_approved"}
                  /\ reviews[b].verdict = "rejected"

\* detect_conflicts: the conflict's history refers to conflict_records, where
\* the conflict is not; the transaction rolls back and the tick ends.
\* auto_resolve_conflicts therefore never finds a conflict.
DetectConflicts ==
  /\ sweep.at = "conflicts"
  /\ IF Disagreement THEN TickEnds ELSE Next1("drift")
  /\ UNCHANGED <<reviews, approvals, reviewed, tally, absorbed, arrived, text,
                 attempts, keys, old, asked, spent, scope>>

\* Mistake: an event that is already there is an error.
DriftOrFail ==
  /\ sweep.at = "drift"
  /\ IF text.plan /\ text.event
     THEN IF DriftKey \in keys THEN TickEnds /\ UNCHANGED <<keys, old, text>>
          ELSE /\ Journal(DriftKey) /\ text' = [text EXCEPT !.event = FALSE]
               /\ Next1("retention")
     ELSE Next1("retention") /\ UNCHANGED <<keys, old, text>>
  /\ UNCHANGED <<reviews, approvals, reviewed, tally, absorbed, arrived, attempts, asked, spent, scope>>

\* detect_drift, type 2: the text is newer than the plan and than the last event.
\* The event is journalled under a key without a date, so once.
Drift ==
  /\ sweep.at = "drift"
  /\ IF text.plan /\ text.event
     THEN /\ Journal(DriftKey)
          /\ text' = IF DriftKey \in keys THEN text ELSE [text EXCEPT !.event = FALSE]
     ELSE UNCHANGED <<keys, old, text>>
  /\ Next1("retention")
  /\ UNCHANGED <<reviews, approvals, reviewed, tally, absorbed, arrived, attempts, asked, spent, scope>>

\* Retention runs once an hour at most.
SkipRetention ==
  /\ sweep.at = "retention"
  /\ TickEnds
  /\ UNCHANGED <<reviews, approvals, reviewed, tally, absorbed, arrived, text,
                 attempts, keys, old, asked, spent, scope>>

\* enforce_retention_policies: attempts that ended a week ago, journal rows a
\* month old; one statement each.
PruneJournal ==
  /\ sweep.at = "retention"
  /\ keys' = keys \ old /\ old' = {}
  /\ text' = IF DriftKey \in old THEN [text EXCEPT !.event = text.plan] ELSE text
  /\ Next1("attempts")
  /\ UNCHANGED <<reviews, approvals, reviewed, tally, absorbed, arrived, attempts, asked, spent, scope>>

\* Mistake: the status of an attempt is not looked at.
PruneAllAttempts ==
  /\ sweep.at = "attempts"
  /\ attempts' = {}
  /\ TickEnds
  /\ UNCHANGED <<reviews, approvals, reviewed, tally, absorbed, arrived, text,
                 keys, old, asked, spent, scope>>

PruneAttempts ==
  /\ sweep.at = "attempts"
  /\ attempts' = {a \in attempts : ~a.old}
  /\ TickEnds
  /\ UNCHANGED <<reviews, approvals, reviewed, tally, absorbed, arrived, text,
                 keys, old, asked, spent, scope>>

-----------------------------------------------------------------------------
(* Requests *)

\* POST /api/reviews: looks for the key and inserts.  The event's second unique
\* index, on the key alone, is not the one its ON CONFLICT names, so the later of
\* two requests with one key rolls back: as if both were one step.
CreateReview(k) ==
  /\ "reviews" \in scope
  /\ ClientKey(k) \notin keys
  /\ AddReview([Review("scheduled", "none") EXCEPT !.key = k])
  /\ Journal(ClientKey(k))
  /\ UNCHANGED <<reviewed, tally, absorbed, arrived, text, attempts, sweep, asked, spent, scope>>

\* POST /api/reviews/{id}/approve reads the status ...
AskApproval(r) ==
  /\ "reviews" \in scope
  /\ reviews[r].status # "approved"
  /\ reviews[r].key # "none"          \* bound: reviews that clients asked for
  /\ \E who \in {"first", "again"} : asked' = asked \cup {[row |-> r, who |-> who]}
  /\ UNCHANGED <<reviews, approvals, reviewed, tally, absorbed, arrived, text,
                 attempts, keys, old, sweep, spent, scope>>

\* ... and writes review, artifact and event; the event has no ON CONFLICT, so a
\* second approval of the same review fails as long as the first is journalled.
ApproveReview(q) ==
  /\ q \in asked
  /\ asked' = asked \ {q}
  /\ IF Approve(q.row) \in keys THEN UNCHANGED <<reviews, approvals, keys, old>>
     ELSE /\ reviews' = [reviews EXCEPT ![q.row].status = "approved", ![q.row].verdict = "approved"]
          /\ approvals' = [approvals EXCEPT ![q.row].manual = @ + 1]
          /\ Journal(Approve(q.row))
  /\ UNCHANGED <<reviewed, tally, absorbed, arrived, text, attempts, sweep, spent, scope>>

\* PATCH /api/reviews/{id}: any status, any verdict, no artifact.
PatchReview(r, st, v) ==
  /\ "reviews" \in scope /\ Spend("patches")
  /\ reviews' = [reviews EXCEPT ![r].status = st, ![r].verdict = v]
  /\ UNCHANGED <<approvals, reviewed, tally, absorbed, arrived, text, attempts,
                 keys, old, sweep, asked, scope>>

-----------------------------------------------------------------------------
(* What goes on meanwhile *)

TaskEnds(ok) ==
  /\ "reviews" \in scope
  /\ tally.all < MaxTasks \/ (ok /\ tally.ok < tally.all)
  /\ tally' = IF ok /\ tally.ok < tally.all THEN [tally EXCEPT !.ok = @ + 1]
              ELSE [tally EXCEPT !.all = @ + 1]
  /\ UNCHANGED <<reviews, approvals, reviewed, absorbed, arrived, text, attempts,
                 keys, old, sweep, asked, spent, scope>>

ExtractArrives(e) ==
  /\ "extracts" \in scope
  /\ e \notin arrived /\ arrived' = arrived \cup {e}
  /\ UNCHANGED <<reviews, approvals, reviewed, tally, absorbed, text, attempts,
                 keys, old, sweep, asked, spent, scope>>

\* PATCH of the objective after its plan was made.
EditObjective ==
  /\ "text" \in scope
  /\ ~text.event
  /\ text' = [plan |-> TRUE, event |-> TRUE]
  /\ UNCHANGED <<reviews, approvals, reviewed, tally, absorbed, arrived, attempts,
                 keys, old, sweep, asked, spent, scope>>

\* Mistake: attempts are numbered by their count, from 0.
NextIndexByCount == Cardinality({a \in attempts : a.done /\ a.index > 1}) + 1

\* An executor numbers its attempt after the rows that are left; a journalled
\* key of that number means someone else has it, and the executor returns.
NextIndex == Max({a.index : a \in attempts} \cup {0}) + 1

StartAttempt ==
  /\ "attempts" \in scope
  /\ NextIndex <= MaxAttempts /\ AttemptKey(NextIndex) \notin keys
  /\ \A a \in attempts : a.done
  /\ attempts' = attempts \cup {[index |-> NextIndex, done |-> FALSE, old |-> FALSE]}
  /\ Journal(AttemptKey(NextIndex))
  /\ UNCHANGED <<reviews, approvals, reviewed, tally, absorbed, arrived, text, sweep, asked, spent, scope>>

EndAttempt ==
  /\ \E a \in attempts : ~a.done
  /\ attempts' = {[a EXCEPT !.done = TRUE] : a \in attempts}
  /\ UNCHANGED <<reviews, approvals, reviewed, tally, absorbed, arrived, text,
                 keys, old, sweep, asked, spent, scope>>

Older(age) == IF age = "fresh" THEN "due" ELSE "past"
Wait ==
  /\ "reviews" \in scope
  /\ \E r \in DOMAIN reviews : reviews[r].age # "past"
  /\ reviews' = [r \in DOMAIN reviews |-> [reviews[r] EXCEPT !.age = Older(@)]]
  /\ UNCHANGED <<approvals, reviewed, tally, absorbed, arrived, text, attempts,
                 keys, old, sweep, asked, spent, scope>>

Week ==
  /\ "attempts" \in scope
  /\ Spend("weeks")
  /\ attempts' = {[a EXCEPT !.old = a.done] : a \in attempts}
  /\ UNCHANGED <<reviews, approvals, reviewed, tally, absorbed, arrived, text,
                 keys, old, sweep, asked, scope>>

Month ==
  /\ Spend("prunes")
  /\ old' = keys
  /\ attempts' = {[a EXCEPT !.old = a.done] : a \in attempts}
  /\ UNCHANGED <<reviews, approvals, reviewed, tally, absorbed, arrived, text,
                 keys, sweep, asked, scope>>

\* A restart, or a statement that fails: the tick ends where it stands.
TickFails ==
  /\ sweep # Start /\ Spend("restarts") /\ TickEnds
  /\ UNCHANGED <<reviews, approvals, reviewed, tally, absorbed, arrived, text,
                 attempts, keys, old, asked, scope>>

-----------------------------------------------------------------------------
Sweeps == \/ SelectExtracts \/ Periodic \/ SelectPending \/ AutoApproval
          \/ \E e \in sweep.rows : Absorb(e)
          \/ \E r \in sweep.rows : ReadStats(r)
          \/ DetectConflicts \/ Drift \/ PruneJournal \/ SkipRetention \/ PruneAttempts

Requests == \/ \E k \in ClientKeys : CreateReview(k)
            \/ \E q \in asked : ApproveReview(q)
            \/ \E r \in DOMAIN reviews : AskApproval(r)
            \/ \E r \in DOMAIN reviews :
                 \/ PatchReview(r, "scheduled", reviews[r].verdict)
                 \/ PatchReview(r, "changes_requested", "rejected")

GovNext == \/ Sweeps \/ Requests
           \/ \E ok \in BOOLEAN : TaskEnds(ok)
           \/ \E e \in Extracts : ExtractArrives(e)
           \/ EditObjective \/ StartAttempt \/ EndAttempt
           \/ Wait \/ Week \/ Month \/ TickFails

\* The tick loop never stops, and an hour passes after finitely many ticks.
GovSpec == /\ GovInit /\ [][GovNext]_govVars
           /\ WF_govVars(Sweeps) /\ SF_govVars(PruneJournal)

-----------------------------------------------------------------------------
(* Properties *)

GovTypeOK ==
  /\ \A r \in DOMAIN reviews : /\ reviews[r].status \in ReviewStatuses
                               /\ reviews[r].verdict \in Verdicts
                               /\ reviews[r].age \in {"fresh", "due", "past"}
  /\ DOMAIN approvals = DOMAIN reviews
  /\ tally.ok <= tally.all
  /\ old \subseteq keys

\* What a journal key makes happen once happens once per retention period: an
\* extract is processed, a client's review created, a review approved by hand,
\* through restarts and concurrent requests.
OncePerKey ==
  /\ \A e \in Extracts : absorbed[e].times <= 1 + spent.prunes
  /\ \A r \in DOMAIN approvals : approvals[r].manual <= 1 + spent.prunes
  /\ \A k \in ClientKeys :
       Cardinality({r \in DOMAIN reviews : reviews[r].key = k}) <= 1 + spent.prunes

\* The review condition of a plan gate is met only where a review was approved
\* automatically, so where a task had succeeded and the threshold allows it,
\* whatever has been patched since (process_pending_reviews).
GateNeedsApproval ==
  reviewed => /\ Threshold /\ tally.ok > 0
              /\ \E r \in DOMAIN approvals : approvals[r].auto > 0

\* The number of the next attempt is free, as long as retention has not deleted
\* attempts whose keys it still keeps; then every executor returns at once.
NextAttemptIsFree ==
  AttemptKey(NextIndex) \in keys => spent.weeks + spent.prunes > 0

\* Retention leaves attempts alone that have not ended.
RunningAttemptsStay ==
  [][\A a \in attempts : ~a.done => \E b \in attempts' : b.index = a.index]_govVars

\* An objective under execution is reviewed again whenever its last review has
\* become too old, disagreements and restarts notwithstanding.
ReviewedAgain == ~Recent ~> (Recent \/ Len(reviews) = MaxReviews)

\* Every extract of the objective is processed.
ExtractsAreProcessed == \A e \in Extracts : e \in arrived ~> absorbed[e].times > 0

\* tick.rs:1891: process_conversation_extracts updates the plan state with the
\* constraints and decisions of new extracts.
ExtractsReachThePlan == \A e \in Extracts : e \in arrived ~> absorbed[e].planned

\* A review scheduled long enough ago is approved once most tasks succeed,
\* unless somebody changes it or the tasks first.
DueIsApproved ==
  \A r \in 1 .. MaxReviews :
    (/\ r \in DOMAIN reviews /\ reviews[r].status = "scheduled" /\ reviews[r].age # "fresh"
     /\ Eligible /\ Threshold)
      ~> (~Eligible \/ (r \in DOMAIN reviews /\ reviews[r].status # "scheduled"))

\* Rows past their retention time are deleted, unless two reviews disagree: then
\* every tick ends before drift and retention.
OldRowsGo == (old # {}) ~> (old = {} \/ Disagreement)

\* Rows fit the schema, what a journal key makes happen once happens once while the
\* key is kept, gates rest on approvals, an executor finds a free attempt number, and
\* retention deletes no attempt at work.
GovernanceHolds ==
  /\ [](GovTypeOK /\ OncePerKey /\ GateNeedsApproval /\ NextAttemptIsFree)
  /\ RunningAttemptsStay

\* The sweeps of the tick get to their work, whatever fails before them: objectives are
\* reviewed again, extracts processed, and old rows deleted unless reviews disagree.
SweepsGetThrough == ReviewedAgain /\ ExtractsAreProcessed /\ OldRowsGo
=============================================================================
