--------------------------- MODULE Certification ---------------------------
(***************************************************************************)
(* Certification of task results: what becomes a candidate and a           *)
(* submission (worker dispatch, the API, the sweep of the loop runner), the *)
(* loop runner's submission queue with one or two runs of the external      *)
(* formalizer, the projection of a verdict onto the node, and the drift     *)
(* check that takes a certificate back when something upstream changed.     *)
(*                                                                          *)
(* A task stands for its node.  A submission is one row of                  *)
(* certification_submissions together with the rows the schema makes unique *)
(* per submission: its projection ("effect") and its certificate ("ref").   *)
(* Creation times are compared only with each other, so a certificate keeps *)
(* two flags instead of a clock while it is valid: changed (an upstream     *)
(* node was updated after it was issued) and masked (a drift event of its   *)
(* node is younger).                                                        *)
(*                                                                          *)
(* Failures: the loop runner and the workers restart between any two        *)
(* statements; the formalizer may time out, fail, or disagree with itself.  *)
(* One loop runner, as the services are deployed.                           *)
(***************************************************************************)
EXTENDS Naturals, Sequences, FiniteSets, SequencesExt

CONSTANTS Tasks,
          Upstream,         \* task -> the tasks its node depends on
          Critical,         \* titles with contract, invariant, proof, safety
          SelfImproving,    \* tasks of self-improvement objectives
          Clients,          \* what API clients submit: [task, key, blank]
          Config,           \* the configurations there may be at first
          Patches,          \* the fields and values requests set
          Batch,            \* submissions per pass of the queue (5 in the code)
          MaxSuccesses,     \* succeeded attempts of a task
          MaxSubs,          \* submissions
          MaxEvents         \* node updates, configuration changes, restarts
                            \* and failed lookups, together

Frequencies == {"always", "on_request", "critical_only", "off"}

Policies == [enabled : BOOLEAN, frequency : Frequencies, dual : BOOLEAN, resubmit : BOOLEAN]

ASSUME CertAssumption ==
  /\ Config \subseteq Policies
  /\ \A c \in Clients : c.task \in Tasks /\ c.blank \in BOOLEAN
  /\ Upstream \in [Tasks -> SUBSET Tasks]
  /\ Patches \subseteq ({"enabled"} \X BOOLEAN) \cup ({"frequency"} \X Frequencies)
  /\ Critical \subseteq Tasks /\ SelfImproving \subseteq Tasks
  /\ Batch \in Nat \ {0}
  /\ {MaxSuccesses, MaxSubs, MaxEvents} \subseteq Nat

VARIABLES policy,      \* user_policies row 'certification_config'
          done,        \* task -> its succeeded attempts
          cands,       \* certification_candidates, oldest first
          subs,        \* certification_submissions, oldest first
          lane,        \* nodes.lane
          checks,      \* eligibility checks under way in worker dispatch
          requests,    \* API requests between their statements
          runner,      \* where the loop runner stands, and what it has read
          spent        \* how often each bounded thing has happened

certVars == <<policy, done, cands, subs, lane, checks, requests, runner, spent>>

-----------------------------------------------------------------------------
(* Rows *)

PassingGates == {"verified", "nominated"}
Gates == PassingGates \cup {"draft"}

\* What a run of the formalizer gives: a gate, an error, or nothing in time.
Outcomes == Gates \cup {"error", "timeout"}

Pending(c, k) == [cand |-> c, key |-> k, status |-> "pending", effect |-> "none",
                  ref |-> "none", changed |-> FALSE, masked |-> FALSE,
                  recorded |-> FALSE, agreed |-> FALSE, diverged |-> FALSE]

TaskOf(s) == cands[subs[s].cand].task
SubsOf(t) == {s \in DOMAIN subs : TaskOf(s) = t}
Settled == {"completed", "failed", "error", "timed_out", "blocked"}

Idle == [at |-> "sweep", pass |-> 1, rows |-> {}, dual |-> FALSE, res |-> <<>>]

\* The tick goes on with its next phase, or ends and starts again; sweep and
\* queue come twice in a tick, and drift at its end.
EndTick == runner' = Idle
AfterQueue == runner' = IF runner.pass = 1 THEN [Idle EXCEPT !.pass = 2]
                        ELSE [Idle EXCEPT !.at = "drift"]

CertInit ==
  /\ policy \in Config
  /\ done = [t \in Tasks |-> 0]
  /\ cands = <<>> /\ subs = <<>>
  /\ lane = [t \in Tasks |-> "branch"]
  /\ checks = {} /\ requests = {}
  /\ runner = Idle
  /\ spent = [changes |-> 0, patches |-> 0, crashes |-> 0, lookups |-> 0]

Spend(what) ==
  /\ spent.changes + spent.patches + spent.crashes + spent.lookups < MaxEvents
  /\ spent' = [spent EXCEPT ![what] = @ + 1]

\* nodes.updated_at of t moved on: certificates that rest on t are out of date.
Outdate(rows, t) ==
  [s \in DOMAIN rows |->
     [rows[s] EXCEPT !.changed = @ \/ (/\ rows[s].ref = "valid"
                                       /\ t \in Upstream[cands[rows[s].cand].task])]]

-----------------------------------------------------------------------------
(* Candidates and submissions *)

\* An executor finishes an attempt with success; its eligibility check follows.
\* With byApi the task is reported by a request instead, and nobody checks.
Succeed(t, byApi) ==
  /\ done[t] < MaxSuccesses
  /\ done' = [done EXCEPT ![t] = @ + 1]
  /\ checks' = IF byApi THEN checks
               ELSE checks \cup {[task |-> t, attempt |-> done[t] + 1, at |-> "policy"]}
  /\ subs' = Outdate(subs, t)
  /\ UNCHANGED <<policy, cands, lane, requests, runner, spent>>

ShouldCreate(t) ==
  /\ policy.enabled
  /\ \/ policy.frequency = "always"
     \/ policy.frequency = "critical_only" /\ t \in Critical

\* check_certification_eligibility reads the configuration ...
ReadPolicy(c) ==
  /\ c \in checks /\ c.at = "policy"
  /\ checks' = (checks \ {c}) \cup
               IF ShouldCreate(c.task) THEN {[c EXCEPT !.at = "insert"]} ELSE {}
  /\ UNCHANGED <<policy, done, cands, subs, lane, requests, runner, spent>>

AutoKey(c) == <<c.task, c.attempt>>
HasKey(k) == \E s \in DOMAIN subs : subs[s].key = k

\* Mistake: the submission refers to the candidate before its own.
EnqueueOffByOne(cand, k) ==
  /\ cands' = Append(cands, cand)
  /\ subs' = Append(subs, Pending(Len(cands), k))

Enqueue(cand, k) ==
  /\ cands' = Append(cands, cand)
  /\ subs' = Append(subs, Pending(Len(cands) + 1, k))

\* ... and inserts candidate, submission and event in one transaction.
InsertCandidate(c) ==
  /\ c \in checks /\ c.at = "insert"
  /\ Len(subs) < MaxSubs
  /\ checks' = checks \ {c}
  /\ IF HasKey(AutoKey(c)) THEN UNCHANGED <<cands, subs>>
     ELSE Enqueue([task |-> c.task, blank |-> FALSE], AutoKey(c))
  /\ UNCHANGED <<policy, done, lane, requests, runner, spent>>

\* POST /api/certification/submit: looks for the key ...
ApiSubmit(claim) ==
  /\ ~HasKey(claim.key)
  /\ requests' = requests \cup {claim}
  /\ UNCHANGED <<policy, done, cands, subs, lane, checks, runner, spent>>

\* Mistake: no UNIQUE key.
InsertAnyway(r) ==
  /\ r \in requests \cap Clients /\ Len(subs) < MaxSubs
  /\ requests' = requests \ {r}
  /\ Enqueue([task |-> r.task, blank |-> r.blank], r.key)
  /\ UNCHANGED <<policy, done, lane, checks, runner, spent>>

\* ... and inserts; the UNIQUE key makes the later of two equal requests fail.
ApiInsert(r) ==
  /\ r \in requests \cap Clients /\ Len(subs) < MaxSubs
  /\ requests' = requests \ {r}
  /\ IF HasKey(r.key) THEN UNCHANGED <<cands, subs>>
     ELSE Enqueue([task |-> r.task, blank |-> r.blank], r.key)
  /\ UNCHANGED <<policy, done, lane, checks, runner, spent>>

\* PATCH /api/certification/config reads the payload ...
PatchRead(field, value) ==
  /\ Spend("patches")
  /\ requests' = requests \cup {[policy EXCEPT ![field] = value]}
  /\ UNCHANGED <<policy, done, cands, subs, lane, checks, runner>>

\* ... and writes all of it back, other requests' changes since then included.
PatchWrite(r) ==
  /\ r \in requests \ Clients
  /\ requests' = requests \ {r}
  /\ policy' = r
  /\ UNCHANGED <<done, cands, subs, lane, checks, runner, spent>>

-----------------------------------------------------------------------------
(* The sweep and the queue *)

HasCandidate(t) == \E c \in DOMAIN cands : cands[c].task = t
Missed == {t \in Critical : done[t] > 0 /\ ~HasCandidate(t)}

\* select_certification_candidates: for the first task it finds, it orders
\* artifact_refs by a column the table does not have; the tick ends there.
Sweep ==
  /\ runner.at = "sweep"
  /\ IF Missed = {} THEN runner' = [runner EXCEPT !.at = "config"] ELSE EndTick
  /\ UNCHANGED <<policy, done, cands, subs, lane, checks, requests, spent>>

\* process_certification_queue
ReadConfig ==
  /\ runner.at = "config"
  /\ IF policy.enabled
     THEN runner' = [runner EXCEPT !.at = "select", !.dual = policy.dual]
     ELSE AfterQueue
  /\ UNCHANGED <<policy, done, cands, subs, lane, checks, requests, spent>>

\* Mistake: blocked submissions are tried again.
PendingOrBlocked ==
  {s \in DOMAIN subs : subs[s].status \in {"pending", "blocked"}}

PendingRows == {s \in DOMAIN subs : subs[s].status = "pending"}

\* ORDER BY created_at LIMIT n
Oldest(S, n) == {s \in S : Cardinality({o \in S : o < s}) < n}

SelectPending ==
  /\ runner.at = "select"
  /\ IF PendingRows = {} THEN AfterQueue
     ELSE runner' = [runner EXCEPT !.at = "row", !.rows = Oldest(PendingRows, Batch)]
  /\ UNCHANGED <<policy, done, cands, subs, lane, checks, requests, spent>>

Row == Min(runner.rows)
NextRow == runner' = [runner EXCEPT !.at = "row", !.rows = @ \ {Row}, !.res = <<>>]
SetStatus(st) == subs' = [subs EXCEPT ![Row].status = st]

\* Mistake: every unfinished submission of the candidate counts.
InGraceOfAny(s) == \E o \in DOMAIN subs : /\ subs[o].cand = subs[s].cand
                                          /\ subs[o].status # "completed"

\* A submission of the same candidate failed within the grace period.
InGrace(s) == \E o \in DOMAIN subs : /\ subs[o].cand = subs[s].cand
                                     /\ subs[o].status \in {"failed", "timed_out", "error"}

\* The next row: an empty claim is an error, a candidate in its grace period is
\* left pending, any other is being processed from now on.
TakeRow ==
  /\ runner.at = "row"
  /\ IF runner.rows = {} THEN AfterQueue /\ UNCHANGED subs
     ELSE IF cands[subs[Row].cand].blank THEN SetStatus("error") /\ NextRow
     ELSE IF InGrace(Row) THEN NextRow /\ UNCHANGED subs
     ELSE SetStatus("processing") /\ runner' = [runner EXCEPT !.at = "mode"]
  /\ UNCHANGED <<policy, done, cands, lane, checks, requests, spent>>

\* Mistake: the objective is not looked at.
ChooseByConfig ==
  /\ runner.at = "mode"
  /\ runner' = [runner EXCEPT !.at = "run"]
  /\ UNCHANGED <<policy, done, cands, subs, lane, checks, requests, spent>>

\* Two runs when the configuration requires them; one otherwise, which a
\* self-improvement objective is refused (the attempt is recorded too), unless
\* the lookup fails, which the code takes for "not required".
ChooseMode ==
  /\ runner.at = "mode"
  /\ IF ~runner.dual /\ TaskOf(Row) \in SelfImproving
     THEN \/ SetStatus("blocked") /\ NextRow /\ UNCHANGED spent
          \/ /\ Spend("lookups")
             /\ runner' = [runner EXCEPT !.at = "run"]
             /\ UNCHANGED subs
     ELSE runner' = [runner EXCEPT !.at = "run"] /\ UNCHANGED <<subs, spent>>
  /\ UNCHANGED <<policy, done, cands, lane, checks, requests>>

\* run_certification, once, or twice unless the first run timed out.
Formalize(o) ==
  /\ runner.at = "run"
  /\ LET res == Append(runner.res, o) IN
     runner' = [runner EXCEPT !.res = res,
                  !.at = IF ~runner.dual \/ Len(res) = 2 \/ o = "timeout"
                         THEN "record" ELSE "run"]
  /\ UNCHANGED <<policy, done, cands, subs, lane, checks, requests, spent>>

\* Mistake: a rejected submission keeps its status.
ApplyWithoutStatus(gate) ==
  LET passed == gate \in PassingGates
  IN /\ subs' = [subs EXCEPT ![Row].status = IF passed THEN "completed" ELSE @,
                             ![Row].effect = IF passed THEN "admit" ELSE "block",
                             ![Row].ref = IF passed THEN "valid" ELSE "rejected",
                             ![Row].agreed = runner.dual]
     /\ lane' = IF passed THEN [lane EXCEPT ![TaskOf(Row)] = "mainline_candidate"] ELSE lane

\* apply_certification_result, one transaction.
Apply(gate) ==
  LET passed == gate \in PassingGates
      promotes == passed /\ lane[TaskOf(Row)] = "branch"
      applied == [subs EXCEPT ![Row].status = IF passed THEN "completed" ELSE "failed",
                              ![Row].effect = IF passed THEN "admit" ELSE "block",
                              ![Row].ref = IF passed THEN "valid" ELSE "rejected",
                              ![Row].agreed = runner.dual]
  IN /\ subs' = IF promotes THEN Outdate(applied, TaskOf(Row)) ELSE applied
     /\ lane' = IF promotes THEN [lane EXCEPT ![TaskOf(Row)] = "mainline_candidate"]
                ELSE lane

Diverged == LET r == runner.res IN Len(r) = 2 /\ {r[1], r[2]} \subseteq Gates /\ r[1] # r[2]

\* Mistake: a time-out is only logged.
RecordIfAnswered ==
  /\ runner.at = "record" /\ ~Diverged
  /\ LET r == runner.res IN
     IF r[Len(r)] = "timeout" THEN NextRow /\ UNCHANGED <<subs, lane>>
     ELSE IF \E i \in DOMAIN r : r[i] = "error"
          THEN SetStatus("error") /\ NextRow /\ UNCHANGED lane
     ELSE Apply(r[1]) /\ NextRow
  /\ UNCHANGED <<policy, done, cands, checks, requests, spent>>

\* A certificate is unique per submission: a second one makes the transaction,
\* and with it the tick, fail.
Record ==
  /\ runner.at = "record" /\ ~Diverged
  /\ LET r == runner.res IN
     IF r[Len(r)] = "timeout" THEN SetStatus("timed_out") /\ NextRow /\ UNCHANGED lane
     ELSE IF \E i \in DOMAIN r : r[i] = "error"
          THEN SetStatus("error") /\ NextRow /\ UNCHANGED lane
     ELSE IF subs[Row].ref # "none" THEN EndTick /\ UNCHANGED <<subs, lane>>
     ELSE Apply(r[1]) /\ NextRow
  /\ UNCHANGED <<policy, done, cands, checks, requests, spent>>

\* Two gates that differ: the transaction that should block the submission and
\* ask for an adjudication refers to conflict_records, where the conflict is
\* not; it rolls back, the tick ends, and the submission stays in processing.
RecordDivergence ==
  /\ runner.at = "record" /\ Diverged
  /\ subs' = [subs EXCEPT ![Row].diverged = TRUE]      \* history
  /\ EndTick
  /\ UNCHANGED <<policy, done, cands, lane, checks, requests, spent>>

-----------------------------------------------------------------------------
(* Drift *)

Drifted(s) == subs[s].ref = "valid" /\ subs[s].changed /\ ~subs[s].masked

\* Mistake: only the latest certificate is looked at.
SelectLatestDrifted ==
  /\ runner.at = "drift"
  /\ IF subs = <<>> \/ ~Drifted(Len(subs)) THEN EndTick
     ELSE runner' = [runner EXCEPT !.at = "stale", !.rows = {Len(subs)}]
  /\ UNCHANGED <<policy, done, cands, subs, lane, checks, requests, spent>>

SelectDrifted ==
  /\ runner.at = "drift"
  /\ LET rows == {s \in DOMAIN subs : Drifted(s)} IN
     IF rows = {} THEN EndTick
     ELSE runner' = [runner EXCEPT !.at = "stale", !.rows = rows]
  /\ UNCHANGED <<policy, done, cands, subs, lane, checks, requests, spent>>

\* Mistake: the invalidation record is forgotten.
MarkStaleOnly ==
  /\ runner.at = "stale"
  /\ subs' = [subs EXCEPT ![Row].ref = "stale"]
  /\ runner' = [runner EXCEPT !.at = "resubmit"]
  /\ UNCHANGED <<policy, done, cands, lane, checks, requests, spent>>

MarkStale ==
  /\ runner.at = "stale"
  /\ subs' = [subs EXCEPT ![Row].ref = "stale"]
  /\ runner' = [runner EXCEPT !.at = "invalidate"]
  /\ UNCHANGED <<policy, done, cands, lane, checks, requests, spent>>

InsertInvalidation ==
  /\ runner.at = "invalidate"
  /\ subs' = [subs EXCEPT ![Row].recorded = TRUE]
  /\ runner' = [runner EXCEPT !.at = "resubmit"]
  /\ UNCHANGED <<policy, done, cands, lane, checks, requests, spent>>

\* auto_resubmit_on_stale: a new candidate, which no submission ever follows.
Resubmit ==
  /\ runner.at = "resubmit"
  /\ cands' = IF policy.resubmit THEN Append(cands, cands[subs[Row].cand]) ELSE cands
  /\ runner' = [runner EXCEPT !.at = "event"]
  /\ UNCHANGED <<policy, done, subs, lane, checks, requests, spent>>

\* The event is younger than every certificate of the node.
DriftEvent ==
  /\ runner.at = "event"
  /\ subs' = [s \in DOMAIN subs |->
                [subs[s] EXCEPT !.masked = @ \/ (TaskOf(s) = TaskOf(Row) /\ subs[s].ref = "valid")]]
  /\ IF runner.rows = {Row} THEN EndTick
     ELSE runner' = [runner EXCEPT !.at = "stale", !.rows = @ \ {Row}]
  /\ UNCHANGED <<policy, done, cands, lane, checks, requests, spent>>

\* Another module updates the node of t (a wake-up, a request, an edit).
UpdateNode(t) ==
  /\ Spend("changes")
  /\ subs' = Outdate(subs, t)
  /\ UNCHANGED <<policy, done, cands, lane, checks, requests, runner>>

RunnerRestarts ==
  /\ runner # Idle
  /\ Spend("crashes")
  /\ EndTick
  /\ UNCHANGED <<policy, done, cands, subs, lane, checks, requests>>

WorkersRestart ==
  /\ Spend("crashes")
  /\ checks # {} /\ checks' = {}
  /\ UNCHANGED <<policy, done, cands, subs, lane, requests, runner>>

-----------------------------------------------------------------------------
Tick == \/ Sweep \/ ReadConfig \/ SelectPending \/ TakeRow \/ ChooseMode
        \/ \E o \in Outcomes : Formalize(o)
        \/ Record \/ RecordDivergence
        \/ SelectDrifted \/ MarkStale \/ InsertInvalidation \/ Resubmit \/ DriftEvent
Check == \E c \in checks : ReadPolicy(c) \/ InsertCandidate(c)
Request == \/ \E claim \in Clients : ApiSubmit(claim)
           \/ \E r \in requests : ApiInsert(r) \/ PatchWrite(r)
           \/ \E p \in Patches : PatchRead(p[1], p[2])

CertNext == \/ Tick \/ Check \/ Request
            \/ \E t \in Tasks, byApi \in BOOLEAN : Succeed(t, byApi)
            \/ \E t \in Tasks : UpdateNode(t)
            \/ RunnerRestarts \/ WorkersRestart

CertSpec == CertInit /\ [][CertNext]_certVars /\ WF_certVars(Tick) /\ WF_certVars(Check)

-----------------------------------------------------------------------------
(* Properties *)

SubRows == [cand : 1 .. MaxSubs * 2, key : {c.key : c \in Clients} \cup (Tasks \X (1 .. MaxSuccesses)),
            status : {"pending", "processing"} \cup Settled,
            effect : {"none", "admit", "block"},
            ref : {"none", "valid", "rejected", "stale"},
            changed : BOOLEAN, masked : BOOLEAN, recorded : BOOLEAN,
            agreed : BOOLEAN, diverged : BOOLEAN]

\* Rows keep the shape the schema gives them and refer to rows that exist.
CertTypeOK ==
  /\ policy \in Policies
  /\ \A s \in DOMAIN subs : subs[s] \in SubRows /\ subs[s].cand \in DOMAIN cands
  /\ lane \in [Tasks -> {"branch", "mainline_candidate"}]
  /\ runner.rows \subseteq DOMAIN subs

\* The three places a verdict is written to agree, and once it is written the
\* submission is no longer in the queue or being processed, whatever restarts
\* (apply_certification_result).
VerdictConsistent ==
  \A s \in DOMAIN subs :
    /\ subs[s].effect = "admit" <=> subs[s].status = "completed"
    /\ subs[s].effect = "block" <=> subs[s].status = "failed"
    /\ subs[s].effect = "admit" <=> subs[s].ref \in {"valid", "stale"}
    /\ subs[s].effect = "block" <=> subs[s].ref = "rejected"

\* A node becomes a mainline candidate on an admitted submission of its own
\* only; for a self-improvement objective both formalizers agreed on it, unless
\* the lookup of the objective failed (tick.rs: single-formalizer certification
\* is denied).
PromotionIsEarned ==
  \A t \in Tasks : lane[t] = "mainline_candidate" =>
    \E s \in SubsOf(t) : /\ subs[s].effect = "admit"
                         /\ t \in SelfImproving => subs[s].agreed \/ spent.lookups > 0

\* What strands a submission in "processing" is a restart or a disagreement of
\* the formalizers, and nothing else: no time-out and no error of the formalizer.
OnlyTheseStrand ==
  \A s \in DOMAIN subs : subs[s].status = "processing" =>
    \/ runner.rows # {} /\ Row = s
    \/ subs[s].diverged
    \/ spent.crashes > 0

\* However a request is repeated, and whoever asks, a key and an attempt are
\* submitted once (the key is looked up in one statement and used in another).
SubmittedOnce ==
  \A s, o \in DOMAIN subs : subs[s].key = subs[o].key => s = o

\* "Silent staleness is forbidden" (stale.rs): a certificate that was taken back
\* has its invalidation record, but for a restart between the two.
StaleIsRecorded ==
  \A s \in DOMAIN subs : subs[s].ref = "stale" =>
    \/ subs[s].recorded
    \/ runner.at = "invalidate" /\ Row = s
    \/ spent.crashes > 0

\* Rows fit the schema, the places a verdict is written to agree, promotions are
\* earned, a request is submitted once, only restarts and disagreements strand a
\* submission, and what is taken back is recorded, whatever overlaps and fails.
CertInv ==
  /\ CertTypeOK
  /\ VerdictConsistent
  /\ PromotionIsEarned
  /\ OnlyTheseStrand
  /\ SubmittedOnce
  /\ StaleIsRecorded

\* A settled submission is never processed again and a certificate taken back
\* never becomes valid again: nothing is certified twice (retry_count is never
\* used), and the queue never overtakes its own results.
VerdictsAreFinal ==
  [][\A s \in DOMAIN subs :
       /\ subs[s].status \in Settled => subs'[s].status = subs[s].status
       /\ subs[s].ref \in {"stale", "rejected"} => subs'[s].ref = subs[s].ref]_certVars

Poisoned == Missed # {}
Stranded(s) == subs[s].status = "processing" /\ (runner.rows = {} \/ Row # s)

\* A pending submission is settled, unless certification is switched off, the
\* sweep stops every tick before it, or it is stranded (see OnlyTheseStrand).
PendingIsProcessed ==
  \A s \in 1 .. MaxSubs :
    (s \in DOMAIN subs /\ subs[s].status = "pending")
      ~> \/ ~policy.enabled \/ Poisoned
         \/ s \in DOMAIN subs /\ (subs[s].status \in Settled \/ Stranded(s))

\* A certificate that rests on something that changed is taken back, unless a
\* younger drift event of its node hides it or the sweep stops every tick.
DriftIsFound ==
  \A s \in 1 .. MaxSubs :
    (s \in DOMAIN subs /\ Drifted(s))
      ~> \/ Poisoned
         \/ s \in DOMAIN subs /\ (subs[s].ref = "stale" \/ subs[s].masked)

\* stale.rs: "when any upstream change occurs that could affect a previously
\* certified output, the certification must be explicitly invalidated".
StalenessIsNeverSilent ==
  \A s \in 1 .. MaxSubs :
    (s \in DOMAIN subs /\ subs[s].ref = "valid" /\ subs[s].changed)
      ~> Poisoned \/ (s \in DOMAIN subs /\ subs[s].ref = "stale")

\* tick.rs: "a sweep for any succeeded tasks that worker-dispatch may have missed".
SweepFindsMissed == \A t \in Critical : done[t] > 0 ~> HasCandidate(t)
=============================================================================
