----------------------------- MODULE WorkerProofs -----------------------------
(***************************************************************************)
(* Proofs about how a worker gets a task done: the invocation of its agent  *)
(* (Invocation) and the workspace the agent works in (Worktrees).           *)
(*                                                                          *)
(* Both give something up without ending it: an agent whose time is over,   *)
(* a slot whose task is attempted again.  The inductive invariants say who  *)
(* may still hold what was given up, and what the next attempt then finds.  *)
(***************************************************************************)
EXTENDS Invocation, Worktrees, FiniteSetTheorems, SequenceTheorems, TLAPS

-----------------------------------------------------------------------------
(* The invocation of an agent *)

Adapters == ToSet(Detected)

Record ==
  [adapter : Adapters, tries : 0..3,
   answer : {"none", "Succeeded", "Failed", "TimedOut", "EmptyOutput", "RetryableError"},
   text : BOOLEAN, status : {"running", "succeeded", "failed_permanent", "failed_retryable"}]

InvTyped ==
  /\ registered \subseteq Adapters
  /\ stage \in {"ready", "prompting", "again", "calling", "answered", "awaiting", "recording",
                "deciding", "over", "abandoned"}
  /\ beating \in {"off", "waiting", "writing", "stopping"}
  /\ asked \in Seq(Record) /\ beats \in Seq(Nat) /\ Len(beats) = Now
  /\ budget \in Nat /\ alive \subseteq Nat \X Nat

\* The stage tells how far the last attempt is.
StageTells ==
  /\ stage \in {"prompting", "again", "calling", "answered", "awaiting", "recording"} =>
       Now > 0 /\ Current.status = "running"
  /\ stage = "prompting" => Current.tries = 0
  /\ stage = "again" => Current.tries <= 2
  /\ stage = "calling" => Current.tries >= 1
  /\ stage \in {"prompting", "again", "calling"} => Current.answer = "none"
  /\ stage = "deciding" => Now > 0
  /\ stage \in {"ready", "deciding"} /\ Now > 0 => Current.status = "failed_retryable"

\* An attempt is followed by another only when it may be retried, and its status
\* is what its answer says.
RecordsTell ==
  \A i \in 1..Now :
    /\ i < Now => asked[i].status = "failed_retryable"
    /\ asked[i].status = "failed_retryable" => asked[i].answer \in {"TimedOut", "RetryableError"}
    /\ asked[i].answer = "RetryableError" => asked[i].tries = 1
    /\ asked[i].status = "succeeded" => asked[i].answer = "Succeeded"
    /\ asked[i].answer = "Succeeded" /\ asked[i].adapter \notin {"codex-cli", "claude-cli"} =>
         asked[i].text

AgentsKnown ==
  \A p \in alive : p[1] \in 1..Now /\ p[2] \in 1..asked[p[1]].tries

BudgetLeft ==
  \E b \in Budgets : budget + Now = IF stage = "ready" THEN b ELSE b + 1

\* The heartbeat runs between the prompt and the recording.
BeatsEnd == beating # "off" => stage \in {"again", "calling", "answered", "awaiting"}

InvIInv ==
  /\ InvTyped /\ StageTells /\ RecordsTell
  /\ AgentsKnown /\ AgentsOfAnAttempt /\ BudgetLeft /\ BeatsEnd

LEMMA AdapterNames ==
  Adapters = {"mock", "codex-cli", "claude-cli", "anthropic-api", "openai-api", "custom-cli",
              "local-custom"}
<1>1. DOMAIN Detected = 1..7 /\ Len(Detected) = 7
  BY DEF Detected
<1>2. Adapters = {Detected[i] : i \in 1..7}
  BY <1>1 DEF Adapters, ToSet
<1>3. /\ Detected[1] = "mock" /\ Detected[2] = "codex-cli" /\ Detected[3] = "claude-cli"
      /\ Detected[4] = "anthropic-api" /\ Detected[5] = "openai-api"
      /\ Detected[6] = "custom-cli" /\ Detected[7] = "local-custom"
  BY DEF Detected
<1> QED BY <1>2, <1>3

LEMMA FirstIsAdapter ==
  ASSUME registered \subseteq Adapters, registered # {}
  PROVE  FirstChoice \in Adapters
<1>1. CASE prefers \in registered
  BY <1>1 DEF FirstChoice
<1>2. CASE prefers \notin registered
  <2> PICK S : S = {i \in DOMAIN Detected : Detected[i] \in registered}
    OBVIOUS
  <2>1. DOMAIN Detected = 1..7
    BY DEF Detected
  <2>2. S \subseteq 1..7 /\ S # {}
    BY <2>1 DEF Adapters, ToSet
  <2>3. \E i \in S : \A j \in S : i <= j
    BY <2>2
  <2>4. Min(S) \in S
    BY <2>3 DEF Min
  <2>5. Detected[Min(S)] \in Adapters
    BY <2>1, <2>2, <2>4 DEF Adapters, ToSet
  <2> QED BY <1>2, <2>5 DEF FirstChoice
<1> QED BY <1>1, <1>2

\* What the adapters make of what a run returns.
LEMMA Verdicts ==
  ASSUME NEW a \in Adapters, NEW r \in Returns(a), NEW n \in 1..3
  PROVE  /\ Verdict(a, r, n) \in {"again", "Succeeded", "Failed", "TimedOut", "EmptyOutput",
                                  "RetryableError"}
         /\ Text(a, r) \in BOOLEAN
         /\ Verdict(a, r, n) = "again" => n < 3
         /\ Verdict(a, r, n) = "RetryableError" => n = 1
         /\ r = "time" => Verdict(a, r, n) = "TimedOut"
         /\ Verdict(a, r, n) = "Succeeded" /\ a \notin {"codex-cli", "claude-cli"} => Text(a, r)
<1> USE DEF Verdict, Text, Returns, Kept, Blank
<1>1. CASE a = "mock"
  BY <1>1 DEF MockRun
<1>2. CASE a = "codex-cli"
  BY <1>2 DEF CodexRun, Codex, CodexText
<1>3. CASE a = "claude-cli"
  BY <1>3 DEF ClaudeRun, CodexRun, Claude, Codex, ClaudeText
<1>4. CASE a = "custom-cli"
  BY <1>4 DEF CustomRun, CodexRun, Custom, Codex
<1>5. CASE a = "anthropic-api"
  BY <1>5 DEF AnthropicCall, Anthropic, AnthropicText
<1>6. CASE a = "openai-api"
  BY <1>6 DEF OpenAiCall, AnthropicCall, OpenAi, OpenAiText, Anthropic, AnthropicText
<1>7. CASE a = "local-custom"
  BY <1>7 DEF LocalCall, AnthropicCall, Local, LocalText, Anthropic, AnthropicText
<1> QED BY <1>1, <1>2, <1>3, <1>4, <1>5, <1>6, <1>7, AdapterNames

LEMMA CurrentChanged ==
  ASSUME InvTyped, Now > 0, NEW new \in Record, asked' = [asked EXCEPT ![Now] = new]
  PROVE  /\ asked' \in Seq(Record) /\ Len(asked') = Len(asked) /\ asked'[Now] = new
         /\ \A i \in 1..Now : i # Now => asked'[i] = asked[i]
         /\ Now \in Nat /\ Now \in 1..Now
         /\ \A i \in 1..Now : asked[i] \in Record
<1>1. Now \in Nat /\ Now \in 1..Now
  BY LenProperties DEF InvTyped, Now
<1>2. asked \in Seq(Record) /\ Now \in 1..Len(asked)
  BY <1>1 DEF InvTyped, Now
<1>3. /\ [asked EXCEPT ![Now] = new] \in Seq(Record)
      /\ Len([asked EXCEPT ![Now] = new]) = Len(asked)
      /\ \A j \in 1..Len(asked) :
           [asked EXCEPT ![Now] = new][j] = IF j = Now THEN new ELSE asked[j]
  BY <1>2, ExceptSeq
<1>4. \A i \in 1..Now : asked[i] \in Record
  BY <1>2, ElementOfSeq DEF Now
<1> QED BY <1>1, <1>2, <1>3, <1>4 DEF Now

\* The records tell, when the last one does.
LEMMA LastTells ==
  ASSUME RecordsTell, Now \in Nat, NEW new,
         Now' = Now, asked'[Now] = new, \A i \in 1..Now : i # Now => asked'[i] = asked[i],
         new.status = "failed_retryable" => new.answer \in {"TimedOut", "RetryableError"},
         new.answer = "RetryableError" => new.tries = 1,
         new.status = "succeeded" => new.answer = "Succeeded",
         new.answer = "Succeeded" /\ new.adapter \notin {"codex-cli", "claude-cli"} => new.text
  PROVE  RecordsTell'
<1> SUFFICES ASSUME NEW i \in 1..Now
             PROVE  /\ i < Now => asked'[i].status = "failed_retryable"
                    /\ asked'[i].status = "failed_retryable" =>
                         asked'[i].answer \in {"TimedOut", "RetryableError"}
                    /\ asked'[i].answer = "RetryableError" => asked'[i].tries = 1
                    /\ asked'[i].status = "succeeded" => asked'[i].answer = "Succeeded"
                    /\ asked'[i].answer = "Succeeded"
                         /\ asked'[i].adapter \notin {"codex-cli", "claude-cli"} =>
                         asked'[i].text
  BY DEF RecordsTell
<1>1. CASE i = Now
  <2>1. asked'[i] = new
    BY <1>1
  <2>2. ~(i < Now)
    BY <1>1
  <2>3. /\ asked'[i].status = "failed_retryable" =>
             asked'[i].answer \in {"TimedOut", "RetryableError"}
        /\ asked'[i].answer = "RetryableError" => asked'[i].tries = 1
        /\ asked'[i].status = "succeeded" => asked'[i].answer = "Succeeded"
    BY <2>1
  <2>4. asked'[i].answer = "Succeeded" /\ asked'[i].adapter \notin {"codex-cli", "claude-cli"} =>
          asked'[i].text
    BY <2>1
  <2> QED BY <2>2, <2>3, <2>4
<1>2. CASE i # Now
  <2>1. asked'[i] = asked[i]
    BY <1>2
  <2> QED BY <2>1 DEF RecordsTell
<1> QED BY <1>1, <1>2

LEMMA InvInitIInv == InvInit => InvIInv
<1> SUFFICES ASSUME InvInit PROVE InvIInv
  OBVIOUS
<1>1. /\ registered \subseteq Adapters /\ stage = "ready" /\ asked = <<>> /\ beats = <<>>
      /\ alive = {} /\ beating = "off" /\ budget \in Budgets
  BY DEF InvInit, AutoDetect, Adapters
<1>2. /\ asked \in Seq(Record) /\ beats \in Seq(Nat) /\ Now = 0 /\ Len(beats) = 0 /\ budget \in Nat
  BY <1>1, EmptySeq, InvAssumption DEF Now
<1>3. InvTyped /\ AgentsKnown /\ AgentsOfAnAttempt /\ BeatsEnd
  BY <1>1, <1>2 DEF InvTyped, AgentsKnown, AgentsOfAnAttempt, BeatsEnd
<1>4. StageTells /\ RecordsTell
  BY <1>1, <1>2 DEF StageTells, RecordsTell
<1>5. BudgetLeft
  BY <1>1, <1>2 DEF BudgetLeft
<1> QED BY <1>3, <1>4, <1>5 DEF InvIInv

\* What the invariant says of every attempt there is.
LEMMA RecordTyped ==
  ASSUME InvTyped
  PROVE  /\ Now \in Nat /\ Len(asked) = Now
         /\ \A i \in 1..Now : asked[i] \in Record
         /\ \A i \in 1..Now : asked[i].tries \in Nat
<1>1. Now \in Nat /\ Len(asked) = Now
  BY LenProperties DEF InvTyped, Now
<1>2. \A i \in 1..Now : asked[i] \in Record
  BY <1>1, ElementOfSeq DEF InvTyped
<1>3. \A i \in 1..Now : asked[i].tries \in Nat
  BY <1>2 DEF Record
<1> QED BY <1>1, <1>2, <1>3

LEMMA AskKeeps == InvIInv /\ Ask => InvIInv'
<1> SUFFICES ASSUME InvIInv, Ask PROVE InvIInv'
  OBVIOUS
<1> USE DEF InvIInv
<1> PICK new : new = [adapter |-> FirstChoice, tries |-> 0, answer |-> "none",
                      text |-> FALSE, status |-> "running"]
  OBVIOUS
<1>1. FirstChoice \in Adapters
  BY FirstIsAdapter DEF Ask, InvTyped
<1>2. new \in Record /\ new.tries = 0 /\ new.answer = "none" /\ new.status = "running"
  BY <1>1 DEF Record
<1>3. asked' = Append(asked, new) /\ asked \in Seq(Record)
  BY DEF Ask, InvTyped
<1>4. Now \in Nat /\ Len(asked) = Now /\ \A i \in 1..Now : asked[i] \in Record
  BY RecordTyped
<1>5. /\ asked' \in Seq(Record) /\ Now' = Now + 1 /\ Current' = new
      /\ \A i \in 1..Now : asked'[i] = asked[i]
  BY <1>2, <1>3, <1>4, AppendProperties DEF Now, Current
<1>6. /\ stage = "ready" /\ stage' = "prompting" /\ beats' = Append(beats, 0)
      /\ UNCHANGED <<registered, prefers, budget, alive, beating>>
  BY DEF Ask
<1>7. beats' \in Seq(Nat) /\ Len(beats') = Now'
  <2>1. beats \in Seq(Nat) /\ Len(beats) = Now
    BY DEF InvTyped
  <2> QED BY <2>1, <1>5, <1>6, AppendProperties
<1>8. InvTyped'
  BY <1>5, <1>6, <1>7 DEF InvTyped
<1>9. StageTells'
  BY <1>2, <1>4, <1>5, <1>6 DEF StageTells
<1>10. RecordsTell'
  <2> SUFFICES ASSUME NEW i \in 1..Now + 1
               PROVE  /\ i < Now + 1 => asked'[i].status = "failed_retryable"
                      /\ asked'[i].status = "failed_retryable" =>
                           asked'[i].answer \in {"TimedOut", "RetryableError"}
                      /\ asked'[i].answer = "RetryableError" => asked'[i].tries = 1
                      /\ asked'[i].status = "succeeded" => asked'[i].answer = "Succeeded"
                      /\ asked'[i].answer = "Succeeded"
                           /\ asked'[i].adapter \notin {"codex-cli", "claude-cli"} =>
                           asked'[i].text
    BY <1>5 DEF RecordsTell
  <2>1. CASE i \in 1..Now
    <3>1. i = Now => asked[i].status = "failed_retryable"
      BY <1>4, <1>6, <2>1 DEF StageTells, Current
    <3> QED BY <1>4, <1>5, <2>1, <3>1 DEF RecordsTell
  <2>2. CASE i = Now + 1
    BY <1>2, <1>4, <1>5, <2>2 DEF Current
  <2> QED BY <1>4, <2>1, <2>2
<1>11. \A p \in alive : p[1] \in 1..Now /\ asked'[p[1]] = asked[p[1]]
  BY <1>5 DEF AgentsKnown
<1>12. AgentsKnown'
  BY <1>4, <1>5, <1>6, <1>11 DEF AgentsKnown
<1>13. AgentsOfAnAttempt'
  BY <1>6, <1>11 DEF AgentsOfAnAttempt
<1>14. BudgetLeft'
  <2> PICK b \in Budgets : budget + Now = b
    BY <1>6 DEF BudgetLeft
  <2>1. budget' + Now' = b + 1
    BY <1>4, <1>5, <1>6 DEF InvTyped
  <2> QED BY <1>6, <2>1 DEF BudgetLeft
<1>15. BeatsEnd'
  BY <1>6 DEF BeatsEnd
<1> QED BY <1>8, <1>9, <1>10, <1>12, <1>13, <1>14, <1>15

\* A step that leaves the attempts and their agents as they are.
LEMMA StageKeeps ==
  ASSUME InvIInv, UNCHANGED <<asked, alive>>,
         registered' \subseteq Adapters, StageTells', BudgetLeft', BeatsEnd',
         stage' \in {"ready", "prompting", "again", "calling", "answered", "awaiting",
                     "recording", "deciding", "over", "abandoned"},
         beating' \in {"off", "waiting", "writing", "stopping"},
         beats' \in Seq(Nat), Len(beats') = Now, budget' \in Nat,
         stage = "calling" => stage' \in {"calling", "abandoned"},
         stage = "abandoned" => stage' = "abandoned"
  PROVE  InvIInv'
<1> USE DEF InvIInv
<1>1. Now' = Now /\ Current' = Current /\ Running' = Running
  BY DEF Now, Current, Running
<1>2. InvTyped'
  BY <1>1 DEF InvTyped
<1>3. RecordsTell' /\ AgentsKnown'
  BY <1>1 DEF RecordsTell, AgentsKnown
<1>4. AgentsOfAnAttempt'
  BY <1>1 DEF AgentsOfAnAttempt
<1> QED BY <1>2, <1>3, <1>4

LEMMA PromptKeeps == InvIInv /\ Prompt => InvIInv'
<1> SUFFICES ASSUME InvIInv, Prompt PROVE InvIInv'
  OBVIOUS
<1>1. /\ stage = "prompting" /\ stage' \in {"again", "abandoned"}
      /\ stage' = "again" => beating' = "waiting"
      /\ stage' = "abandoned" => beating' = beating
      /\ UNCHANGED <<registered, prefers, budget, asked, alive, beats>>
  BY DEF Prompt, Abandoned
<1>2. Now' = Now /\ Current' = Current
  BY <1>1 DEF Now, Current
<1>3. StageTells'
  BY <1>1, <1>2 DEF InvIInv, StageTells
<1>4. BudgetLeft'
  BY <1>1, <1>2 DEF InvIInv, BudgetLeft
<1>5. BeatsEnd'
  BY <1>1 DEF InvIInv, BeatsEnd
<1>6. InvTyped /\ beating' \in {"off", "waiting", "writing", "stopping"}
  BY <1>1 DEF InvIInv, InvTyped
<1>7. /\ registered' \subseteq Adapters /\ beats' \in Seq(Nat) /\ Len(beats') = Now
      /\ budget' \in Nat
  BY <1>1, <1>6 DEF InvTyped
<1> QED BY <1>1, <1>3, <1>4, <1>5, <1>6, <1>7, StageKeeps

LEMMA CallKeeps == InvIInv /\ Call => InvIInv'
<1> SUFFICES ASSUME InvIInv, Call PROVE InvIInv'
  OBVIOUS
<1> USE DEF InvIInv
<1> PICK old : old = Current
  OBVIOUS
<1> PICK new : new = [old EXCEPT !.tries = @ + 1]
  OBVIOUS
<1>1. /\ Now > 0 /\ old.status = "running" /\ old.tries <= 2 /\ old.answer = "none"
      /\ stage = "again" /\ stage' = "calling"
      /\ UNCHANGED <<registered, prefers, budget, beating, beats>>
  BY DEF Call, StageTells
<1>2. Now \in Nat /\ Now \in 1..Now /\ \A i \in 1..Now : asked[i] \in Record
  BY <1>1, RecordTyped
<1>3. old \in Record /\ old = asked[Now]
  BY <1>2 DEF Current
<1>4. /\ new \in Record /\ new.tries = old.tries + 1 /\ old.tries \in 0..2
      /\ new.answer = "none" /\ new.status = "running"
  BY <1>1, <1>3 DEF Record
<1>5. asked' = [asked EXCEPT ![Now] = new]
  BY <1>3 DEF Call
<1>6. /\ asked' \in Seq(Record) /\ Now' = Now /\ asked'[Now] = new
      /\ \A i \in 1..Now : i # Now => asked'[i] = asked[i]
  BY <1>1, <1>4, <1>5, CurrentChanged DEF Now
<1>7. Current' = new /\ Running' = <<Now, old.tries + 1>>
  BY <1>4, <1>6 DEF Current, Running
<1>8. alive' \subseteq alive \cup {<<Now, old.tries + 1>>}
  BY DEF Call
<1>9. \A p \in alive : p[1] \in 1..Now /\ p[1] # Now
  <2> SUFFICES ASSUME NEW p \in alive PROVE p[1] \in 1..Now /\ p[1] # Now
    OBVIOUS
  <2>1. p[1] \in 1..Now
    BY DEF AgentsKnown
  <2>2. asked[p[1]].answer = "TimedOut"
    BY <1>1 DEF AgentsOfAnAttempt
  <2> QED BY <1>1, <1>3, <2>1, <2>2
<1>10. \A p \in alive' : p \in Nat \X Nat
  <2>1. <<Now, old.tries + 1>> \in Nat \X Nat
    BY <1>2, <1>4
  <2> QED BY <1>8, <2>1 DEF InvTyped
<1>11. InvTyped'
  BY <1>1, <1>6, <1>10 DEF InvTyped
<1>12. StageTells'
  BY <1>1, <1>4, <1>6, <1>7 DEF StageTells
<1>13. RecordsTell'
  BY <1>2, <1>4, <1>6, LastTells
<1>14. AgentsKnown'
  <2> SUFFICES ASSUME NEW p \in alive' PROVE p[1] \in 1..Now /\ p[2] \in 1..asked'[p[1]].tries
    BY <1>6 DEF AgentsKnown
  <2>1. CASE p \in alive
    BY <1>6, <1>9, <2>1 DEF AgentsKnown
  <2>2. CASE p = <<Now, old.tries + 1>>
    <3>1. p[1] = Now /\ p[2] = old.tries + 1
      BY <2>2
    <3>2. asked'[p[1]].tries = old.tries + 1
      BY <1>4, <1>6, <3>1, Zenon
    <3>3. old.tries + 1 \in 1..old.tries + 1
      BY <1>4
    <3> QED BY <1>2, <3>1, <3>2, <3>3, Zenon
  <2> QED BY <1>8, <2>1, <2>2
<1>15. AgentsOfAnAttempt'
  <2> SUFFICES ASSUME NEW p \in alive'
               PROVE  /\ \A q \in alive' : p[1] = q[1] => p = q
                      /\ asked'[p[1]].answer = "TimedOut" \/ p = Running'
    BY <1>1 DEF AgentsOfAnAttempt
  <2>1. p \in alive \/ p = <<Now, old.tries + 1>>
    BY <1>8
  <2>2. ASSUME NEW q \in alive', p[1] = q[1] PROVE p = q
    <3>1. q \in alive \/ q = <<Now, old.tries + 1>>
      BY <1>8
    <3> QED BY <1>9, <2>1, <2>2, <3>1 DEF AgentsOfAnAttempt
  <2>3. asked'[p[1]].answer = "TimedOut" \/ p = Running'
    <3>1. CASE p \in alive
      BY <1>1, <1>6, <1>9, <3>1 DEF AgentsOfAnAttempt
    <3>2. CASE p = <<Now, old.tries + 1>>
      BY <1>7, <3>2
    <3> QED BY <2>1, <3>1, <3>2
  <2> QED BY <2>2, <2>3
<1>16. BudgetLeft'
  BY <1>1, <1>6 DEF BudgetLeft
<1>17. BeatsEnd'
  BY <1>1 DEF BeatsEnd
<1> QED BY <1>11, <1>12, <1>13, <1>14, <1>15, <1>16, <1>17

\* An answer is given: of the attempt's agents, only one that was given up goes on.
LEMMA AnswerKeeps ==
  ASSUME InvIInv, stage \in {"again", "calling"},
         NEW said \in {"Succeeded", "Failed", "TimedOut", "EmptyOutput", "RetryableError"},
         NEW text \in BOOLEAN, AnswersWith(said, text),
         said = "RetryableError" => Current.tries = 1,
         said = "Succeeded" /\ Current.adapter \notin {"codex-cli", "claude-cli"} => text,
         alive' \subseteq alive, said = "TimedOut" \/ Running \notin alive',
         UNCHANGED <<registered, prefers, budget, beating, beats>>
  PROVE  InvIInv'
<1> USE DEF InvIInv
<1> PICK old : old = Current
  OBVIOUS
<1> PICK mid : mid = [old EXCEPT !.answer = said]
  OBVIOUS
<1> PICK new : new = [mid EXCEPT !.text = text]
  OBVIOUS
<1>1. Now > 0 /\ old.status = "running" /\ old.answer = "none"
  BY DEF StageTells
<1>2. Now \in Nat /\ Now \in 1..Now /\ \A i \in 1..Now : asked[i] \in Record
  BY <1>1, RecordTyped
<1>3. old \in Record /\ old = asked[Now]
  BY <1>2 DEF Current
<1>4. /\ mid \in Record /\ mid.answer = said /\ mid.status = "running"
      /\ mid.adapter = old.adapter /\ mid.tries = old.tries
  BY <1>1, <1>3 DEF Record
<1>5. /\ new \in Record /\ new.answer = said /\ new.status = "running" /\ new.text = text
      /\ new.adapter = old.adapter /\ new.tries = old.tries
  BY <1>4 DEF Record
<1>6. asked' = [asked EXCEPT ![Now] = new] /\ stage' = "answered"
  <2>1. stage' = "answered" /\ asked' = [asked EXCEPT ![Now].answer = said, ![Now].text = text]
    BY DEF AnswersWith
  <2>2. DOMAIN asked = 1..Now
    BY <1>2, LenProperties DEF InvTyped, Now
  <2> QED BY <1>2, <1>3, <2>1, <2>2
<1>7. /\ asked' \in Seq(Record) /\ Now' = Now /\ asked'[Now] = new
      /\ \A i \in 1..Now : i # Now => asked'[i] = asked[i]
  BY <1>1, <1>5, <1>6, CurrentChanged DEF Now
<1>8. Current' = new
  BY <1>7 DEF Current
<1>9. InvTyped'
  BY <1>6, <1>7 DEF InvTyped
<1>10. StageTells'
  BY <1>1, <1>5, <1>6, <1>7, <1>8 DEF StageTells
<1>11. RecordsTell'
  <2>1. new.answer = "RetryableError" => new.tries = 1
    BY <1>5
  <2>2. new.answer = "Succeeded" /\ new.adapter \notin {"codex-cli", "claude-cli"} => new.text
    BY <1>5
  <2> QED BY <1>2, <1>5, <1>7, <2>1, <2>2, LastTells
<1>12. AgentsKnown'
  BY <1>3, <1>5, <1>7 DEF AgentsKnown
<1>13. AgentsOfAnAttempt'
  <2> SUFFICES ASSUME NEW p \in alive'
               PROVE  /\ \A q \in alive' : p[1] = q[1] => p = q
                      /\ asked'[p[1]].answer = "TimedOut"
    BY <1>6 DEF AgentsOfAnAttempt
  <2>1. \A q \in alive' : p[1] = q[1] => p = q
    BY DEF AgentsOfAnAttempt
  <2>2. p[1] \in 1..Now /\ (asked[p[1]].answer = "TimedOut" \/ p = Running)
    BY DEF AgentsKnown, AgentsOfAnAttempt
  <2>3. asked'[p[1]].answer = "TimedOut"
    <3>1. CASE p[1] = Now
      <4>1. p = Running
        BY <1>1, <1>3, <2>2, <3>1
      <4> QED BY <1>5, <1>7, <3>1, <4>1
    <3>2. CASE p[1] # Now
      <4>1. p # Running
        BY <3>2 DEF Running
      <4> QED BY <1>7, <2>2, <3>2, <4>1
    <3> QED BY <3>1, <3>2
  <2> QED BY <2>1, <2>3
<1>14. BudgetLeft'
  BY <1>6, <1>7 DEF BudgetLeft
<1>15. BeatsEnd'
  BY <1>6 DEF BeatsEnd
<1> QED BY <1>9, <1>10, <1>11, <1>12, <1>13, <1>14, <1>15

LEMMA ReturnKeeps ==
  ASSUME InvIInv, NEW r, Return(r)
  PROVE  InvIInv'
<1> USE DEF InvIInv
<1> PICK old : old = Current
  OBVIOUS
<1> PICK said : said = Verdict(old.adapter, r, old.tries)
  OBVIOUS
<1>1. /\ stage = "calling" /\ r \in Returns(old.adapter)
      /\ alive' = IF r = "time" THEN alive ELSE alive \ {Running}
      /\ UNCHANGED <<registered, prefers, budget, beating, beats>>
  BY DEF Return
<1>2. IF said = "again" THEN stage' = "again" /\ UNCHANGED asked
      ELSE AnswersWith(said, said = "Succeeded" /\ Text(old.adapter, r))
  BY DEF Return
<1>3. Now > 0 /\ old.status = "running" /\ old.answer = "none" /\ old.tries >= 1
  BY <1>1 DEF StageTells
<1>4. Now \in Nat /\ Now \in 1..Now /\ \A i \in 1..Now : asked[i] \in Record
  BY <1>3, RecordTyped
<1>5. old \in Record /\ old = asked[Now]
  BY <1>4 DEF Current
<1>6. old.adapter \in Adapters /\ old.tries \in 1..3
  BY <1>3, <1>5 DEF Record
<1>7. /\ said \in {"again", "Succeeded", "Failed", "TimedOut", "EmptyOutput", "RetryableError"}
      /\ Text(old.adapter, r) \in BOOLEAN
      /\ said = "again" => old.tries < 3
      /\ said = "RetryableError" => old.tries = 1
      /\ r = "time" => said = "TimedOut"
      /\ said = "Succeeded" /\ old.adapter \notin {"codex-cli", "claude-cli"} =>
           Text(old.adapter, r)
  BY <1>1, <1>6, Verdicts
<1>8. alive' \subseteq alive /\ (said = "TimedOut" \/ Running \notin alive')
  BY <1>1, <1>7
<1>9. CASE said = "again"
  <2>1. stage' = "again" /\ asked' = asked /\ Now' = Now /\ Current' = Current
    BY <1>2, <1>9 DEF Now, Current
  <2>2. InvTyped'
    BY <1>1, <1>8, <2>1 DEF InvTyped
  <2>3. StageTells'
    <3>1. old.tries <= 2
      BY <1>6, <1>7, <1>9
    <3> QED BY <1>3, <2>1, <3>1 DEF StageTells
  <2>4. RecordsTell'
    BY <2>1 DEF RecordsTell
  <2>5. AgentsKnown'
    BY <1>8, <2>1 DEF AgentsKnown
  <2>6. AgentsOfAnAttempt'
    BY <1>7, <1>8, <1>9, <2>1 DEF AgentsOfAnAttempt
  <2>7. BudgetLeft' /\ BeatsEnd'
    BY <1>1, <2>1 DEF BudgetLeft, BeatsEnd
  <2> QED BY <2>2, <2>3, <2>4, <2>5, <2>6, <2>7
<1>10. CASE said # "again"
  <2> PICK text : text = (said = "Succeeded" /\ Text(old.adapter, r))
    OBVIOUS
  <2>1. text \in BOOLEAN
    BY Zenon
  <2>2. AnswersWith(said, text)
    BY <1>2, <1>10, Zenon
  <2>3. said = "Succeeded" /\ old.adapter \notin {"codex-cli", "claude-cli"} => text
    BY <1>7, Zenon
  <2>4. said \in {"Succeeded", "Failed", "TimedOut", "EmptyOutput", "RetryableError"}
    BY <1>7, <1>10
  <2> QED BY <1>1, <1>7, <1>8, <2>1, <2>2, <2>3, <2>4, AnswerKeeps
<1> QED BY <1>9, <1>10

LEMMA TimeOutsKeep == InvIInv /\ (NoTimeLeft \/ ServerTimeout) => InvIInv'
<1> SUFFICES ASSUME InvIInv, NoTimeLeft \/ ServerTimeout PROVE InvIInv'
  OBVIOUS
<1>1. /\ stage \in {"again", "calling"} /\ AnswersWith("TimedOut", FALSE) /\ alive' \subseteq alive
      /\ UNCHANGED <<registered, prefers, budget, beating, beats>>
  BY DEF NoTimeLeft, ServerTimeout
<1> QED BY <1>1, AnswerKeeps

LEMMA BeatKeeps == InvIInv /\ (Beat \/ WriteBeat) => InvIInv'
<1> SUFFICES ASSUME InvIInv, Beat \/ WriteBeat PROVE InvIInv'
  OBVIOUS
<1>1. UNCHANGED <<registered, prefers, budget, stage, asked, alive>> /\ beating # "off"
  BY DEF Beat, WriteBeat
<1>2. InvTyped /\ stage \in {"again", "calling", "answered", "awaiting"}
  BY <1>1 DEF InvIInv, BeatsEnd
<1>3. Now > 0 /\ Now \in Nat /\ Now \in 1..Now /\ Len(beats) = Now /\ beats \in Seq(Nat)
  BY <1>2, RecordTyped DEF InvIInv, InvTyped, StageTells
<1>4. beats' \in Seq(Nat) /\ Len(beats') = Now
  <2>1. beats[Now] \in Nat
    BY <1>3, ElementOfSeq
  <2>2. beats' = beats \/ beats' = [beats EXCEPT ![Now] = beats[Now] + 1]
    BY <1>3 DEF Beat, WriteBeat
  <2>3. [beats EXCEPT ![Now] = beats[Now] + 1] \in Seq(Nat)
           /\ Len([beats EXCEPT ![Now] = beats[Now] + 1]) = Len(beats)
    BY <1>3, <2>1, ExceptSeq
  <2> QED BY <1>3, <2>2, <2>3
<1>5. beating' \in {"off", "waiting", "writing", "stopping"}
  BY DEF Beat, WriteBeat
<1>6. Now' = Now /\ Current' = Current
  BY <1>1 DEF Now, Current
<1>7. StageTells' /\ BudgetLeft'
  BY <1>1, <1>6 DEF InvIInv, StageTells, BudgetLeft
<1>8. BeatsEnd'
  BY <1>1, <1>2 DEF BeatsEnd
<1>9. /\ registered' \subseteq Adapters /\ budget' \in Nat
      /\ stage' \in {"ready", "prompting", "again", "calling", "answered", "awaiting",
                     "recording", "deciding", "over", "abandoned"}
  BY <1>1, <1>2 DEF InvTyped
<1> QED BY <1>1, <1>4, <1>5, <1>7, <1>8, <1>9, StageKeeps

LEMMA StopKeeps == InvIInv /\ (StopBeats \/ AwaitBeats) => InvIInv'
<1> SUFFICES ASSUME InvIInv, StopBeats \/ AwaitBeats PROVE InvIInv'
  OBVIOUS
<1>1. /\ \/ stage = "answered" /\ stage' = "awaiting"
         \/ stage = "awaiting" /\ stage' = "recording"
      /\ stage' = "recording" => beating' = "off"
      /\ beating' \in {"off", "waiting", "writing", "stopping"}
      /\ UNCHANGED <<registered, prefers, budget, asked, alive, beats>>
  BY DEF StopBeats, AwaitBeats, InvIInv, InvTyped
<1>2. Now' = Now /\ Current' = Current
  BY <1>1 DEF Now, Current
<1>3. StageTells' /\ BudgetLeft'
  BY <1>1, <1>2 DEF InvIInv, StageTells, BudgetLeft
<1>4. BeatsEnd'
  BY <1>1 DEF BeatsEnd
<1>5. registered' \subseteq Adapters /\ budget' \in Nat /\ beats' \in Seq(Nat) /\ Len(beats') = Now
  BY <1>1 DEF InvIInv, InvTyped
<1> QED BY <1>1, <1>3, <1>4, <1>5, StageKeeps

LEMMA RecordAnswerKeeps == InvIInv /\ RecordAnswer => InvIInv'
<1> SUFFICES ASSUME InvIInv, RecordAnswer PROVE InvIInv'
  OBVIOUS
<1> USE DEF InvIInv
<1>1. stage = "recording" /\ beating = "off" /\ UNCHANGED <<registered, prefers, alive, beating, beats>>
  BY DEF RecordAnswer, BeatsEnd
<1>2. UNCHANGED budget
  BY DEF RecordAnswer, Abandoned
<1>3. CASE Abandoned
  <2>1. stage' = "abandoned" /\ UNCHANGED asked
    BY <1>3 DEF Abandoned
  <2>2. Now' = Now /\ Current' = Current
    BY <2>1 DEF Now, Current
  <2>3. StageTells' /\ BudgetLeft' /\ BeatsEnd'
    BY <1>1, <1>2, <2>1, <2>2 DEF StageTells, BudgetLeft, BeatsEnd
  <2>4. /\ registered' \subseteq Adapters /\ budget' \in Nat /\ beats' \in Seq(Nat)
        /\ Len(beats') = Now /\ beating' \in {"off", "waiting", "writing", "stopping"}
    BY <1>1, <1>2 DEF InvTyped
  <2> QED BY <1>1, <2>1, <2>3, <2>4, StageKeeps
<1>4. CASE ~Abandoned
  <2> PICK old : old = Current
    OBVIOUS
  <2> PICK st : st = Classified(old.answer)
    OBVIOUS
  <2> PICK new : new = [old EXCEPT !.status = st]
    OBVIOUS
  <2>1. Now > 0 /\ old.status = "running"
    BY <1>1 DEF StageTells
  <2>2. Now \in Nat /\ Now \in 1..Now /\ \A i \in 1..Now : asked[i] \in Record
    BY <2>1, RecordTyped
  <2>3. old \in Record /\ old = asked[Now]
    BY <2>2 DEF Current
  <2>4. /\ st \in {"succeeded", "failed_permanent", "failed_retryable"}
        /\ st = "succeeded" => old.answer = "Succeeded"
        /\ st = "failed_retryable" => old.answer \in {"TimedOut", "RetryableError"}
    BY DEF Classified
  <2>5. /\ new \in Record /\ new.status = st /\ new.answer = old.answer /\ new.text = old.text
        /\ new.tries = old.tries /\ new.adapter = old.adapter
    BY <2>3, <2>4 DEF Record
  <2>6. /\ asked' = [asked EXCEPT ![Now] = new]
        /\ stage' = IF st = "failed_retryable" THEN "deciding" ELSE "over"
    BY <1>4, <2>3 DEF RecordAnswer
  <2>7. /\ asked' \in Seq(Record) /\ Now' = Now /\ asked'[Now] = new
        /\ \A i \in 1..Now : i # Now => asked'[i] = asked[i]
    BY <2>1, <2>5, <2>6, CurrentChanged DEF Now
  <2>8. Current' = new
    BY <2>7 DEF Current
  <2>9. InvTyped'
    BY <1>1, <1>2, <2>6, <2>7 DEF InvTyped
  <2>10. StageTells'
    BY <2>1, <2>5, <2>6, <2>7, <2>8 DEF StageTells
  <2>11. RecordsTell'
    <3>1. /\ old.answer = "RetryableError" => old.tries = 1
          /\ old.answer = "Succeeded" /\ old.adapter \notin {"codex-cli", "claude-cli"} => old.text
      BY <2>2, <2>3 DEF RecordsTell
    <3> QED BY <2>2, <2>4, <2>5, <2>7, <3>1, LastTells
  <2>12. \A p \in alive : p[1] \in 1..Now /\ asked'[p[1]].answer = asked[p[1]].answer
                            /\ asked'[p[1]].tries = asked[p[1]].tries
    BY <2>3, <2>5, <2>7 DEF AgentsKnown
  <2>13. AgentsKnown'
    BY <1>1, <2>7, <2>12 DEF AgentsKnown
  <2>14. AgentsOfAnAttempt'
    BY <1>1, <2>12 DEF AgentsOfAnAttempt
  <2>15. BudgetLeft' /\ BeatsEnd'
    BY <1>1, <1>2, <2>6, <2>7 DEF BudgetLeft, BeatsEnd
  <2> QED BY <2>9, <2>10, <2>11, <2>13, <2>14, <2>15
<1> QED BY <1>3, <1>4

LEMMA DecideKeeps == InvIInv /\ Decide => InvIInv'
<1> SUFFICES ASSUME InvIInv, Decide PROVE InvIInv'
  OBVIOUS
<1>1. /\ stage = "deciding" /\ stage' \in {"ready", "over", "abandoned"}
      /\ UNCHANGED <<registered, prefers, asked, alive, beating, beats>>
      /\ stage' = "ready" => budget > 0 /\ budget' = budget - 1
      /\ stage' # "ready" => budget' = budget
  BY DEF Decide, Abandoned
<1>2. Now' = Now /\ Current' = Current
  BY <1>1 DEF Now, Current
<1>3. Now \in Nat /\ budget \in Nat
  BY RecordTyped DEF InvIInv, InvTyped
<1>4. budget' \in Nat
  BY <1>1, <1>3
<1>5. StageTells'
  BY <1>1, <1>2 DEF InvIInv, StageTells
<1>6. BudgetLeft'
  <2> PICK b \in Budgets : budget + Now = b + 1
    BY <1>1 DEF InvIInv, BudgetLeft
  <2>1. b \in Nat
    BY InvAssumption
  <2>2. stage' = "ready" => budget' + Now = b
    BY <1>1, <1>3, <2>1
  <2> QED BY <1>1, <1>2, <2>2 DEF BudgetLeft
<1>7. BeatsEnd'
  BY <1>1 DEF InvIInv, BeatsEnd
<1>8. /\ registered' \subseteq Adapters /\ beats' \in Seq(Nat) /\ Len(beats') = Now
      /\ beating' \in {"off", "waiting", "writing", "stopping"}
  BY <1>1 DEF InvIInv, InvTyped
<1> QED BY <1>1, <1>4, <1>5, <1>6, <1>7, <1>8, StageKeeps

LEMMA EndOfWorkerKeeps == InvIInv /\ EndOfWorker => InvIInv'
<1> SUFFICES ASSUME InvIInv, EndOfWorker PROVE InvIInv'
  OBVIOUS
<1>1. /\ stage' = IF stage = "ready" THEN stage ELSE "abandoned"
      /\ stage \notin {"over", "abandoned"} /\ beating' = "off"
      /\ UNCHANGED <<prefers, budget, asked, alive, beats>>
  BY DEF EndOfWorker
<1>2. registered' \subseteq Adapters
  BY DEF EndOfWorker, AutoDetect, Adapters
<1>3. Now' = Now /\ Current' = Current
  BY <1>1 DEF Now, Current
<1>4. StageTells' /\ BudgetLeft' /\ BeatsEnd'
  BY <1>1, <1>3 DEF InvIInv, StageTells, BudgetLeft, BeatsEnd
<1>5. budget' \in Nat /\ beats' \in Seq(Nat) /\ Len(beats') = Now
  BY <1>1 DEF InvIInv, InvTyped
<1> QED BY <1>1, <1>2, <1>4, <1>5, StageKeeps

LEMMA ExitKeeps ==
  ASSUME InvIInv, NEW p \in alive, Exit(p)
  PROVE  InvIInv'
<1> USE DEF InvIInv
<1>1. alive' \subseteq alive /\ UNCHANGED <<registered, prefers, budget, stage, asked, beating, beats>>
  BY DEF Exit
<1>2. Now' = Now /\ Current' = Current /\ Running' = Running
  BY <1>1 DEF Now, Current, Running
<1>3. InvTyped' /\ AgentsKnown' /\ AgentsOfAnAttempt'
  BY <1>1, <1>2 DEF InvTyped, AgentsKnown, AgentsOfAnAttempt
<1>4. StageTells' /\ RecordsTell'
  BY <1>1, <1>2 DEF StageTells, RecordsTell
<1>5. BudgetLeft' /\ BeatsEnd'
  BY <1>1, <1>2 DEF BudgetLeft, BeatsEnd
<1> QED BY <1>3, <1>4, <1>5

LEMMA InvStepIInv == InvIInv /\ [InvNext]_invVars => InvIInv'
<1> SUFFICES ASSUME InvIInv, [InvNext]_invVars PROVE InvIInv'
  OBVIOUS
<1>1. CASE Ask
  BY <1>1, AskKeeps
<1>2. CASE Prompt
  BY <1>2, PromptKeeps
<1>3. CASE Call
  BY <1>3, CallKeeps
<1>4. CASE NoTimeLeft \/ ServerTimeout
  BY <1>4, TimeOutsKeep
<1>5. CASE StopBeats \/ AwaitBeats
  BY <1>5, StopKeeps
<1>6. CASE RecordAnswer
  BY <1>6, RecordAnswerKeeps
<1>7. CASE Decide
  BY <1>7, DecideKeeps
<1>8. CASE \E r \in Returns(Current.adapter) : Return(r)
  BY <1>8, ReturnKeeps
<1>9. CASE Beat \/ WriteBeat
  BY <1>9, BeatKeeps
<1>10. CASE EndOfWorker
  BY <1>10, EndOfWorkerKeeps
<1>11. CASE \E p \in alive : Exit(p)
  BY <1>11, ExitKeeps
<1>12. CASE UNCHANGED invVars
  <2>1. UNCHANGED <<registered, prefers, budget, stage, asked, alive, beating, beats>>
    BY <1>12 DEF invVars
  <2>2. Now' = Now /\ Current' = Current /\ Running' = Running
    BY <2>1 DEF Now, Current, Running
  <2>3. InvTyped' /\ AgentsKnown' /\ AgentsOfAnAttempt'
    BY <2>1, <2>2 DEF InvIInv, InvTyped, AgentsKnown, AgentsOfAnAttempt
  <2>4. StageTells' /\ RecordsTell'
    BY <2>1, <2>2 DEF InvIInv, StageTells, RecordsTell
  <2>5. BudgetLeft' /\ BeatsEnd'
    BY <2>1, <2>2 DEF InvIInv, BudgetLeft, BeatsEnd
  <2> QED BY <2>3, <2>4, <2>5 DEF InvIInv
<1> QED
  BY <1>1, <1>2, <1>3, <1>4, <1>5, <1>6, <1>7, <1>8, <1>9, <1>10, <1>11, <1>12
  DEF InvNext, Executor

\* The agents left running by an attempt are few and of attempts that timed out, the
\* budget pays for transient failures only, and an API's success has text.
LEMMA IInvGivesAttempts == InvIInv => AttemptsInv
<1> SUFFICES ASSUME InvIInv PROVE AttemptsInv
  OBVIOUS
<1> USE DEF InvIInv
<1>1. /\ Now \in Nat /\ \A i \in 1..Now : asked[i] \in Record
      /\ \A i \in 1..Now : asked[i].tries \in Nat
  BY RecordTyped
<1>2. InvTypeOK
  <2>1. \A i \in 1..Now :
          /\ asked[i].adapter \in Adapters /\ asked[i].tries \in 0..3
          /\ asked[i].answer \in {"none", "Succeeded", "Failed", "TimedOut", "EmptyOutput",
                                  "RetryableError"}
          /\ asked[i].status \in {"running", "succeeded", "failed_permanent", "failed_retryable"}
    BY <1>1 DEF Record
  <2> QED BY <2>1 DEF InvTypeOK, InvTyped, AgentsKnown, Adapters
<1>3. BudgetIsForTheTransient
  <2>1. \A i \in 1..Now - 1 :
          /\ asked[i].status = "failed_retryable"
          /\ asked[i].answer = "RetryableError" => asked[i].tries = 1
          /\ asked[i].answer \in {"TimedOut", "RetryableError"}
    BY <1>1 DEF RecordsTell
  <2> PICK b \in Budgets : budget + Now = IF stage = "ready" THEN b ELSE b + 1
    BY DEF BudgetLeft
  <2>2. b \in Nat /\ budget \in Nat
    BY InvAssumption DEF InvTyped
  <2>3. Now <= b + 1 /\ budget + Now \in {b, b + 1}
    BY <1>1, <2>2
  <2> QED BY <2>1, <2>3 DEF BudgetIsForTheTransient
<1>4. ApiSuccessHasText
  BY DEF ApiSuccessHasText, RecordsTell
<1> QED BY <1>2, <1>3, <1>4 DEF AttemptsInv

\* With every adapter and whatever it returns: an attempt has one agent at work, an
\* agent that outlives its attempt was given up, the budget pays for what is transient
\* and for no more attempts than it has, and an API's success has text.
THEOREM AttemptsSound == InvSpec => []AttemptsInv
<1>1. InvSpec => []InvIInv
  BY InvInitIInv, InvStepIInv, PTL DEF InvSpec
<1> QED BY <1>1, IInvGivesAttempts, PTL

\* Once an attempt is recorded as over, no heartbeat says that it runs: the heartbeat
\* is told to stop and waited for before the answer is recorded.
THEOREM BeatsStop == InvSpec => NoBeatOfTheDead
<1>1. InvSpec => []InvIInv
  BY InvInitIInv, InvStepIInv, PTL DEF InvSpec
<1>2. InvIInv /\ [InvNext]_invVars =>
        [\A i \in 1..Now : asked[i].status # "running" => beats'[i] = beats[i]]_invVars
  <2> SUFFICES ASSUME InvIInv, InvNext, NEW i \in 1..Now, asked[i].status # "running"
               PROVE  beats'[i] = beats[i]
    OBVIOUS
  <2>1. InvTyped /\ Now \in Nat /\ beats \in Seq(Nat) /\ Len(beats) = Now
    BY RecordTyped DEF InvIInv, InvTyped
  <2>2. CASE WriteBeat
    <3>1. Now > 0 /\ Current.status = "running"
      BY <2>2 DEF WriteBeat, InvIInv, BeatsEnd, StageTells
    <3>2. i # Now
      BY <3>1 DEF Current
    <3> QED BY <2>1, <2>2, <3>2 DEF WriteBeat
  <2>3. CASE Ask
    <3>1. beats' = Append(beats, 0)
      BY <2>3 DEF Ask
    <3> QED BY <2>1, <3>1, AppendProperties
  <2>4. CASE ~WriteBeat /\ ~Ask
    BY <2>4 DEF InvNext, Executor, Prompt, Call, NoTimeLeft, ServerTimeout, StopBeats,
                AwaitBeats, RecordAnswer, Decide, Return, Beat, EndOfWorker, Exit
  <2> QED BY <2>2, <2>3, <2>4
<1> QED BY <1>1, <1>2, PTL DEF InvSpec, NoBeatOfTheDead

-----------------------------------------------------------------------------
(* The workspaces *)

Place == [at : {"away", "adding", "working", "merging", "committing", "leaving", "releasing",
                "left"},
          task : WTasks \cup {Unheld}, path : Paths \cup {Unheld}]

WtTyped ==
  /\ pooled \in BOOLEAN /\ restarts \in Nat /\ refs \subseteq Branches
  /\ {"main", head} \subseteq refs /\ head \in {"main"} \cup Verifiers
  /\ commits \in [Branches -> SUBSET Attempts]
  /\ modified \in [Paths -> SUBSET Attempts] /\ untracked \in [Paths -> SUBSET Attempts]
  /\ held \in [WTasks -> ToSet(Slots) \cup {Unheld}] /\ free \in Seq(ToSet(Slots))
  /\ work \in [Attempts -> Place]

\* The attempts start in their order, and keep the task and the path they start with.
PlacesFixed ==
  /\ \A e \in Attempts :
       IF work[e].at = "away" THEN TaskOf(e) = Unheld /\ work[e].path = Unheld
       ELSE /\ TaskOf(e) \in WTasks
            /\ IF pooled THEN work[e].path \in ToSet(Slots) ELSE work[e].path = TaskOf(e)
  /\ \A e, f \in Attempts : f < e /\ work[e].at # "away" => work[f].at # "away"
  /\ \A e \in loose : e \in Attempts /\ work[e].at \notin {"away", "adding", "working"}

\* A slot is in the pool, or held by one task, or lost; one that is held was taken for
\* that task.
PoolKept ==
  /\ ~pooled => free = <<>> /\ \A t \in WTasks : held[t] = Unheld
  /\ IsInjective(free)
  /\ \A t \in WTasks : held[t] \notin ToSet(free)
  /\ \A t, u \in WTasks : held[t] = held[u] /\ held[t] # Unheld => t = u
  /\ \A t \in WTasks :
       held[t] # Unheld => \E e \in Attempts : work[e].path = held[t] /\ TaskOf(e) = t

\* Unless a task was given out twice, its one attempt at work has the slot it holds.
OneAtWork ==
  ~doubled =>
    /\ \A e, f \in Attempts : e # f /\ Present(e) /\ Present(f) => TaskOf(e) # TaskOf(f)
    /\ \A e \in Attempts : pooled /\ Present(e) => held[TaskOf(e)] = work[e].path

\* Changes lie where there is a branch, at the path of the attempt that made them.
ChangesPlaced ==
  \A p \in Paths :
    /\ p \notin refs => Uncommitted(p) = {}
    /\ \A e \in Uncommitted(p) : work[e].path = p

\* What is about to be released, or waits in the pool, keeps changes of agents that
\* outlived their attempts at most.
NothingHandedOn ==
  ~doubled =>
    /\ \A e \in Attempts : work[e].at = "releasing" => Uncommitted(work[e].path) \subseteq loose
    /\ \A s \in ToSet(free) : Uncommitted(s) \subseteq loose

\* A verification is on its own branch, unless two of them met in the repository.
VerifyTyped ==
  /\ verify = [v \in Verifiers |-> verify[v]]
  /\ \A v \in Verifiers : DOMAIN verify[v] = {"at", "todo", "failures", "due"}
OnItsBranch == ~strayed => \A v \in Verifiers : Verifying(v) => head = v

WtIInv ==
  /\ WtTyped /\ PlacesFixed /\ PoolKept /\ OneAtWork /\ ChangesPlaced /\ NothingHandedOn
  /\ LostSlotsAreRetried /\ WorkspaceHasItsOwn /\ VerifyTyped /\ OnItsBranch /\ MainMovesOnlyAstray

\* An action that takes or gives back no workspace.
GoesOn ==
  /\ UNCHANGED <<pooled, free, held, doubled>>
  /\ work' \in [Attempts -> Place]
  /\ \A f \in Attempts :
       /\ work'[f].task = work[f].task /\ work'[f].path = work[f].path
       /\ work'[f].at = "away" <=> work[f].at = "away"
       /\ work[f].at = "left" => work'[f].at = "left"
  /\ loose \subseteq loose'
  /\ \A f \in loose' : f \in Attempts /\ work'[f].at \notin {"away", "adding", "working"}

\* What it adds are changes of attempts at work, or of agents that outlived theirs, at
\* their paths.
AddsOwn ==
  \A p \in Paths : \A f \in modified'[p] \cup untracked'[p] :
    \/ f \in Uncommitted(p)
    \/ /\ f \in Attempts /\ work[f].path = p
       /\ f \in loose \/ (work[f].at = "working" /\ work'[f].at # "releasing")

LEMMA FirstFree ==
  ASSUME NEW S, NEW s \in Seq(S), s # <<>>, IsInjective(s)
  PROVE  /\ Tail(s) \in Seq(S) /\ Head(s) \in S /\ IsInjective(Tail(s))
         /\ ToSet(s) = {Head(s)} \cup ToSet(Tail(s)) /\ Head(s) \notin ToSet(Tail(s))
<1>1. /\ Len(s) \in Nat \ {0} /\ Head(s) \in S /\ Tail(s) \in Seq(S) /\ Head(s) = s[1]
      /\ Len(Tail(s)) = Len(s) - 1 /\ \A i \in 1..Len(Tail(s)) : Tail(s)[i] = s[i + 1]
  BY HeadTailProperties, LenProperties, EmptySeq
<1>2. DOMAIN s = 1..Len(s) /\ DOMAIN Tail(s) = 1..Len(s) - 1
  BY <1>1, LenProperties
<1>3. IsInjective(Tail(s))
  <2> SUFFICES ASSUME NEW i \in 1..Len(s) - 1, NEW j \in 1..Len(s) - 1, Tail(s)[i] = Tail(s)[j]
               PROVE  i = j
    BY <1>2 DEF IsInjective
  <2>1. s[i + 1] = s[j + 1] /\ i + 1 \in 1..Len(s) /\ j + 1 \in 1..Len(s)
    BY <1>1
  <2>2. i + 1 = j + 1
    BY <1>2, <2>1 DEF IsInjective
  <2> QED BY <1>1, <2>2
<1>4. Head(s) \notin ToSet(Tail(s))
  <2> SUFFICES ASSUME NEW i \in 1..Len(s) - 1, Tail(s)[i] = s[1] PROVE FALSE
    BY <1>1, <1>2 DEF ToSet
  <2>1. s[i + 1] = s[1] /\ i + 1 \in 1..Len(s) /\ 1 \in 1..Len(s)
    BY <1>1
  <2>2. i + 1 = 1
    BY <1>2, <2>1 DEF IsInjective
  <2> QED BY <1>1, <2>2
<1>5. ToSet(s) \subseteq {Head(s)} \cup ToSet(Tail(s))
  <2> SUFFICES ASSUME NEW i \in 1..Len(s) PROVE s[i] \in {Head(s)} \cup ToSet(Tail(s))
    BY <1>2 DEF ToSet
  <2>1. CASE i = 1
    BY <1>1, <2>1
  <2>2. CASE i # 1
    <3>1. i - 1 \in 1..Len(s) - 1
      BY <1>1, <2>2
    <3>2. Tail(s)[i - 1] = s[(i - 1) + 1] /\ (i - 1) + 1 = i
      BY <1>1, <3>1
    <3> QED BY <1>2, <3>1, <3>2 DEF ToSet
  <2> QED BY <2>1, <2>2
<1>6. {Head(s)} \cup ToSet(Tail(s)) \subseteq ToSet(s)
  <2>1. s[1] \in ToSet(s)
    BY <1>1, <1>2 DEF ToSet
  <2>2. ASSUME NEW i \in 1..Len(s) - 1 PROVE Tail(s)[i] \in ToSet(s)
    <3>1. Tail(s)[i] = s[i + 1] /\ i + 1 \in 1..Len(s)
      BY <1>1
    <3> QED BY <1>2, <3>1 DEF ToSet
  <2>3. ToSet(Tail(s)) \subseteq ToSet(s)
    BY <1>2, <2>2 DEF ToSet
  <2> QED BY <1>1, <2>1, <2>3
<1> QED BY <1>1, <1>3, <1>4, <1>5, <1>6

LEMMA GivenBack ==
  ASSUME NEW S, NEW s \in Seq(S), NEW x \in S, x \notin ToSet(s), IsInjective(s)
  PROVE  /\ Append(s, x) \in Seq(S) /\ IsInjective(Append(s, x))
         /\ ToSet(Append(s, x)) = ToSet(s) \cup {x}
<1>1. /\ Len(s) \in Nat /\ Append(s, x) \in Seq(S) /\ Len(Append(s, x)) = Len(s) + 1
      /\ \A i \in 1..Len(s) : Append(s, x)[i] = s[i]
      /\ Append(s, x)[Len(s) + 1] = x
  BY AppendProperties, LenProperties
<1>2. DOMAIN s = 1..Len(s) /\ DOMAIN Append(s, x) = 1..Len(s) + 1
  BY <1>1, LenProperties
<1>3. \A i \in 1..Len(s) : s[i] # x
  BY <1>2 DEF ToSet
<1>4. IsInjective(Append(s, x))
  <2> SUFFICES ASSUME NEW i \in 1..Len(s) + 1, NEW j \in 1..Len(s) + 1,
                      Append(s, x)[i] = Append(s, x)[j]
               PROVE  i = j
    BY <1>2 DEF IsInjective
  <2>1. i \in 1..Len(s) \/ i = Len(s) + 1
    BY <1>1
  <2>2. j \in 1..Len(s) \/ j = Len(s) + 1
    BY <1>1
  <2> QED BY <1>1, <1>2, <1>3, <2>1, <2>2 DEF IsInjective
<1>5. ToSet(Append(s, x)) \subseteq ToSet(s) \cup {x}
  <2> SUFFICES ASSUME NEW i \in 1..Len(s) + 1 PROVE Append(s, x)[i] \in ToSet(s) \cup {x}
    BY <1>2 DEF ToSet
  <2>1. i \in 1..Len(s) \/ i = Len(s) + 1
    BY <1>1
  <2> QED BY <1>1, <1>2, <2>1 DEF ToSet
<1>6. ToSet(s) \cup {x} \subseteq ToSet(Append(s, x))
  <2>1. \A i \in 1..Len(s) : i \in DOMAIN Append(s, x) /\ s[i] = Append(s, x)[i]
    BY <1>1, <1>2
  <2>2. Len(s) + 1 \in DOMAIN Append(s, x)
    BY <1>1, <1>2
  <2> QED BY <1>1, <1>2, <2>1, <2>2 DEF ToSet
<1> QED BY <1>1, <1>4, <1>5, <1>6

LEMMA SlotsAreSlots == Slots \in Seq(ToSet(Slots))
<1>1. Slots \in Seq(STRING) /\ DOMAIN Slots = 1..Len(Slots) /\ Len(Slots) \in Nat
  BY WtConstants, LenProperties
<1>2. \A i \in 1..Len(Slots) : Slots[i] \in ToSet(Slots)
  BY <1>1 DEF ToSet
<1>3. Slots = [i \in 1..Len(Slots) |-> Slots[i]]
  BY <1>1
<1> QED BY <1>1, <1>2, <1>3, IsASeq

\* What waits in the pool are slots.
LEMMA FreeSlots ==
  ASSUME WtTyped, NEW s \in ToSet(free)
  PROVE  s \in ToSet(Slots)
<1>1. free \in Seq(ToSet(Slots)) /\ DOMAIN free = 1..Len(free)
  BY LenProperties DEF WtTyped
<1>2. PICK i \in 1..Len(free) : s = free[i]
  BY <1>1 DEF ToSet
<1> QED BY <1>1, <1>2, ElementOfSeq

\* Paths, and what is none.
LEMMA PathNames ==
  /\ Unheld \notin WTasks /\ Unheld \notin ToSet(Slots) /\ Unheld \notin Paths
  /\ "main" \notin Paths /\ "main" \notin Verifiers
  /\ \A v \in Verifiers : v \notin Paths
  /\ WTasks \subseteq Paths /\ ToSet(Slots) \subseteq Paths /\ Paths \subseteq Branches
  /\ Verifiers \subseteq Branches /\ "main" \in Branches
BY WtNames DEF Paths, Branches

LEMMA AttemptNumbers == \A e \in Attempts : e \in Nat
BY WtConstants DEF Attempts

\* Attempts at work have different paths, and none that waits in the pool.
LEMMA PathsDiffer ==
  ASSUME WtTyped, PlacesFixed, PoolKept, OneAtWork, ~doubled
  PROVE  /\ \A e, f \in Attempts : e # f /\ Present(e) /\ Present(f) => work[e].path # work[f].path
         /\ \A e \in Attempts : Present(e) => work[e].path \notin ToSet(free)
         /\ \A e \in Attempts : Present(e) => work[e].path \in Paths /\ TaskOf(e) \in WTasks
         /\ \A e \in Attempts : Present(e) => PathOf(TaskOf(e)) = work[e].path
<1>1. \A e \in Attempts :
        Present(e) => /\ TaskOf(e) \in WTasks
                      /\ IF pooled THEN work[e].path \in ToSet(Slots) ELSE work[e].path = TaskOf(e)
  BY DEF PlacesFixed, Present
<1>2. CASE pooled
  <2>1. \A e \in Attempts : Present(e) => held[TaskOf(e)] = work[e].path
    BY <1>2 DEF OneAtWork
  <2>2. \A e, f \in Attempts :
          e # f /\ Present(e) /\ Present(f) => held[TaskOf(e)] # held[TaskOf(f)]
    <3> SUFFICES ASSUME NEW e \in Attempts, NEW f \in Attempts, e # f, Present(e), Present(f)
                 PROVE  held[TaskOf(e)] # held[TaskOf(f)]
      OBVIOUS
    <3>1. TaskOf(e) # TaskOf(f) /\ TaskOf(e) \in WTasks /\ TaskOf(f) \in WTasks
      BY <1>1 DEF OneAtWork
    <3>2. held[TaskOf(e)] # Unheld
      BY <1>1, <1>2, <2>1, PathNames
    <3> QED BY <3>1, <3>2 DEF PoolKept
  <2>3. \A e \in Attempts : Present(e) => held[TaskOf(e)] \notin ToSet(free)
    BY <1>1 DEF PoolKept
  <2> QED BY <1>1, <1>2, <2>1, <2>2, <2>3, PathNames DEF PathOf
<1>3. CASE ~pooled
  <2>1. ToSet(free) = {}
    <3>1. free = <<>> /\ DOMAIN <<>> = {}
      BY <1>3, EmptySeq DEF PoolKept
    <3> QED BY <3>1 DEF ToSet
  <2>2. \A e, f \in Attempts : e # f /\ Present(e) /\ Present(f) => TaskOf(e) # TaskOf(f)
    BY DEF OneAtWork
  <2> QED BY <1>1, <1>3, <2>1, <2>2, PathNames DEF PathOf
<1> QED BY <1>2, <1>3

LEMMA GotoGoesOn ==
  ASSUME WtTyped, PlacesFixed, NEW e \in Attempts, work[e].at \notin {"away", "left"},
         NEW s \in {"adding", "working", "merging", "committing", "leaving", "releasing", "left"},
         Goto(e, s)
  PROVE  /\ work' \in [Attempts -> Place]
         /\ \A f \in Attempts :
              /\ work'[f].task = work[f].task /\ work'[f].path = work[f].path
              /\ work'[f].at = IF f = e THEN s ELSE work[f].at
              /\ work'[f].at = "away" <=> work[f].at = "away"
              /\ work[f].at = "left" => work'[f].at = "left"
<1> PICK old : old = work[e]
  OBVIOUS
<1> PICK new : new = [old EXCEPT !.at = s]
  OBVIOUS
<1>1. old \in Place /\ work \in [Attempts -> Place]
  BY DEF WtTyped
<1>2. new \in Place /\ new.at = s /\ new.task = old.task /\ new.path = old.path
  BY <1>1 DEF Place
<1>3. work' = [work EXCEPT ![e] = new]
  BY DEF Goto
<1>4. work' \in [Attempts -> Place] /\ \A f \in Attempts : work'[f] = IF f = e THEN new ELSE work[f]
  BY <1>1, <1>2, <1>3
<1> QED BY <1>2, <1>4

\* What goes on keeps the places and the pool.
LEMMA PoolStays ==
  ASSUME WtIInv, GoesOn
  PROVE  PlacesFixed' /\ PoolKept' /\ OneAtWork' /\ LostSlotsAreRetried'
<1> USE DEF WtIInv
<1>1. UNCHANGED <<pooled, free, held, doubled>>
  BY DEF GoesOn
<1>2. \A f \in Attempts :
        /\ work'[f].task = work[f].task /\ work'[f].path = work[f].path
        /\ work'[f].at = "away" <=> work[f].at = "away"
        /\ work[f].at = "left" => work'[f].at = "left"
  BY DEF GoesOn
<1>3. \A f \in Attempts : TaskOf(f)' = TaskOf(f) /\ (Present(f)' => Present(f))
  BY <1>2 DEF TaskOf, Present
<1>4. PlacesFixed'
  <2>1. \A f \in loose' : f \in Attempts /\ work'[f].at \notin {"away", "adding", "working"}
    BY DEF GoesOn
  <2>2. \A f \in Attempts :
          IF work'[f].at = "away" THEN TaskOf(f)' = Unheld /\ work'[f].path = Unheld
          ELSE /\ TaskOf(f)' \in WTasks
               /\ IF pooled THEN work'[f].path \in ToSet(Slots) ELSE work'[f].path = TaskOf(f)'
    BY <1>2, <1>3 DEF PlacesFixed
  <2>3. \A e, f \in Attempts : f < e /\ work'[e].at # "away" => work'[f].at # "away"
    BY <1>2 DEF PlacesFixed
  <2> QED BY <1>1, <2>1, <2>2, <2>3 DEF PlacesFixed
<1>5. PoolKept'
  <2>1. \A t \in WTasks :
          held[t] # Unheld => \E e \in Attempts : work'[e].path = held[t] /\ TaskOf(e)' = t
    BY <1>2, <1>3 DEF PoolKept
  <2> QED BY <1>1, <2>1 DEF PoolKept
<1>6. OneAtWork'
  BY <1>1, <1>2, <1>3 DEF OneAtWork
<1>7. LostSlotsAreRetried'
  <2> SUFFICES ASSUME pooled, NEW s \in ToSet(Slots) \ ToSet(free)
               PROVE  \/ \E t \in WTasks : held[t] = s
                      \/ \E e, f \in Attempts : e < f /\ work'[e].path = s /\ TaskOf(e)' = TaskOf(f)'
    BY <1>1 DEF LostSlotsAreRetried
  <2> QED BY <1>2, <1>3 DEF LostSlotsAreRetried
<1> QED BY <1>4, <1>5, <1>6, <1>7

\* What goes on, adding what belongs there at most, keeps what the workspaces hold.
LEMMA ChangesStay ==
  ASSUME WtIInv, GoesOn, AddsOwn,
         \A p \in Paths : p \notin refs' => modified'[p] \cup untracked'[p] = {},
         \A f \in Attempts :
           work'[f].at = "releasing" /\ work[f].at # "releasing" /\ ~doubled =>
             modified'[work[f].path] \cup untracked'[work[f].path] \subseteq loose'
  PROVE  ChangesPlaced' /\ NothingHandedOn' /\ WorkspaceHasItsOwn'
<1> USE DEF WtIInv
<1>1. /\ UNCHANGED <<pooled, free, held, doubled>> /\ loose \subseteq loose'
      /\ \A f \in Attempts :
           /\ work'[f].task = work[f].task /\ work'[f].path = work[f].path
           /\ work'[f].at = "away" <=> work[f].at = "away"
           /\ work[f].at = "left" => work'[f].at = "left"
  BY DEF GoesOn
<1>2. \A f \in Attempts : Present(f)' => Present(f)
  BY <1>1 DEF Present
<1>3. ChangesPlaced'
  <2> SUFFICES ASSUME NEW p \in Paths, NEW f \in modified'[p] \cup untracked'[p]
               PROVE  work'[f].path = p
    BY DEF ChangesPlaced, Uncommitted
  <2>1. f \in Attempts /\ work[f].path = p
    <3>1. CASE f \in Uncommitted(p)
      BY <3>1 DEF WtTyped, Uncommitted, ChangesPlaced
    <3> QED BY <3>1 DEF AddsOwn
  <2> QED BY <1>1, <2>1
<1>4. ASSUME ~doubled PROVE NothingHandedOn' /\ WorkspaceHasItsOwn'
  <2>1. /\ \A f, g \in Attempts : f # g /\ Present(f) /\ Present(g) => work[f].path # work[g].path
        /\ \A f \in Attempts : Present(f) => work[f].path \notin ToSet(free)
        /\ \A f \in Attempts : Present(f) => work[f].path \in Paths
    BY <1>4, PathsDiffer
  <2>2. \A p \in Paths : \A f \in modified'[p] \cup untracked'[p] :
          \/ f \in Uncommitted(p)
          \/ f \in loose'
          \/ /\ f \in Attempts /\ Present(f) /\ work[f].path = p
             /\ work[f].at = "working" /\ work'[f].at # "releasing"
    BY <1>1 DEF AddsOwn, Present
  <2>3. ASSUME NEW g \in Attempts, work'[g].at = "releasing"
        PROVE  modified'[work[g].path] \cup untracked'[work[g].path] \subseteq loose'
    <3>1. CASE work[g].at = "releasing"
      <4>1. Uncommitted(work[g].path) \subseteq loose /\ work[g].path \in Paths /\ Present(g)
        BY <1>4, <2>1, <3>1 DEF NothingHandedOn, Present
      <4>2. \A f \in Attempts : Present(f) /\ work[f].path = work[g].path => f = g
        BY <2>1, <4>1
      <4> QED BY <1>1, <2>2, <2>3, <4>1, <4>2
    <3>2. CASE work[g].at # "releasing"
      BY <1>4, <2>3, <3>2
    <3> QED BY <3>1, <3>2
  <2>4. ASSUME NEW s \in ToSet(free) PROVE modified'[s] \cup untracked'[s] \subseteq loose'
    <3>1. s \in Paths
      BY FreeSlots, PathNames
    <3>2. Uncommitted(s) \subseteq loose
      BY <1>4 DEF NothingHandedOn
    <3> QED BY <1>1, <2>1, <2>2, <3>1, <3>2
  <2>5. ASSUME NEW g \in Attempts, Present(g)
        PROVE  modified'[work[g].path] \cup untracked'[work[g].path] \subseteq {g} \cup loose'
    <3>1. Uncommitted(work[g].path) \subseteq {g} \cup loose /\ work[g].path \in Paths
      BY <1>4, <2>1, <2>5 DEF WorkspaceHasItsOwn
    <3>2. \A f \in Attempts : Present(f) /\ work[f].path = work[g].path => f = g
      BY <2>1, <2>5
    <3> QED BY <1>1, <2>2, <3>1, <3>2
  <2>6. NothingHandedOn'
    BY <1>1, <2>3, <2>4 DEF NothingHandedOn, Uncommitted
  <2> QED BY <1>1, <1>2, <2>5, <2>6 DEF WorkspaceHasItsOwn, Uncommitted
<1>5. doubled => NothingHandedOn' /\ WorkspaceHasItsOwn'
  BY <1>1 DEF NothingHandedOn, WorkspaceHasItsOwn
<1> QED BY <1>3, <1>4, <1>5

LEMMA ChangesUntouched ==
  ASSUME WtIInv, GoesOn, UNCHANGED <<modified, untracked>>,
         \A p \in Paths : p \in refs => p \in refs',
         \A f \in Attempts : work'[f].at = "releasing" => work[f].at = "releasing"
  PROVE  ChangesPlaced' /\ NothingHandedOn' /\ WorkspaceHasItsOwn'
<1>1. AddsOwn
  BY DEF AddsOwn, Uncommitted
<1>2. \A p \in Paths : p \notin refs' => modified'[p] \cup untracked'[p] = {}
  BY DEF WtIInv, ChangesPlaced, Uncommitted
<1> QED BY <1>1, <1>2, ChangesStay

LEMMA GotoKeeps ==
  ASSUME WtIInv, NEW e \in Attempts, work[e].at \notin {"away", "left"},
         NEW s \in {"adding", "working", "merging", "committing", "leaving", "releasing", "left"},
         Goto(e, s), UNCHANGED <<pooled, free, held, doubled, loose>>,
         s \in {"adding", "working"} => e \notin loose
  PROVE  GoesOn
<1>1. WtTyped /\ PlacesFixed
  BY DEF WtIInv
<1>2. /\ work' \in [Attempts -> Place]
      /\ \A f \in Attempts :
           /\ work'[f].task = work[f].task /\ work'[f].path = work[f].path
           /\ work'[f].at = IF f = e THEN s ELSE work[f].at
           /\ work'[f].at = "away" <=> work[f].at = "away"
           /\ work[f].at = "left" => work'[f].at = "left"
  BY <1>1, GotoGoesOn
<1>3. \A f \in loose : f \in Attempts /\ work[f].at \notin {"away", "adding", "working"}
  BY <1>1 DEF PlacesFixed
<1>4. \A f \in loose' : f \in Attempts /\ work'[f].at \notin {"away", "adding", "working"}
  BY <1>2, <1>3
<1> QED BY <1>2, <1>4 DEF GoesOn

\* An action that leaves the verifications alone, and main.
LEMMA VerifyStays ==
  ASSUME WtIInv, UNCHANGED <<verify, head, strayed>>, commits'["main"] = commits["main"]
  PROVE  VerifyTyped' /\ OnItsBranch' /\ MainMovesOnlyAstray'
BY DEF WtIInv, VerifyTyped, OnItsBranch, MainMovesOnlyAstray, Verifying

LEMMA VerifyChanges ==
  ASSUME VerifyTyped, NEW v \in Verifiers, NEW r, DOMAIN r = {"at", "todo", "failures", "due"},
         verify' = [verify EXCEPT ![v] = r]
  PROVE  VerifyTyped' /\ \A o \in Verifiers : verify'[o] = IF o = v THEN r ELSE verify[o]
<1>1. DOMAIN verify = Verifiers
  BY DEF VerifyTyped
<1>2. verify' = [o \in Verifiers |-> IF o = v THEN r ELSE verify[o]]
  BY <1>1
<1> QED BY <1>1, <1>2 DEF VerifyTyped

\* A verification changes no workspace.
LEMMA VerifyKeeps ==
  ASSUME WtIInv, UNCHANGED <<pooled, modified, untracked, slotVars, work, loose, doubled>>,
         \A p \in Paths : p \in refs => p \in refs'
  PROVE  /\ PlacesFixed' /\ PoolKept' /\ OneAtWork' /\ LostSlotsAreRetried'
         /\ ChangesPlaced' /\ NothingHandedOn' /\ WorkspaceHasItsOwn'
<1>1. GoesOn
  BY DEF GoesOn, WtIInv, WtTyped, PlacesFixed, slotVars
<1>2. PlacesFixed' /\ PoolKept' /\ OneAtWork' /\ LostSlotsAreRetried'
  BY <1>1, PoolStays
<1>3. ChangesPlaced' /\ NothingHandedOn' /\ WorkspaceHasItsOwn'
  BY <1>1, ChangesUntouched
<1> QED BY <1>2, <1>3

LEMMA WtInitIInv == WtInit => WtIInv
<1> SUFFICES ASSUME WtInit PROVE WtIInv
  OBVIOUS
<1> USE DEF WtInit
<1>1. pooled \in BOOLEAN
  BY WtConstants
<1>2. free \in Seq(ToSet(Slots)) /\ IsInjective(free) /\ (pooled => ToSet(free) = ToSet(Slots))
  <2>1. Slots \in Seq(ToSet(Slots))
    BY SlotsAreSlots
  <2>2. <<>> \in Seq(ToSet(Slots)) /\ DOMAIN <<>> = {}
    BY EmptySeq
  <2>3. IsInjective(<<>>)
    BY <2>2 DEF IsInjective
  <2> QED BY <2>1, <2>2, <2>3, WtNames
<1>3. \A e \in Attempts : work[e] = Away
  OBVIOUS
<1>4. Away \in Place
  BY DEF Away, Place
<1>5. WtTyped
  BY <1>1, <1>2, <1>4, PathNames DEF WtTyped
<1>6. PlacesFixed
  BY <1>3 DEF PlacesFixed, Away, TaskOf
<1>7. PoolKept
  <2>1. \A t \in WTasks : held[t] = Unheld
    OBVIOUS
  <2>2. Unheld \notin ToSet(free)
    BY <1>5, FreeSlots, PathNames
  <2> QED BY <1>2, <2>1, <2>2 DEF PoolKept
<1>8. \A e \in Attempts : ~Present(e) /\ work[e].at # "releasing"
  BY <1>3 DEF Present, Away
<1>9. \A p \in Paths : Uncommitted(p) = {}
  BY DEF Uncommitted
<1>10. \A s \in ToSet(free) : s \in Paths
  BY <1>5, FreeSlots, PathNames
<1>11. OneAtWork /\ ChangesPlaced /\ NothingHandedOn /\ WorkspaceHasItsOwn
  BY <1>8, <1>9, <1>10 DEF OneAtWork, ChangesPlaced, NothingHandedOn, WorkspaceHasItsOwn
<1>12. LostSlotsAreRetried
  BY <1>2 DEF LostSlotsAreRetried
<1>13. VerifyTyped /\ OnItsBranch
  BY DEF VerifyTyped, OnItsBranch, Verifying, Unverified
<1>14. MainMovesOnlyAstray
  BY PathNames DEF MainMovesOnlyAstray
<1> QED BY <1>5, <1>6, <1>7, <1>11, <1>12, <1>13, <1>14 DEF WtIInv

LEMMA AddKeeps == ASSUME WtIInv, NEW e \in Attempts, Add(e) PROVE WtIInv'
<1> USE DEF WtIInv
<1> PICK t : t = TaskOf(e)
  OBVIOUS
<1>1. /\ work[e].at = "adding" /\ t \in WTasks /\ e \notin loose
      /\ UNCHANGED <<pooled, free, held, loose, verify, doubled, strayed, restarts, modified,
                     untracked, head>>
  BY DEF Add, PlacesFixed, slotVars, ended, wtHistory, git
<1>2. \/ Goto(e, "left") /\ UNCHANGED <<refs, commits>>
      \/ /\ Goto(e, "working") /\ refs' = refs \cup {t}
         /\ commits' = [commits EXCEPT ![t] = commits[head]]
  BY DEF Add, git
<1>3. GoesOn
  BY <1>1, <1>2, GotoKeeps
<1>4. \A f \in Attempts : work'[f].at = "releasing" => work[f].at = "releasing"
  BY <1>1, <1>2, GotoGoesOn
<1>5. PlacesFixed' /\ PoolKept' /\ OneAtWork' /\ LostSlotsAreRetried'
  BY <1>3, PoolStays
<1>6. \A p \in Paths : p \in refs => p \in refs'
  BY <1>2
<1>7. ChangesPlaced' /\ NothingHandedOn' /\ WorkspaceHasItsOwn'
  BY <1>1, <1>3, <1>4, <1>6, ChangesUntouched
<1>8. WtTyped'
  <2>1. t \in Branches /\ head \in Branches /\ t # "main" /\ commits[head] \in SUBSET Attempts
    BY <1>1, PathNames DEF WtTyped
  <2>2. refs' \subseteq Branches /\ refs \subseteq refs' /\ commits' \in [Branches -> SUBSET Attempts]
    BY <1>2, <2>1 DEF WtTyped
  <2> QED BY <1>1, <1>3, <2>2 DEF WtTyped, GoesOn
<1>9. commits'["main"] = commits["main"]
  BY <1>1, <1>2, PathNames DEF WtTyped
<1>10. VerifyTyped' /\ OnItsBranch' /\ MainMovesOnlyAstray'
  BY <1>1, <1>9, VerifyStays
<1> QED BY <1>5, <1>7, <1>8, <1>10

\* What an agent changes at its path.
LEMMA EditsTyped ==
  ASSUME WtIInv, NEW e \in Attempts, Edits(e), work[e].path \in Paths, UNCHANGED refs
  PROVE  /\ modified' \in [Paths -> SUBSET Attempts] /\ untracked' \in [Paths -> SUBSET Attempts]
         /\ \A p \in Paths : Uncommitted(p) \subseteq modified'[p] \cup untracked'[p]
         /\ \A p \in Paths : \A f \in modified'[p] \cup untracked'[p] :
              f \in Uncommitted(p) \/ (f = e /\ p = work[e].path)
         /\ \A p \in Paths : p \notin refs' => modified'[p] \cup untracked'[p] = {}
<1> PICK q : q = work[e].path
  OBVIOUS
<1>1. \/ UNCHANGED <<modified, untracked>>
      \/ q \in refs /\ modified' = [modified EXCEPT ![q] = @ \cup {e}] /\ UNCHANGED untracked
      \/ q \in refs /\ untracked' = [untracked EXCEPT ![q] = @ \cup {e}] /\ UNCHANGED modified
  BY DEF Edits
<1>2. modified \in [Paths -> SUBSET Attempts] /\ untracked \in [Paths -> SUBSET Attempts]
  BY DEF WtIInv, WtTyped
<1>3. modified' \in [Paths -> SUBSET Attempts] /\ untracked' \in [Paths -> SUBSET Attempts]
  BY <1>1, <1>2
<1>4. \A p \in Paths : /\ modified[p] \subseteq modified'[p] /\ untracked[p] \subseteq untracked'[p]
                       /\ \A f \in modified'[p] : f \in modified[p] \/ (f = e /\ p = q)
                       /\ \A f \in untracked'[p] : f \in untracked[p] \/ (f = e /\ p = q)
                       /\ p # q \/ q \notin refs => modified'[p] = modified[p] /\ untracked'[p] = untracked[p]
  BY <1>1, <1>2
<1>5. \A p \in Paths : p \notin refs => modified'[p] \cup untracked'[p] = {}
  BY <1>4 DEF WtIInv, ChangesPlaced, Uncommitted
<1> QED BY <1>3, <1>4, <1>5 DEF Uncommitted

LEMMA EndKeeps == ASSUME WtIInv, NEW e \in Attempts, End(e) PROVE WtIInv'
<1> USE DEF WtIInv
<1>1. /\ work[e].at = "working" /\ work[e].path \in Paths /\ Edits(e)
      /\ UNCHANGED <<pooled, refs, commits, head, free, held, verify, doubled, strayed, restarts>>
  BY PathNames DEF End, PlacesFixed, slotVars, wtHistory
<1>2. PICK s \in {"leaving", "left", "merging"} : Goto(e, s)
  BY DEF End
<1>3. loose' = loose \/ loose' = loose \cup {e}
  BY DEF End, ended
<1>4. /\ work' \in [Attempts -> Place]
      /\ \A f \in Attempts :
           /\ work'[f].task = work[f].task /\ work'[f].path = work[f].path
           /\ work'[f].at = IF f = e THEN s ELSE work[f].at
           /\ work'[f].at = "away" <=> work[f].at = "away"
           /\ work[f].at = "left" => work'[f].at = "left"
  BY <1>1, <1>2, GotoGoesOn
<1>5. GoesOn
  <2>1. \A f \in loose : f \in Attempts /\ work[f].at \notin {"away", "adding", "working"}
    BY DEF PlacesFixed
  <2>2. \A f \in loose' : f \in Attempts /\ work'[f].at \notin {"away", "adding", "working"}
    BY <1>2, <1>3, <1>4, <2>1
  <2> QED BY <1>1, <1>3, <1>4, <2>2 DEF GoesOn
<1>6. PlacesFixed' /\ PoolKept' /\ OneAtWork' /\ LostSlotsAreRetried'
  BY <1>5, PoolStays
<1>7. /\ modified' \in [Paths -> SUBSET Attempts] /\ untracked' \in [Paths -> SUBSET Attempts]
      /\ \A p \in Paths : \A f \in modified'[p] \cup untracked'[p] :
           f \in Uncommitted(p) \/ (f = e /\ p = work[e].path)
      /\ \A p \in Paths : p \notin refs' => modified'[p] \cup untracked'[p] = {}
  BY <1>1, EditsTyped
<1>8. AddsOwn
  BY <1>1, <1>4, <1>7 DEF AddsOwn
<1>9. \A f \in Attempts : work'[f].at = "releasing" => work[f].at = "releasing"
  BY <1>4
<1>10. ChangesPlaced' /\ NothingHandedOn' /\ WorkspaceHasItsOwn'
  BY <1>5, <1>7, <1>8, <1>9, ChangesStay
<1>11. WtTyped'
  BY <1>1, <1>4, <1>7 DEF WtTyped
<1>12. VerifyTyped' /\ OnItsBranch' /\ MainMovesOnlyAstray'
  BY <1>1, VerifyStays
<1> QED BY <1>6, <1>10, <1>11, <1>12

LEMMA OutliveKeeps == ASSUME WtIInv, NEW e \in Attempts, Outlive(e) PROVE WtIInv'
<1> USE DEF WtIInv
<1>1. /\ e \in loose /\ Edits(e)
      /\ UNCHANGED <<pooled, refs, commits, head, free, held, work, loose, verify, doubled, strayed,
                     restarts>>
  BY DEF Outlive, slotVars, ended, wtHistory
<1>2. work[e].path \in Paths
  BY <1>1, PathNames DEF PlacesFixed
<1>3. GoesOn
  BY <1>1 DEF GoesOn, WtTyped, PlacesFixed
<1>4. PlacesFixed' /\ PoolKept' /\ OneAtWork' /\ LostSlotsAreRetried'
  BY <1>3, PoolStays
<1>5. /\ modified' \in [Paths -> SUBSET Attempts] /\ untracked' \in [Paths -> SUBSET Attempts]
      /\ \A p \in Paths : \A f \in modified'[p] \cup untracked'[p] :
           f \in Uncommitted(p) \/ (f = e /\ p = work[e].path)
      /\ \A p \in Paths : p \notin refs' => modified'[p] \cup untracked'[p] = {}
  BY <1>1, <1>2, EditsTyped
<1>6. AddsOwn
  BY <1>1, <1>5 DEF AddsOwn
<1>7. ChangesPlaced' /\ NothingHandedOn' /\ WorkspaceHasItsOwn'
  BY <1>1, <1>3, <1>5, <1>6, ChangesStay
<1>8. WtTyped'
  BY <1>1, <1>5 DEF WtTyped
<1>9. VerifyTyped' /\ OnItsBranch' /\ MainMovesOnlyAstray'
  BY <1>1, VerifyStays
<1> QED BY <1>4, <1>7, <1>8, <1>9

LEMMA MergeBackKeeps == ASSUME WtIInv, NEW e \in Attempts, MergeBack(e) PROVE WtIInv'
<1> USE DEF WtIInv
<1>1. /\ work[e].at = "merging"
      /\ UNCHANGED <<pooled, refs, commits, modified, untracked, head, free, held, loose, verify,
                     doubled, strayed, restarts>>
  BY DEF MergeBack, slotVars, ended, wtHistory, git
<1>2. PICK s \in {"committing", "leaving"} : Goto(e, s)
  BY DEF MergeBack
<1>3. GoesOn
  BY <1>1, <1>2, GotoKeeps
<1>4. \A f \in Attempts : work'[f].at = "releasing" => work[f].at = "releasing"
  BY <1>1, <1>2, GotoGoesOn
<1>5. PlacesFixed' /\ PoolKept' /\ OneAtWork' /\ LostSlotsAreRetried'
  BY <1>3, PoolStays
<1>6. ChangesPlaced' /\ NothingHandedOn' /\ WorkspaceHasItsOwn'
  BY <1>1, <1>3, <1>4, ChangesUntouched
<1>7. WtTyped'
  BY <1>1, <1>3 DEF WtTyped, GoesOn
<1>8. VerifyTyped' /\ OnItsBranch' /\ MainMovesOnlyAstray'
  BY <1>1, VerifyStays
<1> QED BY <1>5, <1>6, <1>7, <1>8

\* Nothing is left uncommitted at a path.
LEMMA Emptied ==
  ASSUME WtTyped, NEW t \in Paths,
         modified' = [modified EXCEPT ![t] = {}], untracked' = [untracked EXCEPT ![t] = {}]
  PROVE  /\ modified' \in [Paths -> SUBSET Attempts] /\ untracked' \in [Paths -> SUBSET Attempts]
         /\ modified'[t] \cup untracked'[t] = {}
         /\ \A p \in Paths : p # t => modified'[p] \cup untracked'[p] = Uncommitted(p)
BY DEF WtTyped, Uncommitted

LEMMA CommitWorkKeeps == ASSUME WtIInv, NEW e \in Attempts, CommitWork(e) PROVE WtIInv'
<1> USE DEF WtIInv
<1> PICK t : t = TaskOf(e)
  OBVIOUS
<1>1. /\ work[e].at = "committing" /\ Goto(e, "leaving") /\ t \in WTasks
      /\ UNCHANGED <<pooled, refs, head, free, held, loose, verify, doubled, strayed, restarts>>
  BY DEF CommitWork, PlacesFixed, slotVars, ended, wtHistory
<1>2. \/ UNCHANGED <<commits, modified, untracked>>
      \/ /\ commits' = [commits EXCEPT ![t] = @ \cup Uncommitted(t)]
         /\ modified' = [modified EXCEPT ![t] = {}] /\ untracked' = [untracked EXCEPT ![t] = {}]
  BY DEF CommitWork
<1>3. GoesOn
  BY <1>1, GotoKeeps
<1>4. \A f \in Attempts : work'[f].at = "releasing" => work[f].at = "releasing"
  BY <1>1, GotoGoesOn
<1>5. PlacesFixed' /\ PoolKept' /\ OneAtWork' /\ LostSlotsAreRetried'
  BY <1>3, PoolStays
<1>6. /\ modified' \in [Paths -> SUBSET Attempts] /\ untracked' \in [Paths -> SUBSET Attempts]
      /\ \A p \in Paths : modified'[p] \cup untracked'[p] \subseteq Uncommitted(p)
  <2>1. t \in Paths
    BY <1>1, PathNames
  <2>2. CASE UNCHANGED <<commits, modified, untracked>>
    BY <2>2 DEF WtTyped, Uncommitted
  <2>3. CASE modified' = [modified EXCEPT ![t] = {}] /\ untracked' = [untracked EXCEPT ![t] = {}]
    BY <2>1, <2>3, Emptied
  <2> QED BY <1>2, <2>2, <2>3
<1>7. AddsOwn
  BY <1>6 DEF AddsOwn
<1>8. \A p \in Paths : p \notin refs' => modified'[p] \cup untracked'[p] = {}
  BY <1>1, <1>6 DEF ChangesPlaced
<1>9. ChangesPlaced' /\ NothingHandedOn' /\ WorkspaceHasItsOwn'
  BY <1>3, <1>4, <1>7, <1>8, ChangesStay
<1>10. commits' \in [Branches -> SUBSET Attempts] /\ commits'["main"] = commits["main"]
  <2>1. /\ t \in Branches /\ t # "main" /\ Uncommitted(t) \subseteq Attempts
        /\ commits \in [Branches -> SUBSET Attempts] /\ "main" \in Branches
    <3>1. t \in Paths /\ t \in Branches /\ t # "main" /\ "main" \in Branches
      BY <1>1, PathNames
    <3> QED BY <3>1 DEF WtTyped, Uncommitted
  <2>2. CASE commits' = [commits EXCEPT ![t] = commits[t] \cup Uncommitted(t)]
    <3>1. commits[t] \cup Uncommitted(t) \in SUBSET Attempts
      BY <2>1
    <3> QED BY <2>1, <2>2, <3>1
  <2>3. CASE commits' = commits
    BY <2>1, <2>3
  <2> QED BY <1>2, <2>1, <2>2, <2>3
<1>11. WtTyped'
  BY <1>1, <1>3, <1>6, <1>10 DEF WtTyped, GoesOn
<1>12. VerifyTyped' /\ OnItsBranch' /\ MainMovesOnlyAstray'
  BY <1>1, <1>10, VerifyStays
<1> QED BY <1>5, <1>9, <1>11, <1>12

LEMMA LeaveKeeps == ASSUME WtIInv, NEW e \in Attempts, Leave(e) PROVE WtIInv'
<1> USE DEF WtIInv
<1>1. /\ work[e].at = "leaving" /\ Present(e)
      /\ UNCHANGED <<pooled, refs, commits, modified, untracked, head, free, held, loose, verify,
                     doubled, strayed, restarts>>
  BY DEF Leave, slotVars, ended, wtHistory, git, Present
<1>2. PICK s \in {"left", "releasing"} : Goto(e, s) /\ (s = "releasing" => ~IsDirty(TaskOf(e)))
  BY DEF Leave
<1>3. GoesOn
  BY <1>1, <1>2, GotoKeeps
<1>4. \A f \in Attempts : work'[f].at = IF f = e THEN s ELSE work[f].at
  BY <1>1, <1>2, GotoGoesOn
<1>5. PlacesFixed' /\ PoolKept' /\ OneAtWork' /\ LostSlotsAreRetried'
  BY <1>3, PoolStays
<1>6. ASSUME ~doubled, s = "releasing" PROVE Uncommitted(work[e].path) = {}
  <2>1. PathOf(TaskOf(e)) = work[e].path /\ work[e].path \in Paths
    BY <1>1, <1>6, PathsDiffer
  <2>2. work[e].path \notin refs \/ Uncommitted(work[e].path) = {}
    BY <1>2, <1>6, <2>1 DEF IsDirty, Stands
  <2> QED BY <2>1, <2>2 DEF ChangesPlaced
<1>7. AddsOwn
  BY <1>1 DEF AddsOwn, Uncommitted
<1>8. \A p \in Paths : p \notin refs' => modified'[p] \cup untracked'[p] = {}
  BY <1>1 DEF ChangesPlaced, Uncommitted
<1>9. ASSUME NEW f \in Attempts, work'[f].at = "releasing", work[f].at # "releasing", ~doubled
      PROVE  modified'[work[f].path] \cup untracked'[work[f].path] \subseteq loose'
  <2>1. f = e /\ s = "releasing"
    BY <1>4, <1>9
  <2> QED BY <1>1, <1>6, <1>9, <2>1 DEF Uncommitted
<1>10. ChangesPlaced' /\ NothingHandedOn' /\ WorkspaceHasItsOwn'
  BY <1>3, <1>7, <1>8, <1>9, ChangesStay
<1>11. WtTyped'
  BY <1>1, <1>3 DEF WtTyped, GoesOn
<1>12. VerifyTyped' /\ OnItsBranch' /\ MainMovesOnlyAstray'
  BY <1>1, VerifyStays
<1> QED BY <1>5, <1>10, <1>11, <1>12

\* A workspace is taken: what there was before of other attempts stays.
LEMMA Entering ==
  ASSUME WtIInv, NEW e \in Attempts, NEW t \in WTasks, NEW p \in Paths,
         NEW s \in {"adding", "working"}, Starts(e, t), Entered(e, t, p, s),
         IF pooled THEN p \in ToSet(Slots) ELSE p = t, UNCHANGED <<pooled, loose>>
  PROVE  /\ work' \in [Attempts -> Place] /\ PlacesFixed'
         /\ work'[e].at = s /\ work'[e].task = t /\ work'[e].path = p
         /\ \A f \in Attempts : f # e => work'[f] = work[f]
         /\ work[e].at = "away" /\ TaskOf(e) = Unheld /\ work[e].path = Unheld
         /\ ~doubled' => ~doubled /\ \A f \in Attempts : Present(f) => TaskOf(f) # t
<1> USE DEF WtIInv
<1> PICK new : new = [at |-> s, task |-> t, path |-> p]
  OBVIOUS
<1>1. /\ work[e].at = "away" /\ TaskOf(e) = Unheld /\ work[e].path = Unheld
      /\ \A f \in 1..e - 1 : work[f].at # "away"
  BY DEF Starts, PlacesFixed
<1>2. new = [Away EXCEPT !.at = s, !.task = t, !.path = p]
  <2> PICK a : a = [at |-> s, task |-> Unheld, path |-> Unheld]
    OBVIOUS
  <2> PICK b : b = [at |-> s, task |-> t, path |-> Unheld]
    OBVIOUS
  <2>1. [Away EXCEPT !.at = s] = a
    BY DEF Away
  <2>2. [a EXCEPT !.task = t] = b
    OBVIOUS
  <2>3. [b EXCEPT !.path = p] = new
    OBVIOUS
  <2> QED BY <2>1, <2>2, <2>3
<1>3. new \in Place /\ new.at = s /\ new.task = t /\ new.path = p
  BY DEF Place
<1>4. work' = [work EXCEPT ![e] = new]
  BY <1>2 DEF Entered
<1>5. /\ work' \in [Attempts -> Place] /\ work'[e] = new
      /\ \A f \in Attempts : f # e => work'[f] = work[f]
  BY <1>3, <1>4 DEF WtTyped
<1>6. \A f \in Attempts : f # e => TaskOf(f)' = TaskOf(f)
  BY <1>5 DEF TaskOf
<1>7. PlacesFixed'
  <2>1. ASSUME NEW f \in Attempts
        PROVE  IF work'[f].at = "away" THEN TaskOf(f)' = Unheld /\ work'[f].path = Unheld
               ELSE /\ TaskOf(f)' \in WTasks
                    /\ IF pooled THEN work'[f].path \in ToSet(Slots) ELSE work'[f].path = TaskOf(f)'
    <3>1. CASE f = e
      BY <1>3, <1>5, <3>1 DEF TaskOf
    <3>2. CASE f # e
      BY <1>5, <1>6, <3>2 DEF PlacesFixed
    <3> QED BY <3>1, <3>2
  <2>2. ASSUME NEW a \in Attempts, NEW b \in Attempts, b < a, work'[a].at # "away"
        PROVE  work'[b].at # "away"
    <3>1. CASE b = e
      BY <1>3, <1>5, <3>1
    <3>2. CASE b # e /\ a = e
      <4>1. b \in 1..e - 1
        BY <2>2, <3>2, WtConstants DEF Attempts
      <4> QED BY <1>1, <1>5, <3>2, <4>1
    <3>3. CASE b # e /\ a # e
      BY <1>5, <2>2, <3>3 DEF PlacesFixed
    <3> QED BY <3>1, <3>2, <3>3
  <2>3. \A f \in loose' : f \in Attempts /\ work'[f].at \notin {"away", "adding", "working"}
    <3>1. e \notin loose
      BY <1>1 DEF PlacesFixed
    <3> QED BY <1>5, <3>1 DEF PlacesFixed
  <2> QED BY <2>1, <2>2, <2>3 DEF PlacesFixed
<1>8. ~doubled' => ~doubled /\ \A f \in Attempts : Present(f) => TaskOf(f) # t
  BY DEF Entered
<1> QED BY <1>1, <1>3, <1>5, <1>7, <1>8

\* The attempts at work afterwards are those before, and the one that starts.
LEMMA EnteredAlone ==
  ASSUME NEW e \in Attempts, NEW t, ~doubled, OneAtWork, work[e].at = "away",
         work'[e].task = t, \A f \in Attempts : f # e => work'[f] = work[f],
         \A f \in Attempts : Present(f) => TaskOf(f) # t
  PROVE  /\ \A f \in Attempts : f # e => (Present(f)' <=> Present(f)) /\ TaskOf(f)' = TaskOf(f)
         /\ \A f, g \in Attempts : f # g /\ Present(f)' /\ Present(g)' => TaskOf(f)' # TaskOf(g)'
<1>1. \A f \in Attempts : f # e => (Present(f)' <=> Present(f)) /\ TaskOf(f)' = TaskOf(f)
  BY DEF Present, TaskOf
<1>2. \A f, g \in Attempts : f # g /\ Present(f) /\ Present(g) => TaskOf(f) # TaskOf(g)
  BY DEF OneAtWork
<1>3. TaskOf(e)' = t
  BY DEF TaskOf
<1> QED BY <1>1, <1>2, <1>3

LEMMA ClearKeeps ==
  ASSUME WtIInv, NEW e \in Attempts, NEW t \in WTasks, Clear(e, t) PROVE WtIInv'
<1> USE DEF WtIInv
<1>1. /\ ~pooled /\ Starts(e, t) /\ Entered(e, t, t, "adding")
      /\ refs' = refs \ {t} /\ commits' = [commits EXCEPT ![t] = {}]
      /\ modified' = [modified EXCEPT ![t] = {}] /\ untracked' = [untracked EXCEPT ![t] = {}]
      /\ UNCHANGED <<pooled, head, free, held, loose, verify, strayed, restarts>>
  BY DEF Clear, Delete, slotVars, ended
<1>2. /\ t \in Paths /\ t \in Branches /\ t # "main" /\ "main" \in Branches
      /\ t \notin Verifiers
  BY PathNames
<1>3. /\ work' \in [Attempts -> Place] /\ PlacesFixed'
      /\ work'[e].at = "adding" /\ work'[e].task = t /\ work'[e].path = t
      /\ \A f \in Attempts : f # e => work'[f] = work[f]
      /\ work[e].at = "away" /\ TaskOf(e) = Unheld /\ work[e].path = Unheld
      /\ ~doubled' => ~doubled /\ \A f \in Attempts : Present(f) => TaskOf(f) # t
  BY <1>1, <1>2, Entering
<1>4. /\ modified' \in [Paths -> SUBSET Attempts] /\ untracked' \in [Paths -> SUBSET Attempts]
      /\ modified'[t] \cup untracked'[t] = {}
      /\ \A p \in Paths : p # t => modified'[p] \cup untracked'[p] = Uncommitted(p)
  BY <1>1, <1>2, Emptied
<1>5. commits' \in [Branches -> SUBSET Attempts] /\ commits'["main"] = commits["main"]
  BY <1>1, <1>2 DEF WtTyped
<1>6. WtTyped'
  BY <1>1, <1>2, <1>3, <1>4, <1>5 DEF WtTyped
<1>7. free = <<>> /\ ToSet(free) = {} /\ \A u \in WTasks : held[u] = Unheld
  <2>1. free = <<>> /\ DOMAIN <<>> = {}
    BY <1>1, EmptySeq DEF PoolKept
  <2> QED BY <1>1, <2>1 DEF PoolKept, ToSet
<1>8. PoolKept'
  BY <1>1, <1>7 DEF PoolKept
<1>9. LostSlotsAreRetried'
  BY <1>1 DEF LostSlotsAreRetried
<1>10. ASSUME ~doubled'
       PROVE  /\ \A f \in Attempts : f # e => (Present(f)' <=> Present(f)) /\ TaskOf(f)' = TaskOf(f)
              /\ \A f, g \in Attempts : f # g /\ Present(f)' /\ Present(g)' => TaskOf(f)' # TaskOf(g)'
  BY <1>3, <1>10, EnteredAlone
<1>11. OneAtWork'
  BY <1>1, <1>10 DEF OneAtWork
<1>12. ChangesPlaced'
  <2> SUFFICES ASSUME NEW p \in Paths
               PROVE  /\ p \notin refs' => modified'[p] \cup untracked'[p] = {}
                      /\ \A f \in modified'[p] \cup untracked'[p] : work'[f].path = p
    BY DEF ChangesPlaced, Uncommitted
  <2>1. CASE p = t
    BY <1>4, <2>1
  <2>2. CASE p # t
    <3>1. \A f \in Uncommitted(p) : f \in Attempts /\ work[f].path = p /\ f # e
      BY <1>3, PathNames DEF ChangesPlaced, WtTyped, Uncommitted
    <3> QED BY <1>1, <1>3, <1>4, <2>2, <3>1 DEF ChangesPlaced
  <2> QED BY <2>1, <2>2
<1>13. NothingHandedOn'
  <2> SUFFICES ASSUME ~doubled', NEW f \in Attempts, work'[f].at = "releasing"
               PROVE  modified'[work'[f].path] \cup untracked'[work'[f].path] \subseteq loose
    BY <1>1, <1>7 DEF NothingHandedOn, Uncommitted
  <2>1. f # e /\ work'[f] = work[f] /\ work[f].at = "releasing"
    BY <1>3
  <2>2. work[f].path \in Paths /\ Uncommitted(work[f].path) \subseteq loose
    BY <1>1, <1>3, <2>1, PathNames DEF NothingHandedOn, PlacesFixed
  <2>3. modified'[work[f].path] \cup untracked'[work[f].path] \subseteq Uncommitted(work[f].path)
    BY <1>4, <2>2
  <2> QED BY <2>1, <2>2, <2>3
<1>14. WorkspaceHasItsOwn'
  <2> SUFFICES ASSUME ~doubled', NEW f \in Attempts, Present(f)'
               PROVE  modified'[work'[f].path] \cup untracked'[work'[f].path] \subseteq {f} \cup loose
    BY <1>1 DEF WorkspaceHasItsOwn, Uncommitted
  <2>1. CASE f = e
    BY <1>3, <1>4, <2>1
  <2>2. CASE f # e
    <3>1. Present(f) /\ work'[f] = work[f]
      BY <1>3, <1>10, <2>2
    <3>2. work[f].path \in Paths /\ Uncommitted(work[f].path) \subseteq {f} \cup loose
      BY <1>1, <1>3, <3>1, PathNames DEF WorkspaceHasItsOwn, PlacesFixed, Present
    <3>3. modified'[work[f].path] \cup untracked'[work[f].path] \subseteq Uncommitted(work[f].path)
      BY <1>4, <3>2
    <3> QED BY <3>1, <3>2, <3>3
  <2> QED BY <2>1, <2>2
<1>15. VerifyTyped' /\ OnItsBranch' /\ MainMovesOnlyAstray'
  BY <1>1, <1>5, VerifyStays
<1> QED BY <1>3, <1>6, <1>8, <1>9, <1>11, <1>12, <1>13, <1>14, <1>15

LEMMA TakeKeeps ==
  ASSUME WtIInv, NEW e \in Attempts, NEW t \in WTasks, Take(e, t) PROVE WtIInv'
<1> USE DEF WtIInv
<1> PICK s : s = Head(free)
  OBVIOUS
<1>1. /\ pooled /\ Starts(e, t) /\ Entered(e, t, s, "working") /\ free # <<>>
      /\ free' = Tail(free) /\ held' = [held EXCEPT ![t] = s]
      /\ untracked' = [untracked EXCEPT ![s] = {}]
      /\ UNCHANGED <<pooled, refs, commits, modified, head, loose, verify, strayed, restarts>>
  BY DEF Take, ended
<1>2. /\ free' \in Seq(ToSet(Slots)) /\ s \in ToSet(Slots) /\ IsInjective(free')
      /\ ToSet(free) = {s} \cup ToSet(free') /\ s \notin ToSet(free')
  <2>1. free \in Seq(ToSet(Slots)) /\ IsInjective(free)
    BY DEF WtTyped, PoolKept
  <2>2. /\ Tail(free) \in Seq(ToSet(Slots)) /\ Head(free) \in ToSet(Slots)
        /\ IsInjective(Tail(free)) /\ ToSet(free) = {Head(free)} \cup ToSet(Tail(free))
        /\ Head(free) \notin ToSet(Tail(free))
    BY <1>1, <2>1, FirstFree
  <2> QED BY <1>1, <2>2
<1>3. s \in Paths /\ s # Unheld
  BY <1>2, PathNames
<1>4. /\ work' \in [Attempts -> Place] /\ PlacesFixed'
      /\ work'[e].at = "working" /\ work'[e].task = t /\ work'[e].path = s
      /\ \A f \in Attempts : f # e => work'[f] = work[f]
      /\ work[e].at = "away" /\ TaskOf(e) = Unheld /\ work[e].path = Unheld
      /\ ~doubled' => ~doubled /\ \A f \in Attempts : Present(f) => TaskOf(f) # t
  BY <1>1, <1>2, <1>3, Entering
<1>5. \A f \in Attempts : f # e => TaskOf(f)' = TaskOf(f)
  BY <1>4 DEF TaskOf
<1>6. /\ held' \in [WTasks -> ToSet(Slots) \cup {Unheld}] /\ held'[t] = s
      /\ \A u \in WTasks : u # t => held'[u] = held[u]
  BY <1>1, <1>2 DEF WtTyped
<1>7. /\ untracked' \in [Paths -> SUBSET Attempts] /\ untracked'[s] = {}
      /\ \A p \in Paths : modified'[p] \cup untracked'[p] \subseteq Uncommitted(p)
  BY <1>1, <1>3 DEF WtTyped, Uncommitted
<1>8. WtTyped'
  BY <1>1, <1>2, <1>4, <1>6, <1>7 DEF WtTyped
<1>9. PoolKept'
  <2>1. \A u \in WTasks : held[u] \notin ToSet(free)
    BY DEF PoolKept
  <2>2. \A u \in WTasks : held'[u] \notin ToSet(free')
    BY <1>2, <1>6, <2>1
  <2>3. \A u, v \in WTasks : held'[u] = held'[v] /\ held'[u] # Unheld => u = v
    BY <1>2, <1>6, <2>1 DEF PoolKept
  <2>4. ASSUME NEW u \in WTasks, held'[u] # Unheld
        PROVE  \E f \in Attempts : work'[f].path = held'[u] /\ TaskOf(f)' = u
    <3>1. CASE u = t
      BY <1>4, <1>6, <3>1 DEF TaskOf
    <3>2. CASE u # t
      <4> PICK f \in Attempts : work[f].path = held[u] /\ TaskOf(f) = u
        BY <1>6, <2>4, <3>2 DEF PoolKept
      <4>1. f # e
        BY <1>4, PathNames
      <4> QED BY <1>4, <1>5, <1>6, <3>2, <4>1
    <3> QED BY <3>1, <3>2
  <2> QED BY <1>1, <1>2, <2>2, <2>3, <2>4 DEF PoolKept
<1>10. LostSlotsAreRetried'
  <2> SUFFICES ASSUME NEW x \in ToSet(Slots) \ ToSet(free')
               PROVE  \/ \E u \in WTasks : held'[u] = x
                      \/ \E f, g \in Attempts :
                           f < g /\ work'[f].path = x /\ TaskOf(f)' = TaskOf(g)'
    BY DEF LostSlotsAreRetried
  <2>1. CASE x = s
    BY <1>6, <2>1
  <2>2. CASE x # s /\ \E u \in WTasks : held[u] = x
    <3> PICK u \in WTasks : held[u] = x
      BY <2>2
    <3>1. CASE u # t
      BY <1>6, <3>1
    <3>2. CASE u = t
      <4>1. x # Unheld
        BY PathNames
      <4> PICK f \in Attempts : work[f].path = x /\ TaskOf(f) = t
        BY <3>2, <4>1 DEF PoolKept
      <4>2. f # e /\ work[f].at # "away"
        BY <1>4, <4>1 DEF PlacesFixed
      <4>3. ~(e < f)
        BY <1>4, <4>2 DEF PlacesFixed
      <4>4. f < e
        BY <4>2, <4>3, AttemptNumbers
      <4>5. work'[f].path = x /\ TaskOf(f)' = t /\ TaskOf(e)' = t
        BY <1>4, <1>5, <4>2 DEF TaskOf
      <4> QED BY <4>4, <4>5
    <3> QED BY <3>1, <3>2
  <2>3. CASE x # s /\ ~\E u \in WTasks : held[u] = x
    <3>1. x \in ToSet(Slots) \ ToSet(free)
      BY <1>2, <2>3
    <3> PICK f \in Attempts, g \in Attempts : f < g /\ work[f].path = x /\ TaskOf(f) = TaskOf(g)
      BY <1>1, <2>3, <3>1 DEF LostSlotsAreRetried
    <3>2. f # e /\ work[f].at # "away"
      BY <1>4, PathNames DEF PlacesFixed
    <3>3. TaskOf(f) # Unheld
      BY <3>2, PathNames DEF PlacesFixed
    <3>4. g # e
      BY <1>4, <3>3
    <3> QED BY <1>4, <1>5, <3>2, <3>4
  <2> QED BY <2>1, <2>2, <2>3
<1>11. ASSUME ~doubled'
       PROVE  /\ ~doubled
              /\ \A f \in Attempts : f # e => (Present(f)' <=> Present(f)) /\ TaskOf(f)' = TaskOf(f)
              /\ \A f, g \in Attempts : f # g /\ Present(f)' /\ Present(g)' => TaskOf(f)' # TaskOf(g)'
  BY <1>4, <1>11, EnteredAlone
<1>12. OneAtWork'
  <2> SUFFICES ASSUME ~doubled', NEW f \in Attempts, Present(f)'
               PROVE  held'[TaskOf(f)'] = work'[f].path
    BY <1>11 DEF OneAtWork
  <2>1. CASE f = e
    BY <1>4, <1>6, <2>1 DEF TaskOf
  <2>2. CASE f # e
    <3>1. Present(f) /\ TaskOf(f)' = TaskOf(f) /\ work'[f] = work[f] /\ ~doubled
      BY <1>4, <1>11, <2>2
    <3>2. held[TaskOf(f)] = work[f].path /\ TaskOf(f) # t /\ TaskOf(f) \in WTasks
      BY <1>1, <1>4, <3>1 DEF OneAtWork, PlacesFixed, Present
    <3>3. held'[TaskOf(f)] = held[TaskOf(f)]
      BY <1>6, <3>2
    <3> QED BY <3>1, <3>2, <3>3
  <2> QED BY <2>1, <2>2
<1>13. ChangesPlaced'
  <2> SUFFICES ASSUME NEW p \in Paths
               PROVE  /\ p \notin refs' => modified'[p] \cup untracked'[p] = {}
                      /\ \A f \in modified'[p] \cup untracked'[p] : work'[f].path = p
    BY DEF ChangesPlaced, Uncommitted
  <2>1. \A f \in Uncommitted(p) : f \in Attempts /\ work[f].path = p /\ f # e
    BY <1>4, PathNames DEF ChangesPlaced, WtTyped, Uncommitted
  <2>2. p \notin refs => Uncommitted(p) = {}
    BY DEF ChangesPlaced
  <2> QED BY <1>1, <1>4, <1>7, <2>1, <2>2
<1>14. ~doubled' => /\ \A x \in ToSet(free) : Uncommitted(x) \subseteq loose
                    /\ \A x \in ToSet(free) : x \in Paths
  BY <1>11, FreeSlots, PathNames DEF NothingHandedOn
<1>15. NothingHandedOn'
  <2>1. ASSUME ~doubled', NEW x \in ToSet(free')
        PROVE  modified'[x] \cup untracked'[x] \subseteq loose'
    <3>1. x \in ToSet(free) /\ x \in Paths /\ Uncommitted(x) \subseteq loose
      BY <1>2, <1>14, <2>1
    <3> QED BY <1>1, <1>7, <3>1
  <2>2. ASSUME ~doubled', NEW f \in Attempts, work'[f].at = "releasing"
        PROVE  modified'[work'[f].path] \cup untracked'[work'[f].path] \subseteq loose'
    <3>1. f # e /\ work'[f] = work[f] /\ work[f].at = "releasing"
      BY <1>4, <2>2
    <3>2. work[f].path \in Paths /\ Uncommitted(work[f].path) \subseteq loose
      BY <1>1, <1>11, <2>2, <3>1, PathNames DEF NothingHandedOn, PlacesFixed
    <3>3. modified'[work[f].path] \cup untracked'[work[f].path] \subseteq Uncommitted(work[f].path)
      BY <1>7, <3>2
    <3> QED BY <1>1, <3>1, <3>2, <3>3
  <2> QED BY <2>1, <2>2 DEF NothingHandedOn, Uncommitted
<1>16. WorkspaceHasItsOwn'
  <2> SUFFICES ASSUME ~doubled', NEW f \in Attempts, Present(f)'
               PROVE  modified'[work'[f].path] \cup untracked'[work'[f].path] \subseteq {f} \cup loose
    BY <1>1 DEF WorkspaceHasItsOwn, Uncommitted
  <2>1. CASE f = e
    <3>1. s \in ToSet(free)
      BY <1>2
    <3>2. Uncommitted(s) \subseteq loose
      BY <1>14, <3>1
    <3> QED BY <1>3, <1>4, <1>7, <2>1, <3>2
  <2>2. CASE f # e
    <3>1. Present(f) /\ work'[f] = work[f] /\ ~doubled
      BY <1>4, <1>11, <2>2
    <3>2. work[f].path \in Paths /\ Uncommitted(work[f].path) \subseteq {f} \cup loose
      BY <1>1, <3>1, PathNames DEF WorkspaceHasItsOwn, PlacesFixed, Present
    <3>3. modified'[work[f].path] \cup untracked'[work[f].path] \subseteq Uncommitted(work[f].path)
      BY <1>7, <3>2
    <3> QED BY <3>1, <3>2, <3>3
  <2> QED BY <2>1, <2>2
<1>17. VerifyTyped' /\ OnItsBranch' /\ MainMovesOnlyAstray'
  BY <1>1, VerifyStays
<1> QED BY <1>4, <1>8, <1>9, <1>10, <1>12, <1>13, <1>15, <1>16, <1>17

LEMMA ReleaseKeeps == ASSUME WtIInv, NEW e \in Attempts, Release(e) PROVE WtIInv'
<1> USE DEF WtIInv
<1> PICK t : t = TaskOf(e)
  OBVIOUS
<1>1. /\ work[e].at = "releasing" /\ Goto(e, "left") /\ Present(e) /\ t \in WTasks
      /\ UNCHANGED <<pooled, head, loose, verify, doubled, strayed, restarts>>
  BY DEF Release, PlacesFixed, Present, ended, wtHistory, git
<1>2. /\ work' \in [Attempts -> Place]
      /\ \A f \in Attempts :
           /\ work'[f].task = work[f].task /\ work'[f].path = work[f].path
           /\ work'[f].at = IF f = e THEN "left" ELSE work[f].at
           /\ work'[f].at = "away" <=> work[f].at = "away"
           /\ work[f].at = "left" => work'[f].at = "left"
  BY <1>1, GotoGoesOn
<1>3. t \in Paths /\ t \in Branches /\ t # "main" /\ t \notin Verifiers /\ "main" \in Branches
  BY <1>1, PathNames
<1>4. CASE ~pooled
  <2>1. /\ refs' = refs \ {t} /\ commits' = [commits EXCEPT ![t] = {}]
        /\ modified' = [modified EXCEPT ![t] = {}] /\ untracked' = [untracked EXCEPT ![t] = {}]
        /\ UNCHANGED <<free, held>>
    BY <1>4 DEF Release, Delete, slotVars
  <2>2. GoesOn
    BY <1>1, <2>1, GotoKeeps
  <2>3. /\ modified' \in [Paths -> SUBSET Attempts] /\ untracked' \in [Paths -> SUBSET Attempts]
        /\ modified'[t] \cup untracked'[t] = {}
        /\ \A p \in Paths : p # t => modified'[p] \cup untracked'[p] = Uncommitted(p)
    BY <1>3, <2>1, Emptied
  <2>4. PlacesFixed' /\ PoolKept' /\ OneAtWork' /\ LostSlotsAreRetried'
    BY <2>2, PoolStays
  <2>5. AddsOwn
    BY <2>3 DEF AddsOwn
  <2>6. \A p \in Paths : p \notin refs' => modified'[p] \cup untracked'[p] = {}
    BY <2>1, <2>3 DEF ChangesPlaced
  <2>7. \A f \in Attempts : work'[f].at = "releasing" => work[f].at = "releasing"
    BY <1>2
  <2>8. ChangesPlaced' /\ NothingHandedOn' /\ WorkspaceHasItsOwn'
    BY <2>2, <2>5, <2>6, <2>7, ChangesStay
  <2>9. commits' \in [Branches -> SUBSET Attempts] /\ commits'["main"] = commits["main"]
    BY <1>3, <2>1 DEF WtTyped
  <2>10. WtTyped'
    BY <1>1, <1>2, <1>3, <2>1, <2>3, <2>9 DEF WtTyped
  <2>11. VerifyTyped' /\ OnItsBranch' /\ MainMovesOnlyAstray'
    BY <1>1, <2>9, VerifyStays
  <2> QED BY <2>4, <2>8, <2>10, <2>11
<1>5. CASE pooled
  <2>1. /\ held' = [held EXCEPT ![t] = Unheld]
        /\ free' = IF held[t] = Unheld THEN free ELSE Append(free, held[t])
        /\ UNCHANGED <<refs, commits, modified, untracked>>
    BY <1>5 DEF Release, git
  <2>2. held[t] = Unheld \/ held[t] \in ToSet(Slots)
    BY <1>1 DEF WtTyped
  <2>3. /\ held' \in [WTasks -> ToSet(Slots) \cup {Unheld}] /\ held'[t] = Unheld
        /\ \A u \in WTasks : u # t => held'[u] = held[u]
    BY <1>1, <2>1 DEF WtTyped
  <2>4. /\ free' \in Seq(ToSet(Slots)) /\ IsInjective(free')
        /\ ToSet(free') = IF held[t] = Unheld THEN ToSet(free) ELSE ToSet(free) \cup {held[t]}
    <3>1. free \in Seq(ToSet(Slots)) /\ IsInjective(free) /\ held[t] \notin ToSet(free)
      BY <1>1 DEF WtTyped, PoolKept
    <3>2. CASE held[t] = Unheld
      BY <2>1, <3>1, <3>2
    <3>3. CASE held[t] # Unheld
      <4>1. /\ Append(free, held[t]) \in Seq(ToSet(Slots)) /\ IsInjective(Append(free, held[t]))
            /\ ToSet(Append(free, held[t])) = ToSet(free) \cup {held[t]}
        BY <2>2, <3>1, <3>3, GivenBack
      <4> QED BY <2>1, <3>3, <4>1
    <3> QED BY <3>2, <3>3
  <2>5. WtTyped'
    BY <1>1, <1>2, <2>1, <2>3, <2>4 DEF WtTyped
  <2>6. \A f \in Attempts : /\ TaskOf(f)' = TaskOf(f)
                            /\ Present(f)' => Present(f) /\ f # e
    BY <1>2 DEF TaskOf, Present
  <2>7. PlacesFixed'
    <3>1. \A f \in Attempts :
            IF work'[f].at = "away" THEN TaskOf(f)' = Unheld /\ work'[f].path = Unheld
            ELSE /\ TaskOf(f)' \in WTasks
                 /\ IF pooled THEN work'[f].path \in ToSet(Slots) ELSE work'[f].path = TaskOf(f)'
      BY <1>2, <2>6 DEF PlacesFixed
    <3>2. \A f, g \in Attempts : g < f /\ work'[f].at # "away" => work'[g].at # "away"
      BY <1>2 DEF PlacesFixed
    <3>3. \A f \in loose' : f \in Attempts /\ work'[f].at \notin {"away", "adding", "working"}
      BY <1>1, <1>2 DEF PlacesFixed
    <3> QED BY <1>1, <3>1, <3>2, <3>3 DEF PlacesFixed
  <2>8. PoolKept'
    <3>1. \A u \in WTasks : held'[u] \notin ToSet(free')
      <4> SUFFICES ASSUME NEW u \in WTasks PROVE held'[u] \notin ToSet(free')
        OBVIOUS
      <4>1. \A x \in ToSet(free') : x \in ToSet(Slots)
        BY <2>5, FreeSlots, <2>4, <2>2 DEF WtTyped
      <4>2. CASE u = t
        BY <2>3, <4>1, <4>2, PathNames
      <4>3. CASE u # t
        <5>1. held[u] \notin ToSet(free) /\ (held[u] = held[t] => held[t] = Unheld)
          BY <1>1, <4>3 DEF PoolKept
        <5> QED BY <2>3, <2>4, <4>3, <5>1
      <4> QED BY <4>2, <4>3
    <3>2. \A u, v \in WTasks : held'[u] = held'[v] /\ held'[u] # Unheld => u = v
      BY <2>3 DEF PoolKept
    <3>3. \A u \in WTasks :
            held'[u] # Unheld => \E f \in Attempts : work'[f].path = held'[u] /\ TaskOf(f)' = u
      BY <1>2, <2>3, <2>6 DEF PoolKept
    <3> QED BY <1>1, <1>5, <2>4, <3>1, <3>2, <3>3 DEF PoolKept
  <2>9. OneAtWork'
    <3> SUFFICES ASSUME ~doubled
                 PROVE  /\ \A f, g \in Attempts :
                             f # g /\ Present(f)' /\ Present(g)' => TaskOf(f)' # TaskOf(g)'
                        /\ \A f \in Attempts : Present(f)' => held'[TaskOf(f)'] = work'[f].path
      BY <1>1, <1>5 DEF OneAtWork
    <3>1. \A f, g \in Attempts : f # g /\ Present(f)' /\ Present(g)' => TaskOf(f)' # TaskOf(g)'
      BY <2>6 DEF OneAtWork
    <3>2. ASSUME NEW f \in Attempts, Present(f)' PROVE held'[TaskOf(f)'] = work'[f].path
      <4>1. Present(f) /\ f # e /\ TaskOf(f)' = TaskOf(f)
        BY <2>6, <3>2
      <4>2. TaskOf(f) # t /\ TaskOf(f) \in WTasks /\ held[TaskOf(f)] = work[f].path
        BY <1>1, <1>5, <4>1 DEF OneAtWork, PlacesFixed, Present
      <4> QED BY <1>2, <2>3, <4>1, <4>2
    <3> QED BY <3>1, <3>2
  <2>10. LostSlotsAreRetried'
    <3> SUFFICES ASSUME NEW x \in ToSet(Slots) \ ToSet(free')
                 PROVE  \/ \E u \in WTasks : held'[u] = x
                        \/ \E f, g \in Attempts :
                             f < g /\ work'[f].path = x /\ TaskOf(f)' = TaskOf(g)'
      BY DEF LostSlotsAreRetried
    <3>1. x \notin ToSet(free) /\ x # Unheld /\ x # held[t]
      BY <2>4, PathNames
    <3>2. CASE \E u \in WTasks : held[u] = x
      BY <2>3, <3>1, <3>2
    <3>3. CASE ~\E u \in WTasks : held[u] = x
      <4> PICK f \in Attempts, g \in Attempts : f < g /\ work[f].path = x /\ TaskOf(f) = TaskOf(g)
        BY <1>5, <3>1, <3>3 DEF LostSlotsAreRetried
      <4> QED BY <1>2, <2>6
    <3> QED BY <3>2, <3>3
  <2>11. ChangesPlaced'
    <3> SUFFICES ASSUME NEW p \in Paths
                 PROVE  /\ p \notin refs => Uncommitted(p) = {}
                        /\ \A f \in Uncommitted(p) : work'[f].path = p
      BY <2>1 DEF ChangesPlaced, Uncommitted
    <3>1. \A f \in Uncommitted(p) : f \in Attempts /\ work[f].path = p
      BY DEF ChangesPlaced, WtTyped, Uncommitted
    <3> QED BY <1>2, <3>1 DEF ChangesPlaced
  <2>12. \A p : Uncommitted(p)' = Uncommitted(p)
    BY <2>1 DEF Uncommitted
  <2>13. NothingHandedOn'
    <3> SUFFICES ASSUME ~doubled
                 PROVE  /\ \A f \in Attempts :
                             work'[f].at = "releasing" =>
                               modified'[work'[f].path] \cup untracked'[work'[f].path] \subseteq loose
                        /\ \A x \in ToSet(free') : modified'[x] \cup untracked'[x] \subseteq loose
      BY <1>1 DEF NothingHandedOn, Uncommitted
    <3>1. \A f \in Attempts : work'[f].at = "releasing" => Uncommitted(work'[f].path) \subseteq loose
      BY <1>2 DEF NothingHandedOn
    <3>2. held[t] = work[e].path /\ Uncommitted(work[e].path) \subseteq loose
      BY <1>1, <1>5 DEF OneAtWork, NothingHandedOn
    <3>3. \A x \in ToSet(free) : Uncommitted(x) \subseteq loose
      BY DEF NothingHandedOn
    <3>4. \A x \in ToSet(free') : Uncommitted(x) \subseteq loose
      BY <2>4, <3>2, <3>3
    <3> QED BY <2>1, <3>1, <3>4 DEF Uncommitted
  <2>14. WorkspaceHasItsOwn'
    <3> SUFFICES ASSUME ~doubled, NEW f \in Attempts, Present(f)'
                 PROVE  Uncommitted(work'[f].path) \subseteq {f} \cup loose
      BY <1>1, <2>1 DEF WorkspaceHasItsOwn, Uncommitted
    <3>1. Present(f) /\ work'[f].path = work[f].path
      BY <1>2, <2>6
    <3> QED BY <3>1 DEF WorkspaceHasItsOwn
  <2>15. VerifyTyped' /\ OnItsBranch' /\ MainMovesOnlyAstray'
    BY <1>1, <2>1, VerifyStays
  <2> QED BY <2>5, <2>7, <2>8, <2>9, <2>10, <2>11, <2>13, <2>14, <2>15
<1> QED BY <1>4, <1>5

-----------------------------------------------------------------------------
(* The verifications *)

LEMMA BeginVerifyKeeps == ASSUME WtIInv, NEW v \in Verifiers, BeginVerify(v) PROVE WtIInv'
<1> USE DEF WtIInv
<1> PICK due : due = {e \in diffs : TaskOf(e) \in Preds[v] /\ work[e].at = "left"}
  OBVIOUS
<1> PICK todo : todo = ToMerge(v)
  OBVIOUS
<1> PICK r : r = [at |-> "merging", failures |-> {}, todo |-> todo, due |-> due]
  OBVIOUS
<1>1. /\ verify[v].at \in {"waiting", "stopped", "failed"}
      /\ verify' = [verify EXCEPT ![v] = r]
      /\ UNCHANGED <<pooled, modified, untracked, free, held, work, loose, doubled, restarts>>
  BY DEF BeginVerify, slotVars, ended, git
<1>2. strayed' = (strayed \/ v \in refs \/ \E o \in Verifiers : Verifying(o))
  BY DEF BeginVerify
<1>3. \/ v \in refs /\ UNCHANGED <<refs, commits, head>>
      \/ /\ v \notin refs /\ refs' = refs \cup {v} /\ head' = v
         /\ commits' = [commits EXCEPT ![v] = commits[head]]
  BY DEF BeginVerify, git
<1>4. DOMAIN r = {"at", "todo", "failures", "due"} /\ r.at = "merging"
  OBVIOUS
<1>5. VerifyTyped' /\ \A o \in Verifiers : verify'[o] = IF o = v THEN r ELSE verify[o]
  BY <1>1, <1>4, VerifyChanges
<1>6. /\ PlacesFixed' /\ PoolKept' /\ OneAtWork' /\ LostSlotsAreRetried'
      /\ ChangesPlaced' /\ NothingHandedOn' /\ WorkspaceHasItsOwn'
  <2>1. \A p \in Paths : p \in refs => p \in refs'
    BY <1>3
  <2> QED BY <1>1, <2>1, VerifyKeeps DEF slotVars
<1>7. v \in Branches /\ v # "main" /\ "main" \in Branches
  BY PathNames
<1>8. head \in Branches /\ commits[head] \in SUBSET Attempts
  BY DEF WtTyped
<1>9. commits' \in [Branches -> SUBSET Attempts] /\ commits'["main"] = commits["main"]
  <2>1. CASE commits' = commits
    BY <2>1 DEF WtTyped
  <2>2. CASE commits' = [commits EXCEPT ![v] = commits[head]]
    BY <1>7, <1>8, <2>2 DEF WtTyped
  <2> QED BY <1>3, <2>1, <2>2
<1>10. WtTyped'
  <2>1. refs' \subseteq Branches /\ {"main", head'} \subseteq refs' /\ head' \in {"main"} \cup Verifiers
    BY <1>3, <1>7 DEF WtTyped
  <2> QED BY <1>1, <1>9, <2>1 DEF WtTyped
<1>11. OnItsBranch'
  <2> SUFFICES ASSUME ~strayed', NEW o \in Verifiers, verify'[o].at = "merging" PROVE head' = o
    BY DEF OnItsBranch, Verifying
  <2>1. v \notin refs /\ ~Verifying(o)
    BY <1>2
  <2>2. o = v
    BY <1>5, <2>1 DEF Verifying
  <2> QED BY <1>3, <2>1, <2>2
<1>12. MainMovesOnlyAstray'
  BY <1>2, <1>9 DEF MainMovesOnlyAstray
<1> QED BY <1>5, <1>6, <1>10, <1>11, <1>12

LEMMA MergeKeeps == ASSUME WtIInv, NEW v \in Verifiers, Merge(v) PROVE WtIInv'
<1> USE DEF WtIInv
<1> PICK t : t = TaskOf(Head(verify[v].todo))
  OBVIOUS
<1> PICK left : left = Tail(verify[v].todo)
  OBVIOUS
<1> PICK old : old = verify[v]
  OBVIOUS
<1>1. /\ Verifying(v)
      /\ UNCHANGED <<pooled, refs, modified, untracked, head, free, held, work, loose, doubled,
                     strayed, restarts>>
  BY DEF Merge, slotVars, ended, wtHistory
<1>2. \/ verify' = [verify EXCEPT ![v].todo = left] /\ UNCHANGED commits
      \/ /\ t \in refs /\ verify' = [verify EXCEPT ![v].todo = left]
         /\ commits' = [commits EXCEPT ![head] = @ \cup commits[t]]
      \/ /\ verify' = [verify EXCEPT ![v].todo = left, ![v].failures = @ \cup {t}]
         /\ UNCHANGED commits
  BY DEF Merge
<1>3. DOMAIN old = {"at", "todo", "failures", "due"} /\ DOMAIN verify = Verifiers
  BY DEF VerifyTyped
<1>4. PICK r : /\ verify' = [verify EXCEPT ![v] = r] /\ r.at = old.at
               /\ DOMAIN r = {"at", "todo", "failures", "due"}
  <2> PICK a : a = [old EXCEPT !.todo = left]
    OBVIOUS
  <2> PICK b : b = [a EXCEPT !.failures = @ \cup {t}]
    OBVIOUS
  <2>1. a.at = old.at /\ DOMAIN a = {"at", "todo", "failures", "due"}
    BY <1>3
  <2>2. b.at = old.at /\ DOMAIN b = {"at", "todo", "failures", "due"}
    BY <2>1
  <2>3. CASE verify' = [verify EXCEPT ![v].todo = left]
    BY <2>1, <2>3
  <2>4. CASE verify' = [verify EXCEPT ![v].todo = left, ![v].failures = @ \cup {t}]
    <3>1. verify' = [verify EXCEPT ![v] = b]
      BY <1>3, <2>4
    <3> QED BY <2>2, <3>1
  <2> QED BY <1>2, <2>3, <2>4
<1>5. VerifyTyped' /\ \A o \in Verifiers : verify'[o].at = verify[o].at
  <2>1. VerifyTyped' /\ \A o \in Verifiers : verify'[o] = IF o = v THEN r ELSE verify[o]
    BY <1>4, VerifyChanges
  <2> QED BY <1>4, <2>1
<1>6. /\ PlacesFixed' /\ PoolKept' /\ OneAtWork' /\ LostSlotsAreRetried'
      /\ ChangesPlaced' /\ NothingHandedOn' /\ WorkspaceHasItsOwn'
  BY <1>1, VerifyKeeps DEF slotVars
<1>7. head \in Branches /\ "main" \in Branches /\ (~strayed => head # "main")
  BY <1>1, PathNames DEF OnItsBranch, WtTyped
<1>8. /\ commits' \in [Branches -> SUBSET Attempts]
      /\ ~strayed => commits'["main"] = commits["main"]
  <2>1. CASE commits' = commits
    BY <2>1 DEF WtTyped
  <2>2. CASE t \in refs /\ commits' = [commits EXCEPT ![head] = commits[head] \cup commits[t]]
    <3>1. commits[head] \cup commits[t] \in SUBSET Attempts
      BY <1>7, <2>2 DEF WtTyped
    <3> QED BY <1>7, <2>2, <3>1 DEF WtTyped
  <2> QED BY <1>2, <2>1, <2>2
<1>9. WtTyped'
  BY <1>1, <1>8 DEF WtTyped
<1>10. OnItsBranch' /\ MainMovesOnlyAstray'
  BY <1>1, <1>5, <1>8 DEF OnItsBranch, MainMovesOnlyAstray, Verifying
<1> QED BY <1>5, <1>6, <1>9, <1>10

LEMMA ConcludeKeeps == ASSUME WtIInv, NEW v \in Verifiers, Conclude(v) PROVE WtIInv'
<1> USE DEF WtIInv
<1>1. /\ Verifying(v)
      /\ UNCHANGED <<pooled, modified, untracked, free, held, work, loose, doubled, strayed, restarts>>
  BY DEF Conclude, slotVars, ended, wtHistory
<1>2. DOMAIN verify[v] = {"at", "todo", "failures", "due"} /\ DOMAIN verify = Verifiers
  BY DEF VerifyTyped
<1>3. PICK r : /\ verify' = [verify EXCEPT ![v] = r] /\ r.at \in {"succeeded", "failed"}
               /\ DOMAIN r = {"at", "todo", "failures", "due"}
  <2> PICK a : a = [verify[v] EXCEPT !.at = "succeeded"]
    OBVIOUS
  <2> PICK b : b = [Unverified EXCEPT !.at = "failed"]
    OBVIOUS
  <2>1. a.at = "succeeded" /\ DOMAIN a = {"at", "todo", "failures", "due"}
    BY <1>2
  <2>2. b.at = "failed" /\ DOMAIN b = {"at", "todo", "failures", "due"}
    BY DEF Unverified
  <2>3. CASE verify' = [verify EXCEPT ![v].at = "succeeded"]
    BY <2>1, <2>3
  <2>4. CASE verify' = [verify EXCEPT ![v] = [Unverified EXCEPT !.at = "failed"]]
    BY <2>2, <2>4
  <2> QED BY <2>3, <2>4 DEF Conclude
<1>4. VerifyTyped' /\ \A o \in Verifiers : verify'[o] = IF o = v THEN r ELSE verify[o]
  BY <1>3, VerifyChanges
<1>5. \/ UNCHANGED <<refs, commits, head>>
      \/ head' = "main" /\ refs' = refs \ {v} /\ commits' = [commits EXCEPT ![v] = {}]
  BY DEF Conclude, Delete
<1>6. v # "main" /\ v \notin Paths /\ "main" \in Branches /\ v \in Branches
  BY PathNames
<1>7. /\ PlacesFixed' /\ PoolKept' /\ OneAtWork' /\ LostSlotsAreRetried'
      /\ ChangesPlaced' /\ NothingHandedOn' /\ WorkspaceHasItsOwn'
  <2>1. \A p \in Paths : p \in refs => p \in refs'
    BY <1>5, <1>6
  <2> QED BY <1>1, <2>1, VerifyKeeps DEF slotVars
<1>8. commits' \in [Branches -> SUBSET Attempts] /\ commits'["main"] = commits["main"]
  BY <1>5, <1>6 DEF WtTyped
<1>9. WtTyped'
  <2>1. refs' \subseteq Branches /\ {"main", head'} \subseteq refs' /\ head' \in {"main"} \cup Verifiers
    BY <1>5, <1>6 DEF WtTyped
  <2> QED BY <1>1, <1>8, <2>1 DEF WtTyped
<1>10. OnItsBranch'
  <2> SUFFICES ASSUME ~strayed, NEW o \in Verifiers, verify'[o].at = "merging" PROVE head' = o
    BY <1>1 DEF OnItsBranch, Verifying
  <2>1. o # v /\ Verifying(o)
    BY <1>3, <1>4 DEF Verifying
  <2>2. head = o /\ head = v
    BY <1>1, <2>1 DEF OnItsBranch
  <2> QED BY <2>1, <2>2
<1>11. MainMovesOnlyAstray'
  BY <1>1, <1>8 DEF MainMovesOnlyAstray
<1> QED BY <1>4, <1>7, <1>9, <1>10, <1>11

LEMMA StopKeepsWork == ASSUME WtIInv, NEW v \in Verifiers, Stop(v) PROVE WtIInv'
<1> USE DEF WtIInv
<1>1. UNCHANGED <<pooled, refs, commits, modified, untracked, head, free, held, work, loose,
                  doubled, strayed, restarts>>
  BY DEF Stop, git, slotVars, ended, wtHistory
<1>2. PICK r : /\ verify' = [verify EXCEPT ![v] = r] /\ r.at = "stopped"
               /\ DOMAIN r = {"at", "todo", "failures", "due"}
  <2> PICK b : b = [Unverified EXCEPT !.at = "stopped"]
    OBVIOUS
  <2>1. b.at = "stopped" /\ DOMAIN b = {"at", "todo", "failures", "due"}
    BY DEF Unverified
  <2> QED BY <2>1 DEF Stop
<1>3. VerifyTyped' /\ \A o \in Verifiers : verify'[o] = IF o = v THEN r ELSE verify[o]
  BY <1>2, VerifyChanges
<1>4. /\ PlacesFixed' /\ PoolKept' /\ OneAtWork' /\ LostSlotsAreRetried'
      /\ ChangesPlaced' /\ NothingHandedOn' /\ WorkspaceHasItsOwn'
  BY <1>1, VerifyKeeps DEF slotVars
<1>5. WtTyped'
  BY <1>1 DEF WtTyped
<1>6. OnItsBranch' /\ MainMovesOnlyAstray'
  BY <1>1, <1>2, <1>3 DEF OnItsBranch, MainMovesOnlyAstray, Verifying
<1> QED BY <1>3, <1>4, <1>5, <1>6

-----------------------------------------------------------------------------
(* The restart, and the theorems *)

LEMMA RestartKeeps == WtIInv /\ Restart => WtIInv'
<1> SUFFICES ASSUME WtIInv, Restart PROVE WtIInv'
  OBVIOUS
<1> USE DEF WtIInv
<1>1. /\ restarts' = restarts + 1 /\ held' = [t \in WTasks |-> Unheld]
      /\ UNCHANGED <<pooled, refs, head, succeeded, diffs, doubled, strayed>>
      /\ loose' = loose \cup {e \in Attempts : work[e].at = "working"}
  BY DEF Restart
<1>2. work' = [e \in Attempts |-> IF Present(e) THEN [work[e] EXCEPT !.at = "left"] ELSE work[e]]
  BY DEF Restart
<1>3. \/ /\ pooled /\ free' = Slots
         /\ modified' = Remade(modified) /\ untracked' = Remade(untracked)
         /\ commits' = [b \in Branches |->
                          IF b \in ToSet(Slots) THEN commits[head] ELSE commits[b]]
      \/ ~pooled /\ UNCHANGED <<free, modified, untracked, commits>>
  BY DEF Restart
<1>4. ASSUME NEW e \in Attempts
      PROVE  /\ work'[e] \in Place /\ work'[e].task = work[e].task /\ work'[e].path = work[e].path
             /\ work'[e].at = IF Present(e) THEN "left" ELSE work[e].at
  <2> PICK old : old = work[e]
    OBVIOUS
  <2> PICK new : new = [old EXCEPT !.at = "left"]
    OBVIOUS
  <2>1. old \in Place
    BY DEF WtTyped
  <2>2. new \in Place /\ new.at = "left" /\ new.task = old.task /\ new.path = old.path
    BY <2>1 DEF Place
  <2>3. work'[e] = IF Present(e) THEN new ELSE old
    BY <1>2
  <2> QED BY <2>1, <2>2, <2>3
<1>5. /\ work' \in [Attempts -> Place]
      /\ \A e \in Attempts : /\ work'[e].task = work[e].task /\ work'[e].path = work[e].path
                             /\ work'[e].at \in {"away", "left"}
                             /\ work'[e].at = "away" <=> work[e].at = "away"
  <2>1. work' \in [Attempts -> Place]
    <3>1. DOMAIN work' = Attempts /\ work' = [e \in Attempts |-> work'[e]]
      BY <1>2
    <3> QED BY <1>4, <3>1
  <2> QED BY <1>4, <2>1 DEF Present
<1>6. \A e \in Attempts : ~Present(e)' /\ TaskOf(e)' = TaskOf(e)
  BY <1>5 DEF Present, TaskOf
<1>7. /\ modified' \in [Paths -> SUBSET Attempts] /\ untracked' \in [Paths -> SUBSET Attempts]
      /\ \A p \in Paths : modified'[p] \cup untracked'[p] \subseteq Uncommitted(p)
      /\ pooled => \A p \in ToSet(Slots) : modified'[p] \cup untracked'[p] = {}
  <2>1. modified \in [Paths -> SUBSET Attempts] /\ untracked \in [Paths -> SUBSET Attempts]
    BY DEF WtTyped
  <2>2. CASE pooled
    <3>1. /\ \A p \in Paths : modified'[p] = IF p \in ToSet(Slots) THEN {} ELSE modified[p]
          /\ \A p \in Paths : untracked'[p] = IF p \in ToSet(Slots) THEN {} ELSE untracked[p]
      BY <1>3, <2>2 DEF Remade
    <3>2. modified' \in [Paths -> SUBSET Attempts] /\ untracked' \in [Paths -> SUBSET Attempts]
      BY <1>3, <2>1, <2>2 DEF Remade
    <3> QED BY <2>2, <3>1, <3>2, PathNames DEF Uncommitted
  <2>3. CASE ~pooled
    BY <1>3, <2>1, <2>3 DEF Uncommitted
  <2> QED BY <2>2, <2>3
<1>8. /\ commits' \in [Branches -> SUBSET Attempts] /\ commits'["main"] = commits["main"]
  <2>1. /\ head \in Branches /\ "main" \in Branches /\ "main" \notin ToSet(Slots)
        /\ commits \in [Branches -> SUBSET Attempts]
    BY PathNames DEF WtTyped
  <2> QED BY <1>3, <2>1
<1>9. /\ free' \in Seq(ToSet(Slots)) /\ IsInjective(free')
      /\ pooled => ToSet(free') = ToSet(Slots)
      /\ ~pooled => free' = <<>>
  <2>1. Slots \in Seq(ToSet(Slots))
    BY SlotsAreSlots
  <2> QED BY <1>3, <2>1, WtNames DEF WtTyped, PoolKept
<1>10. WtTyped'
  BY <1>1, <1>5, <1>7, <1>8, <1>9 DEF WtTyped
<1>11. PlacesFixed'
  <2>1. \A e \in Attempts :
          IF work'[e].at = "away" THEN TaskOf(e)' = Unheld /\ work'[e].path = Unheld
          ELSE /\ TaskOf(e)' \in WTasks
               /\ IF pooled THEN work'[e].path \in ToSet(Slots) ELSE work'[e].path = TaskOf(e)'
    BY <1>5, <1>6 DEF PlacesFixed
  <2>2. \A e, f \in Attempts : f < e /\ work'[e].at # "away" => work'[f].at # "away"
    BY <1>5 DEF PlacesFixed
  <2>3. \A e \in loose' : e \in Attempts /\ work'[e].at \notin {"away", "adding", "working"}
    <3> SUFFICES ASSUME NEW e \in loose'
                 PROVE  e \in Attempts /\ work'[e].at \notin {"away", "adding", "working"}
      OBVIOUS
    <3>1. e \in Attempts /\ work[e].at # "away"
      BY <1>1 DEF PlacesFixed
    <3> QED BY <1>5, <3>1
  <2> QED BY <1>1, <2>1, <2>2, <2>3 DEF PlacesFixed
<1>12. PoolKept'
  <2>1. \A t \in WTasks : held'[t] = Unheld
    BY <1>1
  <2>2. Unheld \notin ToSet(free')
    <3>1. CASE pooled
      BY <1>9, <3>1, PathNames
    <3>2. CASE ~pooled
      <4>1. free' = <<>> /\ DOMAIN <<>> = {}
        BY <1>9, <3>2, EmptySeq
      <4> QED BY <4>1 DEF ToSet
    <3> QED BY <3>1, <3>2
  <2> QED BY <1>1, <1>9, <2>1, <2>2 DEF PoolKept
<1>13. OneAtWork'
  BY <1>6 DEF OneAtWork
<1>14. LostSlotsAreRetried'
  BY <1>1, <1>9 DEF LostSlotsAreRetried
<1>15. ChangesPlaced'
  <2> SUFFICES ASSUME NEW p \in Paths
               PROVE  /\ p \notin refs => modified'[p] \cup untracked'[p] = {}
                      /\ \A f \in modified'[p] \cup untracked'[p] : work'[f].path = p
    BY <1>1 DEF ChangesPlaced, Uncommitted
  <2>1. \A f \in Uncommitted(p) : f \in Attempts /\ work[f].path = p
    BY DEF ChangesPlaced, WtTyped, Uncommitted
  <2>2. p \notin refs => Uncommitted(p) = {}
    BY DEF ChangesPlaced
  <2> QED BY <1>5, <1>7, <2>1, <2>2
<1>16. NothingHandedOn'
  <2>1. ASSUME NEW s \in ToSet(free') PROVE modified'[s] \cup untracked'[s] \subseteq loose'
    <3>1. CASE pooled
      BY <1>7, <1>9, <2>1, <3>1
    <3>2. CASE ~pooled
      <4>1. free' = <<>> /\ DOMAIN <<>> = {}
        BY <1>9, <3>2, EmptySeq
      <4> QED BY <2>1, <4>1 DEF ToSet
    <3> QED BY <3>1, <3>2
  <2>2. \A e \in Attempts : work'[e].at # "releasing"
    BY <1>5
  <2> QED BY <2>1, <2>2 DEF NothingHandedOn, Uncommitted
<1>17. WorkspaceHasItsOwn'
  BY <1>6 DEF WorkspaceHasItsOwn
<1>18. VerifyTyped' /\ \A v \in Verifiers : ~Verifying(v)'
  <2>1. verify' = [v \in Verifiers |->
                     IF Verifying(v) THEN [Unverified EXCEPT !.at = "stopped"] ELSE verify[v]]
    BY DEF Restart
  <2> PICK b : b = [Unverified EXCEPT !.at = "stopped"]
    OBVIOUS
  <2>2. b.at = "stopped" /\ DOMAIN b = {"at", "todo", "failures", "due"}
    BY DEF Unverified
  <2>3. \A v \in Verifiers : verify'[v] = IF Verifying(v) THEN b ELSE verify[v]
    BY <2>1
  <2>4. \A v \in Verifiers : verify'[v].at # "merging"
    BY <2>2, <2>3 DEF Verifying
  <2>5. \A v \in Verifiers : DOMAIN verify'[v] = {"at", "todo", "failures", "due"}
    BY <2>2, <2>3 DEF VerifyTyped
  <2>6. verify' = [v \in Verifiers |-> verify'[v]]
    BY <2>1
  <2> QED BY <2>4, <2>5, <2>6 DEF VerifyTyped, Verifying
<1>19. OnItsBranch' /\ MainMovesOnlyAstray'
  BY <1>1, <1>8, <1>18 DEF OnItsBranch, MainMovesOnlyAstray
<1> QED BY <1>10, <1>11, <1>12, <1>13, <1>14, <1>15, <1>16, <1>17, <1>18, <1>19

LEMMA WtStepIInv == WtIInv /\ [WtNext]_wtVars => WtIInv'
<1> SUFFICES ASSUME WtIInv, [WtNext]_wtVars PROVE WtIInv'
  OBVIOUS
<1>1. CASE \E e \in Attempts : \E t \in WTasks : Clear(e, t) \/ Take(e, t)
  BY <1>1, ClearKeeps, TakeKeeps
<1>2. CASE \E e \in Attempts : Add(e) \/ End(e) \/ Outlive(e)
  BY <1>2, AddKeeps, EndKeeps, OutliveKeeps
<1>3. CASE \E e \in Attempts : MergeBack(e) \/ CommitWork(e) \/ Leave(e) \/ Release(e)
  BY <1>3, MergeBackKeeps, CommitWorkKeeps, LeaveKeeps, ReleaseKeeps
<1>4. CASE \E v \in Verifiers : BeginVerify(v) \/ Merge(v)
  BY <1>4, BeginVerifyKeeps, MergeKeeps
<1>5. CASE \E v \in Verifiers : Conclude(v) \/ Stop(v)
  BY <1>5, ConcludeKeeps, StopKeepsWork
<1>6. CASE Restart
  BY <1>6, RestartKeeps
<1>7. CASE UNCHANGED wtVars
  <2>1. UNCHANGED <<pooled, refs, commits, modified, untracked, head, free, held, work, loose,
                    verify, doubled, strayed, restarts>>
    BY <1>7 DEF wtVars
  <2>2. /\ PlacesFixed' /\ PoolKept' /\ OneAtWork' /\ LostSlotsAreRetried'
        /\ ChangesPlaced' /\ NothingHandedOn' /\ WorkspaceHasItsOwn'
    BY <2>1, VerifyKeeps DEF slotVars
  <2>3. WtTyped'
    BY <2>1 DEF WtIInv, WtTyped
  <2>4. VerifyTyped' /\ OnItsBranch' /\ MainMovesOnlyAstray'
    BY <2>1, VerifyStays
  <2> QED BY <2>2, <2>3, <2>4 DEF WtIInv
<1> QED BY <1>1, <1>2, <1>3, <1>4, <1>5, <1>6, <1>7 DEF WtNext

LEMMA IInvGivesWorkspaces == WtIInv => WorkspacesInv
<1> SUFFICES ASSUME WtIInv PROVE WorkspacesInv
  OBVIOUS
<1> USE DEF WtIInv
<1>1. WtTypeOK
  <2>1. ToSet(free) \subseteq ToSet(Slots)
    BY FreeSlots
  <2>2. loose \subseteq {e \in Attempts : work[e].at \notin {"away", "working"}}
    BY DEF PlacesFixed
  <2> QED BY <2>1, <2>2 DEF WtTypeOK, WtTyped, PoolKept
<1>2. WorkspaceIsPrivate
  <2>1. \A t, u \in WTasks : t # u /\ held[t] = held[u] => held[t] = Unheld
    BY DEF PoolKept
  <2> QED BY <2>1, PathsDiffer DEF WorkspaceIsPrivate
<1> QED BY <1>1, <1>2 DEF WorkspacesInv

\* With worktrees of their own or with a pool, and however many attempts, slots and
\* restarts: attempts at work share no workspace and find in theirs nothing of others
\* but of agents that outlived their attempts, unless a task was given out twice; a
\* slot is lost only by a retry; main moves only where verifications met.
THEOREM WorkspacesSound == WtSpec => []WorkspacesInv
<1>1. WtSpec => []WtIInv
  BY WtInitIInv, WtStepIInv, PTL DEF WtSpec
<1> QED BY <1>1, IInvGivesWorkspaces, PTL

\* What an attempt has left uncommitted stays until it is committed, until its task is
\* attempted again, or until the pool is made anew: nothing with changes is released.
THEOREM LeftWorkStays == WtSpec => UncommittedStays
<1>1. WtSpec => []WtIInv
  BY WtInitIInv, WtStepIInv, PTL DEF WtSpec
<1>2. WtIInv /\ [WtNext]_wtVars =>
        [~doubled' /\ restarts' = restarts =>
           \A p \in Paths : \A e \in Uncommitted(p) \ loose :
             \/ e \in modified'[p] \cup untracked'[p] \cup commits'[p]
             \/ \E f \in Attempts : work[f].at = "away" /\ TaskOf(f)' = TaskOf(e)]_wtVars
  <2> SUFFICES ASSUME WtIInv, WtNext, ~doubled', restarts' = restarts,
                      NEW p \in Paths, NEW e \in Uncommitted(p) \ loose
               PROVE  \/ e \in modified'[p] \cup untracked'[p] \cup commits'[p]
                      \/ \E f \in Attempts : work[f].at = "away" /\ TaskOf(f)' = TaskOf(e)
    OBVIOUS
  <2> USE DEF WtIInv
  <2>1. e \in Attempts /\ work[e].path = p /\ work[e].at # "away"
    BY PathNames DEF WtTyped, ChangesPlaced, PlacesFixed, Uncommitted
  <2>2. restarts \in Nat /\ modified \in [Paths -> SUBSET Attempts]
          /\ untracked \in [Paths -> SUBSET Attempts] /\ commits \in [Branches -> SUBSET Attempts]
    BY DEF WtTyped
  <2>3. ASSUME NEW f \in Attempts, NEW t \in WTasks, Clear(f, t)
        PROVE  \/ e \in modified'[p] \cup untracked'[p]
               \/ work[f].at = "away" /\ TaskOf(f)' = TaskOf(e)
    <3>1. /\ ~pooled /\ Starts(f, t) /\ Entered(f, t, t, "adding") /\ UNCHANGED <<pooled, loose>>
          /\ modified' = [modified EXCEPT ![t] = {}] /\ untracked' = [untracked EXCEPT ![t] = {}]
      BY <2>3 DEF Clear, ended
    <3>2. work[f].at = "away" /\ work'[f].task = t
      BY <3>1, Entering, PathNames
    <3>3. CASE p = t
      <4>1. TaskOf(e) = t
        BY <2>1, <3>1, <3>3 DEF PlacesFixed
      <4> QED BY <3>2, <4>1 DEF TaskOf
    <3>4. CASE p # t
      <4>1. modified'[p] \cup untracked'[p] = Uncommitted(p)
        BY <3>1, <3>4, Emptied, PathNames
      <4> QED BY <4>1
    <3> QED BY <3>3, <3>4
  <2>4. ASSUME NEW f \in Attempts, NEW t \in WTasks, Take(f, t)
        PROVE  e \in modified'[p] \cup untracked'[p]
    <3> PICK s : s = Head(free)
      OBVIOUS
    <3>1. /\ free # <<>> /\ UNCHANGED modified /\ untracked' = [untracked EXCEPT ![s] = {}]
          /\ Entered(f, t, s, "working")
      BY <2>4 DEF Take
    <3>2. ~doubled
      BY <3>1 DEF Entered
    <3>3. s \in ToSet(free)
      <4>1. free \in Seq(ToSet(Slots)) /\ IsInjective(free)
        BY DEF WtTyped, PoolKept
      <4>2. ToSet(free) = {Head(free)} \cup ToSet(Tail(free))
        BY <3>1, <4>1, FirstFree
      <4> QED BY <4>2
    <3>4. Uncommitted(s) \subseteq loose
      BY <3>2, <3>3 DEF NothingHandedOn
    <3>5. p # s
      BY <3>4
    <3> QED BY <2>2, <3>1, <3>5 DEF Uncommitted
  <2>5. ASSUME NEW f \in Attempts, End(f) \/ Outlive(f)
        PROVE  e \in modified'[p] \cup untracked'[p]
    <3>1. Edits(f) /\ UNCHANGED refs
      BY <2>5 DEF End, Outlive
    <3>2. work[f].path \in Paths
      BY <2>5, PathNames DEF End, Outlive, PlacesFixed
    <3>3. Uncommitted(p) \subseteq modified'[p] \cup untracked'[p]
      BY <3>1, <3>2, EditsTyped
    <3> QED BY <3>3
  <2>6. ASSUME NEW f \in Attempts, CommitWork(f)
        PROVE  e \in modified'[p] \cup untracked'[p] \cup commits'[p]
    <3> PICK t : t = TaskOf(f)
      OBVIOUS
    <3>1. \/ UNCHANGED <<modified, untracked>>
          \/ /\ commits' = [commits EXCEPT ![t] = @ \cup Uncommitted(t)]
             /\ modified' = [modified EXCEPT ![t] = {}] /\ untracked' = [untracked EXCEPT ![t] = {}]
      BY <2>6 DEF CommitWork
    <3>2. CASE UNCHANGED <<modified, untracked>>
      BY <3>2 DEF Uncommitted
    <3>3. CASE p = t /\ commits' = [commits EXCEPT ![t] = @ \cup Uncommitted(t)]
      BY <2>2, <3>3, PathNames
    <3>4. CASE p # t /\ modified' = [modified EXCEPT ![t] = {}]
                     /\ untracked' = [untracked EXCEPT ![t] = {}]
      BY <2>2, <3>4 DEF Uncommitted
    <3> QED BY <3>1, <3>2, <3>3, <3>4
  <2>7. ASSUME NEW f \in Attempts, Release(f)
        PROVE  e \in modified'[p] \cup untracked'[p]
    <3> PICK t : t = TaskOf(f)
      OBVIOUS
    <3>1. CASE pooled
      BY <2>7, <3>1 DEF Release, git, Uncommitted
    <3>2. CASE ~pooled
      <4>1. /\ work[f].at = "releasing" /\ UNCHANGED doubled
            /\ modified' = [modified EXCEPT ![t] = {}] /\ untracked' = [untracked EXCEPT ![t] = {}]
        BY <2>7, <3>2 DEF Release, wtHistory
      <4>2. t = work[f].path
        BY <3>2, <4>1 DEF PlacesFixed
      <4>3. Uncommitted(t) \subseteq loose
        BY <4>1, <4>2 DEF NothingHandedOn
      <4>4. p # t
        BY <4>3
      <4> QED BY <2>2, <4>1, <4>4 DEF Uncommitted
    <3> QED BY <3>1, <3>2
  <2>8. ASSUME NEW f \in Attempts, Add(f) \/ MergeBack(f) \/ Leave(f)
        PROVE  e \in modified'[p] \cup untracked'[p]
    BY <2>8 DEF Add, MergeBack, Leave, git, Uncommitted
  <2>9. ASSUME NEW v \in Verifiers, BeginVerify(v) \/ Merge(v) \/ Conclude(v) \/ Stop(v)
        PROVE  e \in modified'[p] \cup untracked'[p]
    <3>1. UNCHANGED <<modified, untracked>>
      BY <2>9 DEF BeginVerify, Merge, Conclude, Stop, git
    <3> QED BY <3>1 DEF Uncommitted
  <2>10. ~Restart
    BY <2>2 DEF Restart
  <2> QED BY <2>3, <2>4, <2>5, <2>6, <2>7, <2>8, <2>9, <2>10 DEF WtNext
<1> QED BY <1>1, <1>2, PTL DEF WtSpec, UncommittedStays
=============================================================================
