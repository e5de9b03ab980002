------------------------------ MODULE Invocation ------------------------------
(***************************************************************************)
(* An executor asks an agent to do a task (execute_task of                  *)
(* services/worker-dispatch, packages/agent-adapters): the choice of the    *)
(* adapter, the runs or calls the adapter makes of it, the two time-outs,   *)
(* the heartbeat that accompanies them, and what becomes of the answer.     *)
(* One task, whose attempts follow one another; TaskExecution has the tasks *)
(* that depend on each other, and what may happen between attempts.         *)
(*                                                                          *)
(* What a run returns is a member of a small set: text; none, nothing but   *)
(* blanks; bare, text in which the extraction finds no answer; code, text   *)
(* and an exit code other than 0; fault, the agent's own is_error; io, it   *)
(* could not be started or reached; http, an error status; limited, the     *)
(* status 429; time, nothing in time.  A 2xx answer whose body cannot be    *)
(* read is text to the adapter.                                             *)
(***************************************************************************)
EXTENDS Naturals, Sequences, SequencesExt

CONSTANTS Installations, \* the sets of adapters found at a start
          Preferences,   \* what a task names as its provider mode
          Budgets,       \* its retry_budget
          MaxBeats       \* bound: heartbeats of an attempt

ASSUME InvAssumption == Budgets \subseteq Nat /\ MaxBeats \in Nat

VARIABLES registered, \* the adapters; auto_detect registers them in the order of Detected
          prefers,    \* the task's provider mode
          budget,     \* what is left of its retry_budget
          stage,      \* where execute_task is
          asked,      \* attempts: [adapter, tries, answer, text, status]; text: whether
                      \* there is anything in the answer
          alive,      \* <<attempt, try>>: its process runs
          beating,    \* the heartbeat task
          beats       \* attempt -> heartbeats in the journal

invVars == <<registered, prefers, budget, stage, asked, alive, beating, beats>>

-----------------------------------------------------------------------------
(* The adapters: what a run may return, and what follows from the n-th.    *)

Detected == <<"mock", "codex-cli", "claude-cli", "anthropic-api", "openai-api",
              "custom-cli", "local-custom">>

MockRun == {"text"}

CodexRun  == {"text", "none", "bare", "code", "io", "time"}
ClaudeRun == CodexRun \cup {"fault"}
CustomRun == CodexRun \ {"bare"}

AnthropicCall == {"text", "none", "bare", "http", "limited", "io", "time"}
OpenAiCall    == AnthropicCall
LocalCall     == AnthropicCall

\* What the normalization leaves nothing of.
Blank == {"none"}

\* What the extraction of the answer leaves something of.
CodexText(r)     == r \notin Blank \cup {"bare"}
ClaudeText(r)    == r \notin Blank \cup {"bare"}
AnthropicText(r) == r \notin Blank \cup {"bare"}
OpenAiText(r)    == r \notin Blank \cup {"bare"}
LocalText(r)     == r \notin Blank \cup {"bare"}

Kept(r) == CASE r = "text" -> "Succeeded" [] r = "time" -> "TimedOut" [] OTHER -> "Failed"

\* Mistake: what timed out is run once more.
CodexOnceMore(r, n) == IF r = "time" /\ n < 3 THEN "again" ELSE Kept(r)

\* Mistake: the tries are counted from 0.
CodexFour(r, n) == IF r = "none" /\ n <= 3 THEN "again" ELSE Kept(r)

\* Blank output, whatever the exit code, is tried three times; text without an
\* answer in it is success.
Codex(r, n) ==
  CASE r \in Blank -> IF n < 3 THEN "again" ELSE "EmptyOutput"
    [] r = "bare" -> "Succeeded"
    [] OTHER -> Kept(r)
Claude(r, n) == Codex(r, n)
Custom(r, n) == Codex(r, n)

\* Mistake: the body is looked at, not the answer in it.
AnthropicOfBody(r, n) ==
  CASE r \in Blank -> IF n < 2 THEN "again" ELSE "EmptyOutput"
    [] r = "bare" -> "Succeeded"
    [] OTHER -> Kept(r)

\* An empty answer is asked for twice; the rate limit is told apart only at first.
Anthropic(r, n) ==
  CASE ~AnthropicText(r) -> IF n < 2 THEN "again" ELSE "EmptyOutput"
    [] r = "limited" /\ n = 1 -> "RetryableError"
    [] OTHER -> Kept(r)
OpenAi(r, n) == IF OpenAiText(r) THEN Anthropic(r, n) ELSE Anthropic("none", n)

Local(r, n) ==
  CASE r = "limited" -> "Failed"
    [] LocalText(r) -> Anthropic(r, n)
    [] OTHER -> Anthropic("none", n)

Returns(a) ==
  CASE a = "mock" -> MockRun             [] a = "codex-cli" -> CodexRun
    [] a = "claude-cli" -> ClaudeRun     [] a = "custom-cli" -> CustomRun
    [] a = "anthropic-api" -> AnthropicCall
    [] a = "openai-api" -> OpenAiCall    [] a = "local-custom" -> LocalCall

Verdict(a, r, n) ==
  CASE a = "mock" -> Kept(r)             [] a = "codex-cli" -> Codex(r, n)
    [] a = "claude-cli" -> Claude(r, n)  [] a = "custom-cli" -> Custom(r, n)
    [] a = "anthropic-api" -> Anthropic(r, n)
    [] a = "openai-api" -> OpenAi(r, n)  [] a = "local-custom" -> Local(r, n)

Text(a, r) ==
  CASE a = "codex-cli" -> CodexText(r)   [] a = "claude-cli" -> ClaudeText(r)
    [] a = "anthropic-api" -> AnthropicText(r)
    [] a = "openai-api" -> OpenAiText(r) [] a = "local-custom" -> LocalText(r)
    [] OTHER -> r \notin Blank

Processes == {"codex-cli", "claude-cli", "custom-cli"}

\* What is preferred, where it is an adapter's name, or else the first: the health
\* of an adapter is never changed.
FirstChoice ==
  IF prefers \in registered THEN prefers
  ELSE Detected[Min({i \in DOMAIN Detected : Detected[i] \in registered})]

Now == Len(asked)
Current == asked[Now]
Running == <<Now, Current.tries>>

-----------------------------------------------------------------------------
AutoDetect(found) == ToSet(Detected) \cap found

InvInit ==
  /\ \E found \in Installations : registered = AutoDetect(found)
  /\ prefers \in Preferences /\ budget \in Budgets
  /\ stage = "ready" /\ asked = <<>> /\ alive = {}
  /\ beating = "off" /\ beats = <<>>

\* The attempt is recorded as running.  Without an adapter the task is passed over.
Ask ==
  /\ stage = "ready" /\ registered # {}
  /\ asked' = Append(asked, [adapter |-> FirstChoice, tries |-> 0, answer |-> "none",
                             text |-> FALSE, status |-> "running"])
  /\ beats' = Append(beats, 0)
  /\ stage' = "prompting"
  /\ UNCHANGED <<registered, prefers, budget, alive, beating>>

\* The executor ends there, and the attempt is never closed.
Abandoned == stage' = "abandoned" /\ UNCHANGED <<asked, budget>>

\* The prompt is cut at a number of bytes, which may be inside a character.
Prompt ==
  /\ stage = "prompting"
  /\ \/ stage' = "again" /\ beating' = "waiting" /\ UNCHANGED <<asked, budget>>
     \/ Abandoned /\ UNCHANGED beating
  /\ UNCHANGED <<registered, prefers, alive, beats>>

\* The adapter starts a run or makes a call, with the time that is left.
Call ==
  /\ stage = "again"
  /\ stage' = "calling"
  /\ asked' = [asked EXCEPT ![Now].tries = @ + 1]
  /\ alive' = IF Current.adapter \in Processes THEN alive \cup {<<Now, Current.tries + 1>>}
              ELSE alive
  /\ UNCHANGED <<registered, prefers, budget, beating, beats>>

AnswersWith(s, text) ==
  /\ stage' = "answered"
  /\ asked' = [asked EXCEPT ![Now].answer = s, ![Now].text = text]

\* A process that is given up when its time is over is not ended.
Return(r) ==
  LET said == Verdict(Current.adapter, r, Current.tries)
  IN /\ stage = "calling" /\ r \in Returns(Current.adapter)
     /\ alive' = IF r = "time" THEN alive ELSE alive \ {Running}
     /\ IF said = "again" THEN stage' = "again" /\ UNCHANGED asked
        ELSE AnswersWith(said, said = "Succeeded" /\ Text(Current.adapter, r))
     /\ UNCHANGED <<registered, prefers, budget, beating, beats>>

\* Nothing of the adapter's time is left for another try.
NoTimeLeft ==
  /\ stage = "again" /\ Current.tries > 0
  /\ AnswersWith("TimedOut", FALSE)
  /\ UNCHANGED <<registered, prefers, budget, alive, beating, beats>>

\* The executor's own time-out, where the adapter has not answered after all.
ServerTimeout ==
  /\ stage = "calling"
  /\ AnswersWith("TimedOut", FALSE)
  /\ UNCHANGED <<registered, prefers, budget, alive, beating, beats>>

-----------------------------------------------------------------------------
(* The heartbeat, every 30 seconds.                                        *)

Beat ==
  /\ beating = "waiting" /\ beats[Now] < MaxBeats
  /\ beating' = "writing"
  /\ UNCHANGED <<registered, prefers, budget, stage, asked, alive, beats>>

\* Its row is committed, or lost; it then sees whether it was told to stop.
WriteBeat ==
  /\ beating \in {"writing", "stopping"}
  /\ beating' = IF beating = "stopping" THEN "off" ELSE "waiting"
  /\ \/ beats' = [beats EXCEPT ![Now] = @ + 1]
     \/ UNCHANGED beats
  /\ UNCHANGED <<registered, prefers, budget, stage, asked, alive>>

\* Mistake: it is told to stop but not waited for.
StopBeatsUnawaited ==
  /\ stage = "answered"
  /\ stage' = "recording"
  /\ beating' = IF beating = "writing" THEN "stopping" ELSE "off"
  /\ UNCHANGED <<registered, prefers, budget, asked, alive, beats>>

\* Mistake: it is waited for but not told.
StopBeatsUntold ==
  /\ stage = "answered" /\ stage' = "awaiting"
  /\ UNCHANGED <<registered, prefers, budget, asked, alive, beating, beats>>

\* It is told, and waited for.
StopBeats ==
  /\ stage = "answered"
  /\ stage' = "awaiting"
  /\ beating' = IF beating = "writing" THEN "stopping" ELSE "off"
  /\ UNCHANGED <<registered, prefers, budget, asked, alive, beats>>

AwaitBeats ==
  /\ stage = "awaiting" /\ beating = "off"
  /\ stage' = "recording"
  /\ UNCHANGED <<registered, prefers, budget, asked, alive, beating, beats>>

-----------------------------------------------------------------------------
(* What becomes of the answer.                                             *)

\* Mistake: every failure passes.
ClassifiedAll(s) == IF s = "Succeeded" THEN "succeeded" ELSE "failed_retryable"

Classified(s) ==
  CASE s = "Succeeded" -> "succeeded"
    [] s \in {"TimedOut", "RetryableError"} -> "failed_retryable"
    [] OTHER -> "failed_permanent"

\* One transaction for the attempt, the task and the events.
RecordAnswer ==
  /\ stage = "recording"
  /\ \/ /\ asked' = [asked EXCEPT ![Now].status = Classified(Current.answer)]
        /\ stage' = IF Classified(Current.answer) = "failed_retryable" THEN "deciding" ELSE "over"
        /\ UNCHANGED budget
     \/ Abandoned
  /\ UNCHANGED <<registered, prefers, alive, beating, beats>>

\* The budget is read, and taken from in a transaction of its own.
Decide ==
  /\ stage = "deciding"
  /\ \/ /\ IF budget > 0 THEN budget' = budget - 1 /\ stage' = "ready"
           ELSE stage' = "over" /\ UNCHANGED budget
        /\ UNCHANGED asked
     \/ Abandoned
  /\ UNCHANGED <<registered, prefers, alive, beating, beats>>

\* The worker ends and starts again: its tasks and the heartbeat with it, the
\* processes of the agents without.  It looks for the adapters anew.
EndOfWorker ==
  /\ stage \notin {"over", "abandoned"}
  /\ stage' = IF stage = "ready" THEN stage ELSE "abandoned"
  /\ beating' = "off"
  /\ \E found \in Installations : registered' = AutoDetect(found)
  /\ UNCHANGED <<prefers, budget, asked, alive, beats>>

\* An agent no one waits for ends by itself.
Exit(p) ==
  /\ p \in alive
  /\ ~(stage = "calling" /\ p = Running)
  /\ alive' = alive \ {p}
  /\ UNCHANGED <<registered, prefers, budget, stage, asked, beating, beats>>

-----------------------------------------------------------------------------
Executor ==
  \/ Ask \/ Prompt \/ Call \/ NoTimeLeft \/ StopBeats \/ AwaitBeats \/ RecordAnswer \/ Decide
  \/ ServerTimeout
  \/ stage = "calling" /\ \E r \in Returns(Current.adapter) : Return(r)

InvNext == Executor \/ Beat \/ WriteBeat \/ EndOfWorker \/ \E p \in alive : Exit(p)

\* The executor and the insertion of a heartbeat are tasks of the runtime; the
\* time-out of the executor needs no one's answer.
InvSpec == InvInit /\ [][InvNext]_invVars /\ WF_invVars(Executor) /\ WF_invVars(WriteBeat)

-----------------------------------------------------------------------------
\* Type: the stages, the answers an adapter gives and the statuses of an attempt.
InvTypeOK ==
  /\ registered \subseteq ToSet(Detected)
  /\ stage \in {"ready", "prompting", "again", "calling", "answered", "awaiting", "recording",
                "deciding", "over", "abandoned"}
  /\ beating \in {"off", "waiting", "writing", "stopping"}
  /\ Len(beats) = Now /\ budget \in Nat
  /\ \A i \in 1..Now :
       /\ asked[i].adapter \in ToSet(Detected) /\ asked[i].tries \in 0..3
       /\ asked[i].answer \in {"none", "Succeeded", "Failed", "TimedOut", "EmptyOutput",
                               "RetryableError"}
       /\ asked[i].status \in {"running", "succeeded", "failed_permanent", "failed_retryable"}
  /\ \A p \in alive : p[1] \in 1..Now /\ p[2] \in 1..asked[p[1]].tries

\* An attempt never has two of its agents at work at once, and one that goes on when
\* its attempt is over was given up by a time-out or by the end of the worker.
AgentsOfAnAttempt ==
  \A p \in alive :
    /\ \A q \in alive : p[1] = q[1] => p = q
    /\ \/ asked[p[1]].answer = "TimedOut"
       \/ p = Running /\ stage \in {"calling", "abandoned"}

\* The budget pays for time-outs and for the rate limit of a first call, and for no
\* more attempts than it has.
BudgetIsForTheTransient ==
  /\ \A i \in 1..Now - 1 :
       /\ asked[i].status = "failed_retryable"
       /\ asked[i].answer = "RetryableError" => asked[i].tries = 1
       /\ asked[i].answer \in {"TimedOut", "RetryableError"}
  /\ \E b \in Budgets : Now <= b + 1 /\ budget + Now \in {b, b + 1}

\* What an API answered without any text is never taken for a success: it is asked
\* again and then empty.  (Of what codex and claude print, the check sees the frame.)
ApiSuccessHasText ==
  \A i \in 1..Now :
    asked[i].status = "succeeded" /\ asked[i].adapter \notin {"codex-cli", "claude-cli"} =>
      asked[i].text

\* With every adapter: the agents left running by one attempt are few and of attempts
\* that timed out, the budget pays for transient failures only, and an API's success
\* has text.
AttemptsInv ==
  /\ InvTypeOK
  /\ AgentsOfAnAttempt
  /\ BudgetIsForTheTransient
  /\ ApiSuccessHasText

\* Once the attempt is recorded as over, no heartbeat says any more that it runs.
NoBeatOfTheDead ==
  [][\A i \in 1..Now : asked[i].status # "running" => beats'[i] = beats[i]]_invVars

\* The executor gets through every attempt it begins: no agent that hangs, and no
\* heartbeat under way, keeps it.
AttemptsGetThrough == stage \in {"again", "calling"} ~> stage \in {"ready", "over", "abandoned"}
==============================================================================
