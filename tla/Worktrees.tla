------------------------------ MODULE Worktrees ------------------------------
(***************************************************************************)
(* Where attempts work, and how their work is merged: the two kinds of      *)
(* isolation of packages/scaling over packages/git-control, and the steps   *)
(* of services/worker-dispatch that acquire a workspace, commit what an     *)
(* attempt changed, release the workspace and merge the branches for a      *)
(* verification.                                                            *)
(*                                                                          *)
(* A change is named after the attempt that made it.  A path stands for a   *)
(* worktree and the branch checked out in it, which are made and deleted    *)
(* together.  The standalone tier gives every task its own path, the        *)
(* clustered and distributed tiers a slot of a pool made at start.          *)
(***************************************************************************)
EXTENDS Naturals, Sequences, SequencesExt

CONSTANTS MaxWork,    \* bound: attempts, numbered as they start
          WTasks,
          Pooling,    \* the tiers: whether workspaces are slots of a pool
          Slots,      \* the slots of the pool, in the order they are made
          Verifiers,  \* verification tasks
          Preds,      \* verification task -> the tasks it waits for
          MaxRestarts \* bound: restarts of the process

ASSUME WtConstants == /\ Preds \in [Verifiers -> SUBSET WTasks]
                      /\ Slots \in Seq(STRING) /\ Pooling \subseteq BOOLEAN
                      /\ MaxRestarts \in Nat /\ MaxWork \in Nat

VARIABLES pooled,    \* the tier
          refs,      \* the branches there are
          commits,   \* branch -> the changes committed on it
          modified,     \* path -> uncommitted changes of tracked files
          untracked,      \* path -> files not tracked
          head,      \* the branch checked out in the repository itself
          free,      \* available
          held,      \* assignments: task -> slot
          work,      \* attempt -> [at, task, path]
          loose,     \* attempts whose agent was still running when they ended
          succeeded, \* the succeeded attempts, oldest first
          diffs,     \* attempts whose diff has been stored
          verify,    \* verification -> [at, todo, failures, due]; due is a history:
                     \* what it depends on that was committed and left when it began
          doubled,   \* history: a task's workspace was taken while an attempt still used it
          strayed,   \* history: two verifications overlapped, or one found its branch there
          restarts

wtVars == <<pooled, refs, commits, modified, untracked, head, free, held, work, loose,
            succeeded, diffs, verify, doubled, strayed, restarts>>
git == <<refs, commits, modified, untracked, head>>
slotVars == <<free, held>>
ended == <<loose, succeeded>>
wtHistory == <<doubled, strayed, restarts>>

Unheld == "unheld"
Attempts == 1..MaxWork
Paths == WTasks \cup ToSet(Slots)
Branches == {"main"} \cup Paths \cup Verifiers

\* Tasks have generated identifiers, slots numbers, and verifications branches of a
\* prefix of their own.
ASSUME WtNames ==
  /\ IsInjective(Slots) /\ WTasks \cap ToSet(Slots) = {} /\ Verifiers \cap Paths = {}
  /\ {"main", Unheld} \cap (Paths \cup Verifiers) = {}

Away == [at |-> "away", task |-> Unheld, path |-> Unheld]
Unverified == [at |-> "waiting", todo |-> <<>>, failures |-> {}, due |-> {}]

Present(e) == work[e].at \notin {"away", "left"}
Uncommitted(p) == modified[p] \cup untracked[p]
TaskOf(e) == work[e].task
Finished == {TaskOf(e) : e \in ToSet(succeeded)}
Goto(e, s) == work' = [work EXCEPT ![e].at = s]
Starts(e, t) == /\ work[e].at = "away" /\ \A f \in 1..e - 1 : work[f].at # "away"
                /\ t \notin Finished

\* A branch that is deleted, and the commits only it had.
Delete(b) == /\ refs' = refs \ {b}
             /\ commits' = [commits EXCEPT ![b] = {}]


WtInit ==
  /\ pooled \in Pooling
  /\ refs = {"main"} \cup IF pooled THEN ToSet(Slots) ELSE {}
  /\ commits = [b \in Branches |-> {}]
  /\ modified = [p \in Paths |-> {}] /\ untracked = [p \in Paths |-> {}]
  /\ head = "main"
  /\ free = IF pooled THEN Slots ELSE <<>>
  /\ held = [t \in WTasks |-> Unheld]
  /\ work = [e \in Attempts |-> Away]
  /\ loose = {} /\ succeeded = <<>> /\ diffs = {}
  /\ verify = [v \in Verifiers |-> Unverified]
  /\ doubled = FALSE /\ strayed = FALSE /\ restarts = 0

-----------------------------------------------------------------------------
(* Acquiring.                                                              *)

Entered(e, t, p, s) ==
  /\ work' = [work EXCEPT ![e] = [Away EXCEPT !.at = s, !.task = t, !.path = p]]
  /\ doubled' = (doubled \/ \E f \in Attempts : Present(f) /\ TaskOf(f) = t)

\* create_worktree first removes what an earlier attempt has left.
Clear(e, t) ==
  /\ ~pooled /\ Starts(e, t)
  /\ Delete(t)
  /\ modified' = [modified EXCEPT ![t] = {}] /\ untracked' = [untracked EXCEPT ![t] = {}]
  /\ Entered(e, t, t, "adding")
  /\ UNCHANGED <<pooled, head, slotVars, ended, diffs, verify, strayed, restarts>>

\* `git worktree add -b` starts at what is checked out, and fails where the branch
\* exists; the attempt is then not made.
Add(e) ==
  LET t == TaskOf(e)
  IN /\ work[e].at = "adding"
     /\ IF t \in refs THEN Goto(e, "left") /\ UNCHANGED git
        ELSE /\ Goto(e, "working")
             /\ refs' = refs \cup {t}
             /\ commits' = [commits EXCEPT ![t] = commits[head]]
             /\ UNCHANGED <<modified, untracked, head>>
     /\ UNCHANGED <<pooled, slotVars, ended, diffs, verify, wtHistory>>

\* Mistake: the slot stays first in the queue.
TakeFirst(e, t) ==
  /\ pooled /\ Starts(e, t)
  /\ free # <<>>
  /\ held' = [held EXCEPT ![t] = Head(free)]
  /\ untracked' = [untracked EXCEPT ![Head(free)] = {}]
  /\ Entered(e, t, Head(free), "working")
  /\ UNCHANGED <<pooled, refs, commits, modified, head, free, ended, diffs, verify, strayed,
                 restarts>>

\* The first slot available.  `git clean` removes the untracked files; the
\* command that should restore the tracked ones, `git checkout . --`, is refused.
Take(e, t) ==
  /\ pooled /\ Starts(e, t)
  /\ free # <<>>
  /\ free' = Tail(free)
  /\ held' = [held EXCEPT ![t] = Head(free)]
  /\ untracked' = [untracked EXCEPT ![Head(free)] = {}]
  /\ Entered(e, t, Head(free), "working")
  /\ UNCHANGED <<pooled, refs, commits, modified, head, ended, diffs, verify, strayed,
                 restarts>>

-----------------------------------------------------------------------------
(* Working, and what the worker does when the agent has ended.             *)

\* What an agent does at its path: it changes tracked files (and perhaps others),
\* only adds new ones, or does nothing.  Where the workspace is gone it can do nothing.
Edits(e) ==
  LET p == work[e].path
  IN \/ UNCHANGED <<modified, untracked>>
     \/ p \in refs /\ modified' = [modified EXCEPT ![p] = @ \cup {e}] /\ UNCHANGED untracked
     \/ p \in refs /\ untracked' = [untracked EXCEPT ![p] = @ \cup {e}] /\ UNCHANGED modified

\* The adapter answers, or gives the agent up after its time-out without ending its
\* process.  A failure to be retried leaves the workspace as it is.
End(e) ==
  /\ work[e].at = "working"
  /\ Edits(e)
  /\ \/ \E s \in {"leaving", "left"} : Goto(e, s) /\ UNCHANGED ended
     \/ /\ \E s \in {"leaving", "left"} : Goto(e, s)
        /\ loose' = loose \cup {e} /\ UNCHANGED succeeded
     \/ /\ work[e].path \in refs /\ Goto(e, "merging")
        /\ succeeded' = Append(succeeded, e) /\ UNCHANGED loose
  /\ UNCHANGED <<pooled, refs, commits, head, slotVars, diffs, verify, wtHistory>>

\* An agent that no one waits for goes on working.
Outlive(e) ==
  /\ e \in loose
  /\ Edits(e)
  /\ UNCHANGED <<pooled, refs, commits, head, slotVars, work, ended, diffs, verify, wtHistory>>

\* The path asked about is that of the task, whoever has acquired it last.
PathOf(t) == IF pooled THEN held[t] ELSE t
Stands(t) == PathOf(t) \in refs
HasDiff(t) == Stands(t) /\ modified[PathOf(t)] # {}

\* Mistake: only tracked files count.
DirtyByDiff(t) == HasDiff(t)

IsDirty(t) == Stands(t) /\ Uncommitted(PathOf(t)) # {}

\* A dirty workspace whose diff, which does not show untracked files, is not empty
\* is committed at the task's own path, which with a pool does not exist.  The rows
\* for files that another worktree has changed as well are left out: nothing here
\* reads them.
MergeBack(e) ==
  LET t == TaskOf(e)
  IN /\ work[e].at = "merging"
     /\ IF IsDirty(t) /\ HasDiff(t)
        THEN Goto(e, "committing") /\ diffs' = diffs \cup {e}
        ELSE Goto(e, "leaving") /\ UNCHANGED diffs
     /\ UNCHANGED <<pooled, git, slotVars, ended, verify, wtHistory>>

CommitWork(e) ==
  LET t == TaskOf(e)
  IN /\ work[e].at = "committing"
     /\ Goto(e, "leaving")
     /\ IF t \in refs
        THEN /\ commits' = [commits EXCEPT ![t] = @ \cup Uncommitted(t)]
             /\ modified' = [modified EXCEPT ![t] = {}]
             /\ untracked' = [untracked EXCEPT ![t] = {}]
        ELSE UNCHANGED <<commits, modified, untracked>>
     /\ UNCHANGED <<pooled, refs, head, slotVars, ended, diffs, verify, wtHistory>>

\* What is dirty is kept; what is clean, or cannot be asked about, is released.
Leave(e) ==
  /\ work[e].at = "leaving"
  /\ Goto(e, IF IsDirty(TaskOf(e)) THEN "left" ELSE "releasing")
  /\ UNCHANGED <<pooled, git, slotVars, ended, diffs, verify, wtHistory>>

\* Mistake: the slot is not given back.
ReleaseUnqueued(e) ==
  /\ work[e].at = "releasing"
  /\ Goto(e, "left")
  /\ pooled /\ held' = [held EXCEPT ![TaskOf(e)] = Unheld]
  /\ UNCHANGED <<pooled, git, free, ended, diffs, verify, wtHistory>>

\* Mistake: the assignment stays.
ReleaseSlotOnly(e) ==
  /\ work[e].at = "releasing"
  /\ Goto(e, "left")
  /\ pooled /\ held[TaskOf(e)] # Unheld
  /\ free' = Append(free, held[TaskOf(e)])
  /\ UNCHANGED <<pooled, git, held, ended, diffs, verify, wtHistory>>

\* release: the worktree is removed by force and its branch deleted, or the slot
\* goes back into the pool.
Release(e) ==
  LET t == TaskOf(e)
  IN /\ work[e].at = "releasing"
     /\ Goto(e, "left")
     /\ IF pooled
        THEN /\ held' = [held EXCEPT ![t] = Unheld]
             /\ free' = IF held[t] = Unheld THEN free ELSE Append(free, held[t])
             /\ UNCHANGED git
        ELSE /\ Delete(t)
             /\ modified' = [modified EXCEPT ![t] = {}]
             /\ untracked' = [untracked EXCEPT ![t] = {}]
             /\ UNCHANGED <<head, slotVars>>
     /\ UNCHANGED <<pooled, ended, diffs, verify, wtHistory>>

-----------------------------------------------------------------------------
(* execute_integration_verify, in the repository itself.                   *)

Verifying(v) == verify[v].at = "merging"

\* The succeeded attempts it depends on, as they succeeded.
ToMerge(v) == SelectSeq(succeeded, LAMBDA e : TaskOf(e) \in Preds[v])

\* Mistake: the branch is made but not checked out.
BeginInPlace(v) ==
  /\ verify[v].at \in {"waiting", "stopped", "failed"} /\ Preds[v] \subseteq Finished
  /\ verify' = [verify EXCEPT ![v] = [Unverified EXCEPT !.at = "merging", !.todo = ToMerge(v)]]
  /\ refs' = refs \cup {v} /\ commits' = [commits EXCEPT ![v] = commits[head]]
  /\ strayed' = (strayed \/ v \in refs \/ \E o \in Verifiers : Verifying(o))
  /\ UNCHANGED <<pooled, modified, untracked, head, slotVars, work, ended, diffs, doubled,
                 restarts>>

\* It waits until all it depends on has succeeded.  `checkout -b` fails where an
\* earlier try has left the branch: nothing is then checked out.
BeginVerify(v) ==
  /\ verify[v].at \in {"waiting", "stopped", "failed"} /\ Preds[v] \subseteq Finished
  /\ verify' = [verify EXCEPT ![v] = [at |-> "merging", failures |-> {}, todo |-> ToMerge(v),
                  due |-> {e \in diffs : TaskOf(e) \in Preds[v] /\ work[e].at = "left"}]]
  /\ IF v \in refs THEN UNCHANGED git
     ELSE /\ refs' = refs \cup {v}
          /\ commits' = [commits EXCEPT ![v] = commits[head]]
          /\ head' = v
          /\ UNCHANGED <<modified, untracked>>
  /\ strayed' = (strayed \/ v \in refs \/ \E o \in Verifiers : Verifying(o))
  /\ UNCHANGED <<pooled, slotVars, work, ended, diffs, doubled, restarts>>

\* The next attempt's branch, if the worktree of its task still stands, goes into
\* whatever is checked out.  It may conflict where the two have diverged; the
\* merge is then undone.
Merge(v) ==
  LET t == TaskOf(Head(verify[v].todo))
      left == Tail(verify[v].todo)
  IN /\ Verifying(v) /\ verify[v].todo # <<>>
     /\ \/ /\ t \in refs => commits[t] \subseteq commits[head]
           /\ verify' = [verify EXCEPT ![v].todo = left]
           /\ UNCHANGED commits
        \/ /\ t \in refs
           /\ verify' = [verify EXCEPT ![v].todo = left]
           /\ commits' = [commits EXCEPT ![head] = @ \cup commits[t]]
        \/ /\ t \in refs /\ ~(commits[head] \subseteq commits[t])
           /\ ~(commits[t] \subseteq commits[head])
           /\ verify' = [verify EXCEPT ![v].todo = left, ![v].failures = @ \cup {t}]
           /\ UNCHANGED commits
     /\ UNCHANGED <<pooled, refs, modified, untracked, head, slotVars, work, ended, diffs,
                    wtHistory>>

\* The build runs on what is checked out, if nothing conflicted.  What fails goes
\* back to main and deletes its branch; what succeeds leaves its branch checked out.
Conclude(v) ==
  /\ Verifying(v) /\ verify[v].todo = <<>>
  /\ \/ /\ verify[v].failures = {}
        /\ verify' = [verify EXCEPT ![v].at = "succeeded"]
        /\ UNCHANGED <<refs, commits, head>>
     \/ /\ verify' = [verify EXCEPT ![v] = [Unverified EXCEPT !.at = "failed"]]
        /\ head' = "main" /\ Delete(v)
  /\ UNCHANGED <<pooled, modified, untracked, slotVars, work, ended, diffs, wtHistory>>

\* An error of the database ends it where it is.
Stop(v) ==
  /\ Verifying(v)
  /\ verify' = [verify EXCEPT ![v] = [Unverified EXCEPT !.at = "stopped"]]
  /\ UNCHANGED <<pooled, git, slotVars, work, ended, diffs, wtHistory>>

\* Mistake: a slot that is there is kept.
RemadeAsLeft(f) == f

\* What the worktrees hold once those of the slots have been removed and added again.
Remade(f) == [p \in Paths |-> IF p \in ToSet(Slots) THEN {} ELSE f[p]]

\* A restart ends what runs, but for the agents, and makes the pool anew, from what is checked out.
Restart ==
  /\ restarts < MaxRestarts /\ restarts' = restarts + 1
  /\ work' = [e \in Attempts |-> IF Present(e) THEN [work[e] EXCEPT !.at = "left"] ELSE work[e]]
  /\ loose' = loose \cup {e \in Attempts : work[e].at = "working"}
  /\ verify' = [v \in Verifiers |->
                  IF Verifying(v) THEN [Unverified EXCEPT !.at = "stopped"] ELSE verify[v]]
  /\ held' = [t \in WTasks |-> Unheld]
  /\ IF pooled
     THEN /\ free' = Slots
          /\ modified' = Remade(modified) /\ untracked' = Remade(untracked)
          /\ commits' = [b \in Branches |->
                           IF b \in ToSet(Slots) THEN commits[head] ELSE commits[b]]
     ELSE UNCHANGED <<free, modified, untracked, commits>>
  /\ UNCHANGED <<pooled, refs, head, succeeded, diffs, doubled, strayed>>

WtNext ==
  \/ \E e \in Attempts : \/ \E t \in WTasks : Clear(e, t) \/ Take(e, t)
                         \/ Add(e) \/ End(e) \/ Outlive(e) \/ MergeBack(e)
                         \/ CommitWork(e) \/ Leave(e) \/ Release(e)
  \/ \E v \in Verifiers : BeginVerify(v) \/ Merge(v) \/ Conclude(v) \/ Stop(v)
  \/ Restart
WtSpec == WtInit /\ [][WtNext]_wtVars

-----------------------------------------------------------------------------
\* Type: the states of the code's tables, of git and of the pool; a slot waits in
\* the pool once at most, and never while a task holds it.
WtTypeOK ==
  /\ pooled \in BOOLEAN /\ refs \subseteq Branches /\ head \in refs
  /\ commits \in [Branches -> SUBSET Attempts]
  /\ modified \in [Paths -> SUBSET Attempts] /\ untracked \in [Paths -> SUBSET Attempts]
  /\ held \in [WTasks -> ToSet(Slots) \cup {Unheld}]
  /\ loose \subseteq {e \in Attempts : work[e].at \notin {"away", "working"}}
  /\ IsInjective(free) /\ ToSet(free) \subseteq ToSet(Slots)
  /\ \A t \in WTasks : held[t] \notin ToSet(free)

\* Two attempts share a workspace, or a slot is held twice, only after a task was
\* given out again while an earlier attempt of it was still at work.
WorkspaceIsPrivate ==
  ~doubled =>
    /\ \A e, f \in Attempts : e # f /\ Present(e) /\ Present(f) => work[e].path # work[f].path
    /\ \A t, u \in WTasks : t # u /\ held[t] = held[u] => held[t] = Unheld

\* What an attempt has left uncommitted stays until it is committed, until the task
\* is attempted again, or until the pool is made anew: "skipping automatic cleanup
\* to prevent data loss" (main.rs), unless two attempts of a task met or its agent
\* went on after it had ended.
UncommittedStays ==
  [][~doubled' /\ restarts' = restarts =>
       \A p \in Paths : \A e \in Uncommitted(p) \ loose :
         \/ e \in modified'[p] \cup untracked'[p] \cup commits'[p]
         \/ \E f \in Attempts : work[f].at = "away" /\ TaskOf(f)' = TaskOf(e)]_wtVars

\* No change reaches main but where two verifications overlapped in the one
\* repository or one ran again and found its branch there.
MainMovesOnlyAstray == ~strayed => commits["main"] = {}

\* A slot that is neither in the pool nor held by a task, which no one gives back
\* until the restart, was that of an attempt whose task has been attempted again: a
\* retry does not release it, and the next acquisition forgets it.
LostSlotsAreRetried ==
  pooled =>
    \A s \in ToSet(Slots) \ ToSet(free) :
      \/ \E t \in WTasks : held[t] = s
      \/ \E e, f \in Attempts : e < f /\ work[e].path = s /\ TaskOf(e) = TaskOf(f)

\* An attempt finds in its workspace no changes but its own, and those of an agent
\* that outlived its attempt: what a pool's slot keeps of the attempt before it is
\* never handed on, though the reset of the slot restores no tracked file.
WorkspaceHasItsOwn ==
  ~doubled =>
    \A e \in Attempts : Present(e) => Uncommitted(work[e].path) \subseteq {e} \cup loose

\* With worktrees of their own or a pool's: no two attempts at work share a
\* workspace, what a slot keeps is not handed on, a slot is lost only by a retry, and
\* main moves only where two verifications met.
WorkspacesInv ==
  /\ WtTypeOK
  /\ WorkspaceIsPrivate
  /\ LostSlotsAreRetried
  /\ WorkspaceHasItsOwn
  /\ MainMovesOnlyAstray

\* "Execute the integration verification task: merge all completed worktrees into
\* an integration branch" (main.rs): what has been verified holds the changes that
\* had been committed for it before it began.
VerifiedHasTheWork ==
  \A v \in Verifiers : verify[v].at = "succeeded" => verify[v].due \subseteq commits[v]
==============================================================================
