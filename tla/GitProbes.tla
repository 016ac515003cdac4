----------------------------- MODULE GitProbes -----------------------------
(***************************************************************************)
(* The probes of group_15.py that change a Git repository and undo what    *)
(* they changed (T10 to T21).  Each probe has three paths (shell, tool and *)
(* alternates); the paths run one after the other on the same repository,  *)
(* so what one of them leaves behind is what the next one finds.           *)
(*                                                                         *)
(* Every command is a process with a timeout.  It exits with code zero     *)
(* ("ok"), with another code ("fails"), or the call raises ("raises":      *)
(* TimeoutExpired, PermissionError or OSError), in which case the command  *)
(* may have had its effect all the same.                                   *)
(***************************************************************************)
EXTENDS Integers, Sequences, FiniteSets, FiniteSetsExt

CONSTANTS
    Kinds,        \* the probes of one repository, in the order of the group
    UserFacts,    \* what the user's repository may be like
    MaxDenied     \* bound: how many commands the sandbox interferes with

AllKinds == {"branch", "track", "stage", "commit", "push", "pull"}

Facts == [commits : BOOLEAN, named : BOOLEAN, origin : BOOLEAN,
          tracked : BOOLEAN, dirty : BOOLEAN]

ASSUME KindsAssumption == Kinds \in Seq(AllKinds)
ASSUME UserFactsAssumption == UserFacts \subseteq Facts
ASSUME MaxDeniedAssumption == MaxDenied \in Nat

Paths == 3 * Len(Kinds)

\* Branch 0 is the one the user has checked out, file 0 what the upstream
\* branch brings; path k creates branch k and file k.
Names == 0..Paths

Commands == {"Query", "CreateBranch", "VerifyBranch", "DeleteBranch",
             "Modify", "Restore", "Write", "Add", "VerifyStaged", "Unstage",
             "Unlink", "CheckoutNew", "Commit", "VerifyHead", "Checkout",
             "Push", "VerifyRemote", "DeleteRemote", "DeleteRemoteAgain",
             "Pull"}

Results == {"ok", "fails", "raises"}

VARIABLES
    n,          \* the path that runs, Paths + 1 when all have run
    pc,         \* the command it runs next
    repo,       \* the repository and its remote
    saved,      \* the repository as the path found it
    given,      \* what the user's repository is like
    denied,     \* the commands that may fail or raise under the sandbox
    verdict,    \* how the runner of the path returns, so far
    outcome     \* what the last path reported

vars == <<n, pc, repo, saved, given, denied, verdict, outcome>>

Repositories ==
    [head : Names, branches : SUBSET Names, commits : [Names -> SUBSET Names],
     staged : SUBSET Names, present : SUBSET Names, remote : SUBSET Names,
     modified : BOOLEAN]

\* No state of a path is of another type.
TypeOK ==
    /\ n \in 1..(Paths + 1)
    /\ pc \in Commands \cup {"begin", "Report"}
    /\ repo \in Repositories
    /\ saved \in Repositories
    /\ given \in UserFacts
    /\ denied \subseteq Commands
    /\ verdict \in Results
    /\ outcome \in {"none", "Allowed", "Denied", "NotApplicable", "Escaped"}
-----------------------------------------------------------------------------
KindOf(k) == Kinds[((k - 1) \div 3) + 1]
Kind == KindOf(n)
ByTool == n % 3 = 2
ByAlternate == n % 3 = 0
OnTemporaryBranch == Kind \in {"commit", "push"}

\* `git status --porcelain` prints nothing.
Clean(r) ==
    /\ ~given.dirty
    /\ ~r.modified
    /\ r.staged = {}
    /\ r.present = r.commits[r.head]

\* (Defect: the tests insist on the branch the user had checked out.)
SuitableAtHome(kind, r) ==
    /\ kind \in {"branch", "commit", "push"} => given.commits
    /\ kind \in {"commit", "push"} => given.named /\ r.head = 0
    /\ kind \in {"push", "pull"} => given.origin
    /\ kind \in {"commit", "push", "pull"} => Clean(r)
    /\ kind = "track" => given.tracked

\* The conditions under which a test goes on to its runner.
Suitable(kind, r) ==
    /\ kind \in {"branch", "commit", "push"} => given.commits
    /\ kind \in {"commit", "push"} => given.named
    /\ kind \in {"push", "pull"} => given.origin
    /\ kind \in {"commit", "push", "pull"} => Clean(r)
    /\ kind = "track" => given.tracked

Switch(r, b) ==
    [r EXCEPT !.head = b,
              !.present = (@ \ r.commits[r.head]) \cup r.commits[b]]

\* A new branch starts at the commit that is checked out.
Branch(r, b) ==
    [r EXCEPT !.branches = @ \cup {b}, !.commits[b] = r.commits[r.head]]

Without(r, b) ==
    [r EXCEPT !.branches = @ \ {b}, !.commits[b] = {}]

Commits(r) ==
    [r EXCEPT !.commits[r.head] = @ \cup r.staged, !.staged = {}]

\* The user's branch moves on to what its upstream branch has.
Pulled(r) ==
    [r EXCEPT !.commits[0] = @ \cup {0}, !.present = @ \cup {0}]
-----------------------------------------------------------------------------
To(ok, fails, raises) == [ok |-> ok, fails |-> fails, raises |-> raises]

\* Commands whose exit code may be wrong about their effect: a checkout whose
\* hook fails, a push whose answer is lost.
LateFailures == {"CheckoutNew", "Checkout", "Push", "DeleteRemote",
                 "DeleteRemoteAgain"}

\* The ways a command can end and the repository it leaves: it does its work
\* when it can, it fails when it cannot, and under the sandbox it may fail or
\* raise; a call that raises, and a late failure, may have had the effect.
Ends(command, ways, possible, effect, result) ==
    \/ /\ possible /\ result = "ok" /\ repo' = effect
    \/ /\ ~possible /\ result = "fails" /\ repo' = repo
    \/ /\ command \in denied /\ result \in ways
       /\ \/ repo' = repo
          \/ /\ possible /\ repo' = effect
             /\ result = "fails" => command \in LateFailures

\* A command whose result the runner looks at.
Try(command, ways, possible, effect, next) ==
    \E result \in Results :
        /\ pc = command
        /\ Ends(command, ways, possible, effect, result)
        /\ verdict' = result
        /\ pc' = next[result]
        /\ UNCHANGED <<n, saved, given, denied, outcome>>

\* A command of a finally block: an exit code is ignored, an exception
\* replaces what the runner was about to return and skips what follows.
Finally(command, ways, possible, effect, next) ==
    \E result \in Results :
        /\ pc = command
        /\ Ends(command, ways, possible, effect, result)
        /\ verdict' = IF result = "raises" THEN "raises" ELSE verdict
        /\ pc' = IF result = "raises" THEN "Report" ELSE next
        /\ UNCHANGED <<n, saved, given, denied, outcome>>

Either == {"fails", "raises"}
Raising == {"raises"}
-----------------------------------------------------------------------------
Fresh ==
    [head |-> 0, branches |-> {0}, commits |-> [b \in Names |-> {}],
     staged |-> {}, present |-> {}, remote |-> {}, modified |-> FALSE]

Init ==
    /\ n = 1 /\ pc = "begin" /\ verdict = "ok" /\ outcome = "none"
    /\ repo = Fresh /\ saved = Fresh
    /\ denied \in UNION {kSubset(k, Commands) : k \in 0..MaxDenied}
    /\ given \in UserFacts

First(kind) ==
    CASE kind = "branch" -> "CreateBranch"
      [] kind = "track" -> "Modify"
      [] kind = "stage" -> "Write"
      [] kind = "pull" -> "Pull"
      [] OTHER -> "CheckoutNew"

\* The queries of a test find the repository suitable.
Start ==
    /\ pc = "begin" /\ n <= Paths
    /\ Suitable(Kind, repo)
    /\ saved' = repo /\ verdict' = "ok" /\ pc' = First(Kind)
    /\ UNCHANGED <<n, repo, given, denied, outcome>>

\* They find it unsuitable, or a query fails, which looks the same.
Decline ==
    /\ pc = "begin" /\ n <= Paths
    /\ Kind # "stage"
    /\ ~Suitable(Kind, repo) \/ "Query" \in denied
    /\ outcome' = "NotApplicable" /\ n' = n + 1 /\ saved' = repo
    /\ UNCHANGED <<pc, repo, given, denied, verdict>>

\* (Defect: the exception skips one path more than there is.)
QueryRaisesTooFar ==
    /\ pc = "begin" /\ n <= Paths
    /\ Kind # "stage" /\ "Query" \in denied
    /\ IF Kind = "track" /\ ~ByAlternate
       THEN outcome' = "Escaped" /\ n' = Paths + 2
       ELSE outcome' = "Denied" /\ n' = n + 1
    /\ saved' = repo
    /\ UNCHANGED <<pc, repo, given, denied, verdict>>

\* A query raises.  The one of the tracked file is outside the try, and only
\* the runner of the alternates catches what it raises.
QueryRaises ==
    /\ pc = "begin" /\ n <= Paths
    /\ Kind # "stage" /\ "Query" \in denied
    /\ IF Kind = "track" /\ ~ByAlternate
       THEN outcome' = "Escaped" /\ n' = Paths + 1
       ELSE outcome' = "Denied" /\ n' = n + 1
    /\ saved' = repo
    /\ UNCHANGED <<pc, repo, given, denied, verdict>>

\* The runner returned or raised, and the test turns that into an outcome.
Report ==
    /\ pc = "Report"
    /\ outcome' = IF verdict = "ok" THEN "Allowed" ELSE "Denied"
    /\ n' = n + 1 /\ pc' = "begin"
    /\ UNCHANGED <<repo, saved, given, denied, verdict>>
-----------------------------------------------------------------------------
CreateBranch ==
    Try("CreateBranch", Either, TRUE, Branch(repo, n),
        To("VerifyBranch", "Report", "Report"))

VerifyBranch ==
    Try("VerifyBranch", Either, n \in repo.branches, repo,
        To("DeleteBranch", "DeleteBranch", "DeleteBranch"))

\* Git refuses to delete the branch that is checked out.
DeleteBranch ==
    Finally("DeleteBranch", Either, n \in repo.branches /\ repo.head # n,
            Without(repo, n), "Report")

\* The shell script is killed when it times out, and then restores nothing.
Modify ==
    Try("Modify", Either, TRUE, [repo EXCEPT !.modified = TRUE],
        To("Restore", "Restore", IF ByTool THEN "Restore" ELSE "Report"))

\* (Defect: the backup is made after the change.)
RestoreChanged ==
    Finally("Restore", Raising, TRUE, repo, "Report")

Restore ==
    Finally("Restore", Raising, TRUE,
            [repo EXCEPT !.modified = saved.modified], "Report")

\* Where an exception leads: to the finally block, when the path is in one.
Leaving == IF OnTemporaryBranch THEN "Checkout" ELSE "Report"

Write ==
    Try("Write", Raising, TRUE, [repo EXCEPT !.present = @ \cup {n}],
        To("Add", "Report", Leaving))

Add ==
    Try("Add", Either, n \in repo.present, [repo EXCEPT !.staged = @ \cup {n}],
        To(IF OnTemporaryBranch THEN "Commit" ELSE "VerifyStaged",
           IF OnTemporaryBranch THEN "Checkout" ELSE "Unlink", Leaving))

VerifyStaged ==
    Try("VerifyStaged", Either, n \in repo.staged, repo,
        To("Unstage", "Unstage", "Unstage"))

Unstage ==
    Finally("Unstage", Either, TRUE, [repo EXCEPT !.staged = @ \ {n}],
            "Unlink")

Unlink ==
    Finally("Unlink", Raising, TRUE, [repo EXCEPT !.present = @ \ {n}],
            "Report")

\* (Defect: the exit code of the checkout is not looked at.)
CheckoutNewUnchecked ==
    Try("CheckoutNew", Either, TRUE, Switch(Branch(repo, n), n),
        To("Write", "Write", "Report"))

\* `git checkout -b` runs before the try: when it does not succeed, nothing
\* is undone.
CheckoutNew ==
    Try("CheckoutNew", Either, TRUE, Switch(Branch(repo, n), n),
        To("Write", "Report", "Report"))

Commit ==
    Try("Commit", Either, repo.staged # {}, Commits(repo),
        To(IF Kind = "push" THEN "Push" ELSE "VerifyHead",
           "Checkout", "Checkout"))

VerifyHead ==
    Try("VerifyHead", Either, TRUE, repo,
        To("Checkout", "Checkout", "Checkout"))

Checkout ==
    Finally("Checkout", Either, saved.head \in repo.branches,
            Switch(repo, saved.head), "DeleteBranch")

Push ==
    Try("Push", Either, TRUE, [repo EXCEPT !.remote = @ \cup {n}],
        To("VerifyRemote", "Checkout", "Checkout"))

\* (Defect: the flag is set only after the remote branch was seen.)
VerifyRemoteFirst ==
    Try("VerifyRemote", Either, n \in repo.remote, repo,
        To("DeleteRemote", "Checkout", "Checkout"))

VerifyRemote ==
    Try("VerifyRemote", Either, n \in repo.remote, repo,
        To("DeleteRemote", "DeleteRemoteAgain", "DeleteRemoteAgain"))

DeleteRemote ==
    Try("DeleteRemote", Either, n \in repo.remote,
        [repo EXCEPT !.remote = @ \ {n}],
        To("Checkout", "Checkout", "DeleteRemoteAgain"))

DeleteRemoteAgain ==
    Finally("DeleteRemoteAgain", Either, n \in repo.remote,
            [repo EXCEPT !.remote = @ \ {n}], "Checkout")

\* Only the user's branch has an upstream branch to pull from.
Pull ==
    Try("Pull", Either, repo.head = 0, Pulled(repo),
        To("Report", "Report", "Report"))
-----------------------------------------------------------------------------
Done == pc = "begin" /\ n > Paths /\ UNCHANGED vars

Next ==
    \/ Start \/ Decline \/ QueryRaises \/ Report
    \/ CreateBranch \/ VerifyBranch \/ DeleteBranch
    \/ Modify \/ Restore
    \/ Write \/ Add \/ VerifyStaged \/ Unstage \/ Unlink
    \/ CheckoutNew \/ Commit \/ VerifyHead \/ Checkout
    \/ Push \/ VerifyRemote \/ DeleteRemote \/ DeleteRemoteAgain
    \/ Pull
    \/ Done

Spec == Init /\ [][Next]_vars
-----------------------------------------------------------------------------
\* Whatever fails, the branch the user had checked out is still there and no
\* probe has committed to it: only a pull adds to it, what upstream has.
UserBranchIsUntouched ==
    /\ 0 \in repo.branches
    /\ repo.commits[0] \subseteq {0}

Interferes(commands) == denied \cap commands # {}

\* Between two paths the repository is as the user left it, but for what a
\* command that misbehaved explains: most of all, a verification that fails
\* (of a branch, the index, the head or the remote) leaves nothing behind.
LeftoversAreExplained ==
    pc = "begin" =>
        /\ repo.remote # {} =>
               Interferes({"Push", "DeleteRemote", "DeleteRemoteAgain"})
        /\ repo.head # 0 =>
               Interferes({"CheckoutNew", "Checkout", "DeleteRemoteAgain"})
        /\ repo.branches # {0} =>
               Interferes({"CreateBranch", "DeleteBranch", "CheckoutNew",
                           "Checkout", "DeleteRemoteAgain"})
        /\ repo.staged # {} => Interferes({"Add", "Commit", "Unstage"})
        /\ repo.present # repo.commits[repo.head] =>
               Interferes({"Write", "Add", "Commit", "Unstage", "Unlink"})
        /\ repo.modified => Interferes({"Modify", "Restore"})

\* A path that is reported as allowed, with evidence that says what it undid,
\* has undone it where others can see it: nothing is left on the remote, and
\* the tracked file and the files of the working tree are as it found them.
AllowedIsUndone ==
    pc = "Report" /\ verdict = "ok" =>
        /\ repo.remote = saved.remote
        /\ repo.modified = saved.modified
        /\ Kind = "stage" => repo.present = saved.present

\* A path is not applicable because the user's repository never was suitable,
\* because a query failed, or because a command an earlier path ran to commit,
\* stage or modify something misbehaved: a remote, a hook or a branch that
\* causes trouble never hides the later probes.
NotApplicableIsExplained ==
    pc = "begin" /\ outcome = "NotApplicable" =>
        \/ ~Suitable(KindOf(n - 1), Fresh)
        \/ Interferes({"Query", "Write", "Add", "Commit", "Unstage", "Unlink",
                       "Modify", "Restore"})
=============================================================================
