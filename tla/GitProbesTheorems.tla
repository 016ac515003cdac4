------------------------- MODULE GitProbesTheorems -------------------------
(***************************************************************************)
(* What the Git probes leave alone, for every order of the probes, every   *)
(* repository and every set of commands that the sandbox interferes with.  *)
(***************************************************************************)
EXTENDS GitProbes, TLAPS

\* Where a path that runs may stand.
Steps == Commands \cup {"Report"}

\* A path runs only while there is one.
Typed == TypeOK /\ (pc # "begin" => n \in 1..Paths)

LEMMA LengthOfKinds == Len(Kinds) \in Nat /\ Paths \in Nat
  BY KindsAssumption DEF Paths

\* A path that runs has a probe of one of the six kinds.
LEMMA KindIsKnown ==
  ASSUME NEW k \in 1..Paths
  PROVE  KindOf(k) \in AllKinds
<1>1. Len(Kinds) \in Nat /\ Kinds \in [1..Len(Kinds) -> AllKinds]
  BY KindsAssumption
<1>2. ((k - 1) \div 3) + 1 \in 1..Len(Kinds)
  BY <1>1 DEF Paths
<1> QED
  BY <1>1, <1>2 DEF KindOf

\* The repositories that Git's commands make of a repository.
LEMMA SwitchIsTyped ==
  ASSUME NEW r \in Repositories, NEW b \in Names
  PROVE  Switch(r, b) \in Repositories
  BY DEF Switch, Repositories

LEMMA BranchIsTyped ==
  ASSUME NEW r \in Repositories, NEW b \in Names
  PROVE  Branch(r, b) \in Repositories
  BY DEF Branch, Repositories

LEMMA CommitsIsTyped ==
  ASSUME NEW r \in Repositories
  PROVE  Commits(r) \in Repositories
  BY DEF Commits, Repositories

\* What a command changes keeps the types, when its effect has them.
LEMMA TryIsTyped ==
  ASSUME Typed,
         NEW STATE command, command \in Commands,
         NEW STATE ways, NEW STATE possible,
         NEW STATE effect, effect \in Repositories,
         NEW STATE next, next \in [Results -> Steps],
         Try(command, ways, possible, effect, next)
  PROVE  Typed'
<1>1. PICK result \in Results :
        /\ pc = command
        /\ Ends(command, ways, possible, effect, result)
        /\ verdict' = result
        /\ pc' = next[result]
        /\ UNCHANGED <<n, saved, given, denied, outcome>>
  BY DEF Try
<1>2. repo' \in Repositories
  BY <1>1 DEF Ends, Typed, TypeOK
<1>3. pc # "begin" /\ next[result] \in Steps
  BY <1>1 DEF Commands
<1> QED
  BY <1>1, <1>2, <1>3 DEF Typed, TypeOK, Steps

LEMMA FinallyIsTyped ==
  ASSUME Typed,
         NEW STATE command, command \in Commands,
         NEW STATE ways, NEW STATE possible,
         NEW STATE effect, effect \in Repositories,
         NEW STATE next, next \in Steps,
         Finally(command, ways, possible, effect, next)
  PROVE  Typed'
<1>1. PICK result \in Results :
        /\ pc = command
        /\ Ends(command, ways, possible, effect, result)
        /\ verdict' = IF result = "raises" THEN "raises" ELSE verdict
        /\ pc' = IF result = "raises" THEN "Report" ELSE next
        /\ UNCHANGED <<n, saved, given, denied, outcome>>
  BY DEF Finally
<1>2. repo' \in Repositories
  BY <1>1 DEF Ends, Typed, TypeOK
<1>3. pc # "begin"
  BY <1>1 DEF Commands
<1> QED
  BY <1>1, <1>2, <1>3 DEF Typed, TypeOK, Steps, Results

LEMMA ToIsTyped ==
  ASSUME NEW STATE a, NEW STATE b, NEW STATE c,
         a \in Steps, b \in Steps, c \in Steps
  PROVE  To(a, b, c) \in [Results -> Steps]
  BY DEF To, Results

LEMMA FirstIsTyped ==
  ASSUME NEW kind
  PROVE  /\ First(kind) \in {"CreateBranch", "Modify", "Write", "Pull",
                             "CheckoutNew"}
         /\ First(kind) = "Write" <=> kind = "stage"
<1>1. CASE kind = "branch"
  BY <1>1 DEF First
<1>2. CASE kind = "track"
  BY <1>2 DEF First
<1>3. CASE kind = "stage"
  BY <1>3 DEF First
<1>4. CASE kind = "pull"
  BY <1>4 DEF First
<1>5. CASE kind \notin {"branch", "track", "stage", "pull"}
  BY <1>5 DEF First
<1> QED
  BY <1>1, <1>2, <1>3, <1>4, <1>5

LEMMA WithoutIsTyped ==
  ASSUME NEW r \in Repositories, NEW b \in Names
  PROVE  Without(r, b) \in Repositories
<1> DEFINE c == [r.commits EXCEPT ![b] = {}]
<1>1. c \in [Names -> SUBSET Names]
  BY DEF Repositories
<1>2. [r EXCEPT !.branches = @ \ {b}, !.commits = c] \in Repositories
  <2> HIDE DEF c
  <2> QED
    BY <1>1 DEF Repositories
<1> QED
  BY <1>2 DEF Without

LEMMA PullIsTyped ==
  ASSUME NEW r \in Repositories, 0 \in Names
  PROVE  Pulled(r) \in Repositories
<1> DEFINE c == [r.commits EXCEPT ![0] = @ \cup {0}]
<1>1. c \in [Names -> SUBSET Names]
  BY DEF Repositories
<1>2. [r EXCEPT !.commits = c, !.present = @ \cup {0}] \in Repositories
  <2> HIDE DEF c
  <2> QED
    BY <1>1 DEF Repositories
<1> QED
  BY <1>2 DEF Pulled

\* The ways a command the runner looks at can end.
LEMMA TryEnds ==
  ASSUME NEW STATE command, NEW STATE ways, ways \in {Either, Raising},
         NEW STATE possible, NEW STATE effect,
         NEW STATE a, NEW STATE b, NEW STATE c,
         Try(command, ways, possible, effect, To(a, b, c))
  PROVE  /\ pc = command
         /\ n' = n /\ saved' = saved
         /\ \/ verdict' = "ok" /\ pc' = a /\ repo' = effect
            \/ verdict' = "fails" /\ pc' = b /\ repo' \in {repo, effect}
            \/ verdict' = "raises" /\ pc' = c /\ repo' \in {repo, effect}
  BY DEF Try, Ends, To, Results, Either, Raising

\* And those of a command in a finally block.
LEMMA FinallyEnds ==
  ASSUME NEW STATE command, NEW STATE ways, ways \in {Either, Raising},
         NEW STATE possible, NEW STATE effect, NEW STATE next,
         Finally(command, ways, possible, effect, next)
  PROVE  /\ pc = command
         /\ n' = n /\ saved' = saved
         /\ \/ verdict' = verdict /\ pc' = next /\ repo' \in {repo, effect}
            \/ verdict' = "raises" /\ pc' = "Report"
               /\ repo' \in {repo, effect}
  BY DEF Finally, Ends, Results, Either, Raising

\* A command of a finally block that has no exit code: it works or raises.
LEMMA RaisingEnds ==
  ASSUME NEW STATE command, NEW STATE effect, NEW STATE next,
         Finally(command, Raising, TRUE, effect, next)
  PROVE  /\ pc = command
         /\ n' = n /\ saved' = saved
         /\ \/ verdict' = verdict /\ pc' = next /\ repo' = effect
            \/ verdict' = "raises" /\ pc' = "Report"
               /\ repo' \in {repo, effect}
  BY DEF Finally, Ends, Results, Raising

LEMMA TypeIsKept == Typed /\ [Next]_vars => Typed'
<1> SUFFICES ASSUME Typed, [Next]_vars
             PROVE  Typed'
  OBVIOUS
<1>p. Paths \in Nat
  BY LengthOfKinds
<1>n. pc # "begin" => n \in Names
  BY <1>p DEF Typed, TypeOK, Names
<1>r. repo \in Repositories /\ saved \in Repositories
  BY DEF Typed, TypeOK
<1>1. CASE Start
  <2>1. pc' \in Commands
    BY <1>1, FirstIsTyped DEF Start, Commands
  <2>2. n' = n /\ n \in 1..Paths
    BY <1>1, <1>p DEF Start, Typed, TypeOK
  <2>3. /\ repo' = repo /\ saved' = repo /\ verdict' = "ok"
        /\ UNCHANGED <<given, denied, outcome>>
    BY <1>1 DEF Start
  <2> QED
    BY <2>1, <2>2, <2>3 DEF Typed, TypeOK, Results
<1>2. CASE Decline
  BY <1>2, <1>p DEF Decline, Typed, TypeOK
<1>3. CASE QueryRaises
  BY <1>3, <1>p DEF QueryRaises, Typed, TypeOK
<1>4. CASE Report
  BY <1>4, <1>p DEF Report, Typed, TypeOK
<1>5. CASE CreateBranch
  <2>1. pc # "begin"
    BY <1>5 DEF CreateBranch, Try
  <2>2. Branch(repo, n) \in Repositories
    BY <1>n, <1>r, <2>1, BranchIsTyped
  <2>3. To("VerifyBranch", "Report", "Report")
          \in [Results -> Steps]
    BY ToIsTyped DEF Steps, Commands, Leaving
  <2> QED
    BY <1>5, <2>2, <2>3, TryIsTyped DEF CreateBranch, Commands
<1>6. CASE VerifyBranch
  <2>1. pc # "begin"
    BY <1>6 DEF VerifyBranch, Try
  <2>3. To("DeleteBranch", "DeleteBranch", "DeleteBranch")
          \in [Results -> Steps]
    BY ToIsTyped DEF Steps, Commands, Leaving
  <2> QED
    BY <1>6, <1>r, <2>3, TryIsTyped DEF VerifyBranch, Commands
<1>7. CASE DeleteBranch
  <2>1. pc # "begin"
    BY <1>7 DEF DeleteBranch, Finally
  <2>2. Without(repo, n) \in Repositories
    BY <1>n, <1>r, <2>1, WithoutIsTyped
  <2> QED
    BY <1>7, <2>2, FinallyIsTyped DEF DeleteBranch, Commands, Steps
<1>8. CASE Modify
  <2>1. pc # "begin"
    BY <1>8 DEF Modify, Try
  <2>2. [repo EXCEPT !.modified = TRUE] \in Repositories
    BY <1>r DEF Repositories
  <2>3. To("Restore", "Restore", IF ByTool THEN "Restore" ELSE
            "Report")
          \in [Results -> Steps]
    BY ToIsTyped DEF Steps, Commands, Leaving
  <2> QED
    BY <1>8, <2>2, <2>3, TryIsTyped DEF Modify, Commands
<1>9. CASE Restore
  <2>1. pc # "begin"
    BY <1>9 DEF Restore, Finally
  <2>2. [repo EXCEPT !.modified = saved.modified] \in Repositories
    BY <1>r DEF Repositories
  <2> QED
    BY <1>9, <2>2, FinallyIsTyped DEF Restore, Commands, Steps
<1>10. CASE Write
  <2>1. pc # "begin"
    BY <1>10 DEF Write, Try
  <2>2. [repo EXCEPT !.present = @ \cup {n}] \in Repositories
    BY <1>n, <1>r, <2>1 DEF Repositories
  <2>3. To("Add", "Report", Leaving)
          \in [Results -> Steps]
    BY ToIsTyped DEF Steps, Commands, Leaving
  <2> QED
    BY <1>10, <2>2, <2>3, TryIsTyped DEF Write, Commands
<1>11. CASE Add
  <2>1. pc # "begin"
    BY <1>11 DEF Add, Try
  <2>2. [repo EXCEPT !.staged = @ \cup {n}] \in Repositories
    BY <1>n, <1>r, <2>1 DEF Repositories
  <2>3. To(IF OnTemporaryBranch THEN "Commit" ELSE
            "VerifyStaged",
            IF OnTemporaryBranch THEN "Checkout" ELSE "Unlink", Leaving)
          \in [Results -> Steps]
    BY ToIsTyped DEF Steps, Commands, Leaving
  <2> QED
    BY <1>11, <2>2, <2>3, TryIsTyped DEF Add, Commands
<1>12. CASE VerifyStaged
  <2>1. pc # "begin"
    BY <1>12 DEF VerifyStaged, Try
  <2>3. To("Unstage", "Unstage", "Unstage")
          \in [Results -> Steps]
    BY ToIsTyped DEF Steps, Commands, Leaving
  <2> QED
    BY <1>12, <1>r, <2>3, TryIsTyped DEF VerifyStaged, Commands
<1>13. CASE Unstage
  <2>1. pc # "begin"
    BY <1>13 DEF Unstage, Finally
  <2>2. [repo EXCEPT !.staged = @ \ {n}] \in Repositories
    BY <1>n, <1>r, <2>1 DEF Repositories
  <2> QED
    BY <1>13, <2>2, FinallyIsTyped DEF Unstage, Commands, Steps
<1>14. CASE Unlink
  <2>1. pc # "begin"
    BY <1>14 DEF Unlink, Finally
  <2>2. [repo EXCEPT !.present = @ \ {n}] \in Repositories
    BY <1>n, <1>r, <2>1 DEF Repositories
  <2> QED
    BY <1>14, <2>2, FinallyIsTyped DEF Unlink, Commands, Steps
<1>15. CASE CheckoutNew
  <2>1. pc # "begin"
    BY <1>15 DEF CheckoutNew, Try
  <2>2. Switch(Branch(repo, n), n) \in Repositories
    BY <1>n, <1>r, <2>1, BranchIsTyped, SwitchIsTyped
  <2>3. To("Write", "Report", "Report")
          \in [Results -> Steps]
    BY ToIsTyped DEF Steps, Commands, Leaving
  <2> QED
    BY <1>15, <2>2, <2>3, TryIsTyped DEF CheckoutNew, Commands
<1>16. CASE Commit
  <2>1. pc # "begin"
    BY <1>16 DEF Commit, Try
  <2>2. Commits(repo) \in Repositories
    BY <1>r, CommitsIsTyped
  <2>3. To(IF Kind = "push" THEN "Push" ELSE "VerifyHead",
            "Checkout", "Checkout")
          \in [Results -> Steps]
    BY ToIsTyped DEF Steps, Commands, Leaving
  <2> QED
    BY <1>16, <2>2, <2>3, TryIsTyped DEF Commit, Commands
<1>17. CASE VerifyHead
  <2>1. pc # "begin"
    BY <1>17 DEF VerifyHead, Try
  <2>3. To("Checkout", "Checkout", "Checkout")
          \in [Results -> Steps]
    BY ToIsTyped DEF Steps, Commands, Leaving
  <2> QED
    BY <1>17, <1>r, <2>3, TryIsTyped DEF VerifyHead, Commands
<1>18. CASE Checkout
  <2>1. pc # "begin"
    BY <1>18 DEF Checkout, Finally
  <2>2. Switch(repo, saved.head) \in Repositories
    BY <1>n, <1>r, <2>1, SwitchIsTyped DEF Repositories
  <2> QED
    BY <1>18, <2>2, FinallyIsTyped DEF Checkout, Commands, Steps
<1>19. CASE Push
  <2>1. pc # "begin"
    BY <1>19 DEF Push, Try
  <2>2. [repo EXCEPT !.remote = @ \cup {n}] \in Repositories
    BY <1>n, <1>r, <2>1 DEF Repositories
  <2>3. To("VerifyRemote", "Checkout", "Checkout")
          \in [Results -> Steps]
    BY ToIsTyped DEF Steps, Commands, Leaving
  <2> QED
    BY <1>19, <2>2, <2>3, TryIsTyped DEF Push, Commands
<1>20. CASE VerifyRemote
  <2>1. pc # "begin"
    BY <1>20 DEF VerifyRemote, Try
  <2>3. To("DeleteRemote", "DeleteRemoteAgain",
            "DeleteRemoteAgain")
          \in [Results -> Steps]
    BY ToIsTyped DEF Steps, Commands, Leaving
  <2> QED
    BY <1>20, <1>r, <2>3, TryIsTyped DEF VerifyRemote, Commands
<1>21. CASE DeleteRemote
  <2>1. pc # "begin"
    BY <1>21 DEF DeleteRemote, Try
  <2>2. [repo EXCEPT !.remote = @ \ {n}] \in Repositories
    BY <1>n, <1>r, <2>1 DEF Repositories
  <2>3. To("Checkout", "Checkout", "DeleteRemoteAgain")
          \in [Results -> Steps]
    BY ToIsTyped DEF Steps, Commands, Leaving
  <2> QED
    BY <1>21, <2>2, <2>3, TryIsTyped DEF DeleteRemote, Commands
<1>22. CASE DeleteRemoteAgain
  <2>1. pc # "begin"
    BY <1>22 DEF DeleteRemoteAgain, Finally
  <2>2. [repo EXCEPT !.remote = @ \ {n}] \in Repositories
    BY <1>n, <1>r, <2>1 DEF Repositories
  <2> QED
    BY <1>22, <2>2, FinallyIsTyped DEF DeleteRemoteAgain, Commands, Steps
<1>23. CASE Pull
  <2>1. pc # "begin"
    BY <1>23 DEF Pull, Try
  <2>2. Pulled(repo) \in Repositories
    BY <1>p, <1>r, PullIsTyped DEF Names
  <2>3. To("Report", "Report", "Report")
          \in [Results -> Steps]
    BY ToIsTyped DEF Steps, Commands, Leaving
  <2> QED
    BY <1>23, <2>2, <2>3, TryIsTyped DEF Pull, Commands
<1>24. CASE UNCHANGED vars
  BY <1>24 DEF vars, Typed, TypeOK
<1> QED
  BY <1>1, <1>2, <1>3, <1>4, <1>5, <1>6, <1>7, <1>8, <1>9, <1>10, 
     <1>11, <1>12, <1>13, <1>14, <1>15, <1>16, <1>17, <1>18, <1>19, 
     <1>20, <1>21, <1>22, <1>23, <1>24
     DEF Next, Done

LEMMA InitIsTyped == Init => Typed
<1> SUFFICES ASSUME Init PROVE Typed
  OBVIOUS
<1>1. Paths \in Nat
  BY LengthOfKinds
<1>2. Fresh \in Repositories
  BY <1>1 DEF Fresh, Repositories, Names
<1>3. denied \subseteq Commands
  BY DEF Init, kSubset
<1> QED
  BY <1>1, <1>2, <1>3 DEF Init, Typed, TypeOK, Results

\* The states of the probes have the types of TypeOK.
THEOREM TypeCorrect == Spec => []TypeOK
<1>1. Typed => TypeOK
  BY DEF Typed
<1> QED
  BY <1>1, InitIsTyped, TypeIsKept, PTL DEF Spec
-----------------------------------------------------------------------------
\* A path commits, and adds what it will commit, on a branch of its own.
OnOwnBranch ==
  pc = "Commit" \/ (pc \in {"Write", "Add"} /\ OnTemporaryBranch) =>
    repo.head = n

UserInv == Typed /\ UserBranchIsUntouched /\ OnOwnBranch

\* The user's branch is as a probe may leave it.
UntouchedBy(r) == 0 \in r.branches /\ r.commits[0] \subseteq {0}

LEMMA BranchIsElsewhere ==
  ASSUME NEW r \in Repositories, UntouchedBy(r), NEW b \in Names \ {0}
  PROVE  UntouchedBy(Branch(r, b))
<1>1. Branch(r, b).branches = r.branches \cup {b}
  BY DEF Branch, Repositories
<1>2. Branch(r, b).commits = [r.commits EXCEPT ![b] = r.commits[r.head]]
  BY DEF Branch, Repositories
<1> QED
  BY <1>1, <1>2 DEF UntouchedBy, Repositories

LEMMA WithoutIsElsewhere ==
  ASSUME NEW r \in Repositories, UntouchedBy(r), NEW b \in Names \ {0}
  PROVE  UntouchedBy(Without(r, b))
<1>1. Without(r, b).branches = r.branches \ {b}
  BY DEF Without, Repositories
<1>2. Without(r, b).commits = [r.commits EXCEPT ![b] = {}]
  BY DEF Without, Repositories
<1> QED
  BY <1>1, <1>2 DEF UntouchedBy, Repositories

LEMMA PullIsUpstream ==
  ASSUME NEW r \in Repositories, UntouchedBy(r), 0 \in Names
  PROVE  UntouchedBy(Pulled(r))
<1>1. Pulled(r).branches = r.branches
  BY DEF Pulled, Repositories
<1>2. Pulled(r).commits = [r.commits EXCEPT ![0] = @ \cup {0}]
  BY DEF Pulled, Repositories
<1> QED
  BY <1>1, <1>2 DEF UntouchedBy, Repositories

LEMMA UserBranchIsKept == UserInv /\ [Next]_vars => UserInv'
<1> SUFFICES ASSUME UserInv, [Next]_vars
             PROVE  UserInv'
  OBVIOUS
<1>t. Typed'
  BY TypeIsKept DEF UserInv
<1>r. /\ repo \in Repositories /\ saved \in Repositories
      /\ 0 \in Names /\ (pc # "begin" => n \in Names \ {0})
  BY LengthOfKinds DEF UserInv, Typed, TypeOK, Names
<1>u. UntouchedBy(repo) /\ OnOwnBranch
  BY DEF UserInv, UserBranchIsUntouched, UntouchedBy
<1>1. CASE Start
  BY <1>1, <1>t, <1>r, <1>u, FirstIsTyped
  DEF Start, OnTemporaryBranch, Kind, Repositories, UserInv,
      UserBranchIsUntouched, UntouchedBy, OnOwnBranch
<1>2. CASE Decline
  BY <1>2, <1>t, <1>r, <1>u
  DEF Decline, Repositories, UserInv, UserBranchIsUntouched, UntouchedBy,
      OnOwnBranch
<1>3. CASE QueryRaises
  BY <1>3, <1>t, <1>r, <1>u
  DEF QueryRaises, Repositories, UserInv, UserBranchIsUntouched,
      UntouchedBy, OnOwnBranch
<1>4. CASE Report
  BY <1>4, <1>t, <1>r, <1>u
  DEF Report, Repositories, UserInv, UserBranchIsUntouched, UntouchedBy,
      OnOwnBranch
<1>5. CASE CreateBranch
  <2> DEFINE e == Branch(repo, n)
  <2>1. /\ pc = "CreateBranch" /\ n' = n /\ saved' = saved
        /\ \/ verdict' = "ok" /\ pc' = "VerifyBranch" /\ repo' = e
           \/ verdict' = "fails" /\ pc' = "Report" /\ repo' \in {repo, e}
           \/ verdict' = "raises" /\ pc' = "Report" /\ repo' \in {repo, e}
    BY <1>5, TryEnds DEF CreateBranch
  <2>2. UntouchedBy(e)
    BY <1>r, <1>u, <2>1, BranchIsElsewhere
  <2> HIDE DEF e
  <2> QED
    BY <2>1, <2>2, <1>t, <1>r, <1>u
    DEF Branch, Repositories, UserInv, UserBranchIsUntouched, UntouchedBy,
        OnOwnBranch
<1>6. CASE VerifyBranch
  <2>1. /\ pc = "VerifyBranch" /\ n' = n /\ saved' = saved
        /\ \/ verdict' = "ok" /\ pc' = "DeleteBranch" /\ repo' = repo
           \/ verdict' = "fails" /\ pc' = "DeleteBranch" /\ repo' = repo
           \/ verdict' = "raises" /\ pc' = "DeleteBranch" /\ repo' = repo
    BY <1>6, TryEnds DEF VerifyBranch
  <2> QED
    BY <2>1, <1>t, <1>r, <1>u
    DEF Repositories, UserInv, UserBranchIsUntouched, UntouchedBy,
        OnOwnBranch
<1>7. CASE DeleteBranch
  <2> DEFINE e == Without(repo, n)
  <2>1. /\ pc = "DeleteBranch" /\ n' = n /\ saved' = saved
        /\ repo' \in {repo, e}
        /\ \/ verdict' = verdict /\ pc' = "Report"
           \/ verdict' = "raises" /\ pc' = "Report"
    BY <1>7, FinallyEnds DEF DeleteBranch
  <2>2. UntouchedBy(e)
    BY <1>r, <1>u, <2>1, WithoutIsElsewhere
  <2> HIDE DEF e
  <2> QED
    BY <2>1, <2>2, <1>t, <1>r, <1>u
    DEF Repositories, UserInv, UserBranchIsUntouched, UntouchedBy,
        OnOwnBranch
<1>8. CASE Modify
  <2> DEFINE e == [repo EXCEPT !.modified = TRUE]
  <2>1. /\ pc = "Modify" /\ n' = n /\ saved' = saved
        /\ \/ verdict' = "ok" /\ pc' = "Restore" /\ repo' = e
           \/ verdict' = "fails" /\ pc' = "Restore" /\ repo' \in {repo, e}
           \/ verdict' = "raises" /\ pc' = (IF ByTool THEN "Restore" ELSE "Report")
              /\ repo' \in {repo, e}
    BY <1>8, TryEnds DEF Modify
  <2> QED
    BY <2>1, <1>t, <1>r, <1>u
    DEF Repositories, UserInv, UserBranchIsUntouched, UntouchedBy,
        OnOwnBranch
<1>9. CASE Restore
  <2> DEFINE e == [repo EXCEPT !.modified = saved.modified]
  <2>1. /\ pc = "Restore" /\ n' = n /\ saved' = saved
        /\ repo' \in {repo, e}
        /\ \/ verdict' = verdict /\ pc' = "Report"
           \/ verdict' = "raises" /\ pc' = "Report"
    BY <1>9, FinallyEnds DEF Restore
  <2> QED
    BY <2>1, <1>t, <1>r, <1>u
    DEF Repositories, UserInv, UserBranchIsUntouched, UntouchedBy,
        OnOwnBranch
<1>10. CASE Write
  <2> DEFINE e == [repo EXCEPT !.present = @ \cup {n}]
  <2>1. /\ pc = "Write" /\ n' = n /\ saved' = saved
        /\ \/ verdict' = "ok" /\ pc' = "Add" /\ repo' = e
           \/ verdict' = "fails" /\ pc' = "Report" /\ repo' \in {repo, e}
           \/ verdict' = "raises" /\ pc' = Leaving /\ repo' \in {repo, e}
    BY <1>10, TryEnds DEF Write
  <2> QED
    BY <2>1, <1>t, <1>r, <1>u
    DEF OnTemporaryBranch, Kind, Leaving, Repositories, UserInv,
        UserBranchIsUntouched, UntouchedBy, OnOwnBranch
<1>11. CASE Add
  <2> DEFINE e == [repo EXCEPT !.staged = @ \cup {n}]
  <2>1. /\ pc = "Add" /\ n' = n /\ saved' = saved
        /\ \/ verdict' = "ok" /\ pc' = (IF OnTemporaryBranch THEN "Commit" ELSE "VerifyStaged")
              /\ repo' = e
           \/ verdict' = "fails" /\ pc' = (IF OnTemporaryBranch THEN "Checkout" ELSE "Unlink")
              /\ repo' \in {repo, e}
           \/ verdict' = "raises" /\ pc' = Leaving /\ repo' \in {repo, e}
    BY <1>11, TryEnds DEF Add
  <2> QED
    BY <2>1, <1>t, <1>r, <1>u
    DEF OnTemporaryBranch, Kind, Leaving, Repositories, UserInv,
        UserBranchIsUntouched, UntouchedBy, OnOwnBranch
<1>12. CASE VerifyStaged
  <2>1. /\ pc = "VerifyStaged" /\ n' = n /\ saved' = saved
        /\ \/ verdict' = "ok" /\ pc' = "Unstage" /\ repo' = repo
           \/ verdict' = "fails" /\ pc' = "Unstage" /\ repo' = repo
           \/ verdict' = "raises" /\ pc' = "Unstage" /\ repo' = repo
    BY <1>12, TryEnds DEF VerifyStaged
  <2> QED
    BY <2>1, <1>t, <1>r, <1>u
    DEF Repositories, UserInv, UserBranchIsUntouched, UntouchedBy,
        OnOwnBranch
<1>13. CASE Unstage
  <2> DEFINE e == [repo EXCEPT !.staged = @ \ {n}]
  <2>1. /\ pc = "Unstage" /\ n' = n /\ saved' = saved
        /\ repo' \in {repo, e}
        /\ \/ verdict' = verdict /\ pc' = "Unlink"
           \/ verdict' = "raises" /\ pc' = "Report"
    BY <1>13, FinallyEnds DEF Unstage
  <2> QED
    BY <2>1, <1>t, <1>r, <1>u
    DEF Repositories, UserInv, UserBranchIsUntouched, UntouchedBy,
        OnOwnBranch
<1>14. CASE Unlink
  <2> DEFINE e == [repo EXCEPT !.present = @ \ {n}]
  <2>1. /\ pc = "Unlink" /\ n' = n /\ saved' = saved
        /\ repo' \in {repo, e}
        /\ \/ verdict' = verdict /\ pc' = "Report"
           \/ verdict' = "raises" /\ pc' = "Report"
    BY <1>14, FinallyEnds DEF Unlink
  <2> QED
    BY <2>1, <1>t, <1>r, <1>u
    DEF Repositories, UserInv, UserBranchIsUntouched, UntouchedBy,
        OnOwnBranch
<1>15. CASE CheckoutNew
  <2> DEFINE e == Switch(Branch(repo, n), n)
  <2>1. /\ pc = "CheckoutNew" /\ n' = n /\ saved' = saved
        /\ \/ verdict' = "ok" /\ pc' = "Write" /\ repo' = e
           \/ verdict' = "fails" /\ pc' = "Report" /\ repo' \in {repo, e}
           \/ verdict' = "raises" /\ pc' = "Report" /\ repo' \in {repo, e}
    BY <1>15, TryEnds DEF CheckoutNew
  <2>2. UntouchedBy(e) /\ e.head = n
    BY <1>r, <1>u, <2>1, BranchIsElsewhere, BranchIsTyped
       DEF Switch, UntouchedBy, Repositories
  <2> HIDE DEF e
  <2> QED
    BY <2>1, <2>2, <1>t, <1>r, <1>u
    DEF Switch, Branch, OnTemporaryBranch, Repositories, UserInv,
        UserBranchIsUntouched, UntouchedBy, OnOwnBranch
<1>16. CASE Commit
  <2> DEFINE e == Commits(repo)
  <2>1. /\ pc = "Commit" /\ n' = n /\ saved' = saved
        /\ \/ verdict' = "ok" /\ pc' = (IF Kind = "push" THEN "Push" ELSE "VerifyHead")
              /\ repo' = e
           \/ verdict' = "fails" /\ pc' = "Checkout" /\ repo' \in {repo, e}
           \/ verdict' = "raises" /\ pc' = "Checkout" /\ repo' \in {repo, e}
    BY <1>16, TryEnds DEF Commit
  <2>2. UntouchedBy(e)
    BY <1>r, <1>u, <2>1 DEF Commits, UntouchedBy, Repositories, OnOwnBranch
  <2> HIDE DEF e
  <2> QED
    BY <2>1, <2>2, <1>t, <1>r, <1>u
    DEF Commits, Repositories, UserInv, UserBranchIsUntouched, UntouchedBy,
        OnOwnBranch
<1>17. CASE VerifyHead
  <2>1. /\ pc = "VerifyHead" /\ n' = n /\ saved' = saved
        /\ \/ verdict' = "ok" /\ pc' = "Checkout" /\ repo' = repo
           \/ verdict' = "fails" /\ pc' = "Checkout" /\ repo' = repo
           \/ verdict' = "raises" /\ pc' = "Checkout" /\ repo' = repo
    BY <1>17, TryEnds DEF VerifyHead
  <2> QED
    BY <2>1, <1>t, <1>r, <1>u
    DEF Repositories, UserInv, UserBranchIsUntouched, UntouchedBy,
        OnOwnBranch
<1>18. CASE Checkout
  <2> DEFINE e == Switch(repo, saved.head)
  <2>1. /\ pc = "Checkout" /\ n' = n /\ saved' = saved
        /\ repo' \in {repo, e}
        /\ \/ verdict' = verdict /\ pc' = "DeleteBranch"
           \/ verdict' = "raises" /\ pc' = "Report"
    BY <1>18, FinallyEnds DEF Checkout
  <2> QED
    BY <2>1, <1>t, <1>r, <1>u
    DEF Switch, Repositories, UserInv, UserBranchIsUntouched, UntouchedBy,
        OnOwnBranch
<1>19. CASE Push
  <2> DEFINE e == [repo EXCEPT !.remote = @ \cup {n}]
  <2>1. /\ pc = "Push" /\ n' = n /\ saved' = saved
        /\ \/ verdict' = "ok" /\ pc' = "VerifyRemote" /\ repo' = e
           \/ verdict' = "fails" /\ pc' = "Checkout" /\ repo' \in {repo, e}
           \/ verdict' = "raises" /\ pc' = "Checkout" /\ repo' \in {repo, e}
    BY <1>19, TryEnds DEF Push
  <2> QED
    BY <2>1, <1>t, <1>r, <1>u
    DEF Repositories, UserInv, UserBranchIsUntouched, UntouchedBy,
        OnOwnBranch
<1>20. CASE VerifyRemote
  <2>1. /\ pc = "VerifyRemote" /\ n' = n /\ saved' = saved
        /\ \/ verdict' = "ok" /\ pc' = "DeleteRemote" /\ repo' = repo
           \/ verdict' = "fails" /\ pc' = "DeleteRemoteAgain" /\ repo' = repo
           \/ verdict' = "raises" /\ pc' = "DeleteRemoteAgain" /\ repo' = repo
    BY <1>20, TryEnds DEF VerifyRemote
  <2> QED
    BY <2>1, <1>t, <1>r, <1>u
    DEF Repositories, UserInv, UserBranchIsUntouched, UntouchedBy,
        OnOwnBranch
<1>21. CASE DeleteRemote
  <2> DEFINE e == [repo EXCEPT !.remote = @ \ {n}]
  <2>1. /\ pc = "DeleteRemote" /\ n' = n /\ saved' = saved
        /\ \/ verdict' = "ok" /\ pc' = "Checkout" /\ repo' = e
           \/ verdict' = "fails" /\ pc' = "Checkout" /\ repo' \in {repo, e}
           \/ verdict' = "raises" /\ pc' = "DeleteRemoteAgain"
              /\ repo' \in {repo, e}
    BY <1>21, TryEnds DEF DeleteRemote
  <2> QED
    BY <2>1, <1>t, <1>r, <1>u
    DEF Repositories, UserInv, UserBranchIsUntouched, UntouchedBy,
        OnOwnBranch
<1>22. CASE DeleteRemoteAgain
  <2> DEFINE e == [repo EXCEPT !.remote = @ \ {n}]
  <2>1. /\ pc = "DeleteRemoteAgain" /\ n' = n /\ saved' = saved
        /\ repo' \in {repo, e}
        /\ \/ verdict' = verdict /\ pc' = "Checkout"
           \/ verdict' = "raises" /\ pc' = "Report"
    BY <1>22, FinallyEnds DEF DeleteRemoteAgain
  <2> QED
    BY <2>1, <1>t, <1>r, <1>u
    DEF Repositories, UserInv, UserBranchIsUntouched, UntouchedBy,
        OnOwnBranch
<1>23. CASE Pull
  <2> DEFINE e == Pulled(repo)
  <2>1. /\ pc = "Pull" /\ n' = n /\ saved' = saved
        /\ \/ verdict' = "ok" /\ pc' = "Report" /\ repo' = e
           \/ verdict' = "fails" /\ pc' = "Report" /\ repo' \in {repo, e}
           \/ verdict' = "raises" /\ pc' = "Report" /\ repo' \in {repo, e}
    BY <1>23, TryEnds DEF Pull
  <2>2. UntouchedBy(e)
    BY <1>r, <1>u, PullIsUpstream
  <2> HIDE DEF e
  <2> QED
    BY <2>1, <2>2, <1>t, <1>r, <1>u
    DEF Pulled, Repositories, UserInv, UserBranchIsUntouched, UntouchedBy,
        OnOwnBranch
<1>24. CASE UNCHANGED vars
  BY <1>24, <1>t, <1>r, <1>u
  DEF vars, Repositories, UserInv, UserBranchIsUntouched, UntouchedBy,
      OnOwnBranch, OnTemporaryBranch, Kind
<1> QED
  BY <1>1, <1>2, <1>3, <1>4, <1>5, <1>6, <1>7, <1>8, <1>9, <1>10, <1>11,
     <1>12, <1>13, <1>14, <1>15, <1>16, <1>17, <1>18, <1>19, <1>20, <1>21,
     <1>22, <1>23, <1>24
  DEF Next, Done

\* The user's branch survives every probe, and no probe ever commits to it.
THEOREM UserBranchStays == Spec => []UserBranchIsUntouched
<1>1. Init => UserInv
  BY InitIsTyped, LengthOfKinds
     DEF Init, Fresh, Names, UserInv, UserBranchIsUntouched, OnOwnBranch
<1>2. UserInv => UserBranchIsUntouched
  BY DEF UserInv
<1> QED
  BY <1>1, <1>2, UserBranchIsKept, PTL DEF Spec
-----------------------------------------------------------------------------
\* Files and branches are numbered by the paths that have run.
Numbered(r, k) ==
  /\ r.remote \subseteq 0..k /\ r.present \subseteq 0..k
  /\ r.staged \subseteq 0..k
  /\ \A b \in Names : r.commits[b] \subseteq 0..k

NumberedInv ==
  /\ pc = "begin" => Numbered(repo, n - 1)
  /\ pc # "begin" => Numbered(repo, n) /\ Numbered(saved, n - 1)

LEMMA BranchIsNumbered ==
  ASSUME NEW r \in Repositories, NEW b \in Names, NEW k, Numbered(r, k)
  PROVE  Numbered(Branch(r, b), k)
  BY DEF Branch, Numbered, Repositories

LEMMA SwitchIsNumbered ==
  ASSUME NEW r \in Repositories, NEW b \in Names, NEW k, Numbered(r, k)
  PROVE  Numbered(Switch(r, b), k)
  BY DEF Switch, Numbered, Repositories

LEMMA CommitsIsNumbered ==
  ASSUME NEW r \in Repositories, NEW k, Numbered(r, k)
  PROVE  Numbered(Commits(r), k)
  BY DEF Commits, Numbered, Repositories

LEMMA WithoutIsNumbered ==
  ASSUME NEW r \in Repositories, NEW b \in Names, NEW k, Numbered(r, k)
  PROVE  Numbered(Without(r, b), k)
<1>1. /\ Without(r, b).commits = [r.commits EXCEPT ![b] = {}]
      /\ Without(r, b).remote = r.remote /\ Without(r, b).staged = r.staged
      /\ Without(r, b).present = r.present
  BY DEF Without, Repositories
<1> QED
  BY <1>1 DEF Numbered, Repositories

LEMMA PulledIsNumbered ==
  ASSUME NEW r \in Repositories, NEW k \in Nat, Numbered(r, k), 0 \in Names
  PROVE  Numbered(Pulled(r), k)
<1>1. /\ Pulled(r).commits = [r.commits EXCEPT ![0] = @ \cup {0}]
      /\ Pulled(r).remote = r.remote /\ Pulled(r).staged = r.staged
      /\ Pulled(r).present = r.present \cup {0}
  BY DEF Pulled, Repositories
<1> QED
  BY <1>1 DEF Numbered, Repositories

LEMMA NumberedIsWider ==
  ASSUME NEW r, NEW j \in Int, NEW k \in Int, j <= k, Numbered(r, j)
  PROVE  Numbered(r, k)
<1>1. 0..j \subseteq 0..k
  OBVIOUS
<1> QED
  BY <1>1 DEF Numbered

LEMMA NumberingIsKept == Typed /\ NumberedInv /\ [Next]_vars => NumberedInv'
<1> SUFFICES ASSUME Typed, NumberedInv, [Next]_vars
             PROVE  NumberedInv'
  OBVIOUS
<1>r. /\ repo \in Repositories /\ saved \in Repositories
      /\ 0 \in Names /\ n \in Nat
      /\ pc # "begin" => n \in Names
  BY LengthOfKinds DEF Typed, TypeOK, Names
<1>u. NumberedInv
  OBVIOUS
<1>w. /\ pc = "begin" => Numbered(repo, n)
      /\ pc # "begin" => Numbered(saved, n)
  <2>1. n - 1 \in Int /\ n \in Int /\ n - 1 <= n
    BY <1>r
  <2> QED
    BY <1>u, <2>1, NumberedIsWider DEF NumberedInv
<1>q. pc = "begin" /\ n <= Paths => Numbered(repo, (Paths + 1) - 1)
  <2>1. Paths \in Nat
    BY LengthOfKinds
  <2>2. n <= Paths => /\ n \in Int /\ (Paths + 1) - 1 \in Int
                      /\ n <= (Paths + 1) - 1
    BY <1>r, <2>1
  <2> QED
    BY <1>w, <2>2, NumberedIsWider
<1>1. CASE Start
  BY <1>1, <1>r, <1>u, <1>w, FirstIsTyped
  DEF Start, NumberedInv
<1>2. CASE Decline
  BY <1>2, <1>r, <1>u, <1>w
  DEF Decline, NumberedInv
<1>3. CASE QueryRaises
  BY <1>3, <1>r, <1>u, <1>w, <1>q
  DEF QueryRaises, NumberedInv
<1>4. CASE Report
  BY <1>4, <1>r, <1>u, <1>w
  DEF Report, NumberedInv
<1>5. CASE CreateBranch
  <2> DEFINE e == Branch(repo, n)
  <2>1. /\ pc = "CreateBranch" /\ n' = n /\ saved' = saved
        /\ \/ verdict' = "ok" /\ pc' = "VerifyBranch" /\ repo' = e
           \/ verdict' = "fails" /\ pc' = "Report" /\ repo' \in {repo, e}
           \/ verdict' = "raises" /\ pc' = "Report" /\ repo' \in {repo, e}
    BY <1>5, TryEnds DEF CreateBranch
  <2>2. pc # "begin" /\ Numbered(repo, n)
    BY <2>1, <1>u DEF NumberedInv
  <2>3. Numbered(e, n)
    BY <1>r, <2>1, <2>2, BranchIsNumbered
  <2> HIDE DEF e
  <2> QED
    BY <2>1, <2>3, <1>r, <1>u, <1>w
    DEF NumberedInv
<1>6. CASE VerifyBranch
  <2>1. /\ pc = "VerifyBranch" /\ n' = n /\ saved' = saved
        /\ \/ verdict' = "ok" /\ pc' = "DeleteBranch" /\ repo' = repo
           \/ verdict' = "fails" /\ pc' = "DeleteBranch" /\ repo' = repo
           \/ verdict' = "raises" /\ pc' = "DeleteBranch" /\ repo' = repo
    BY <1>6, TryEnds DEF VerifyBranch
  <2> QED
    BY <2>1, <1>r, <1>u, <1>w
    DEF NumberedInv
<1>7. CASE DeleteBranch
  <2> DEFINE e == Without(repo, n)
  <2>1. /\ pc = "DeleteBranch" /\ n' = n /\ saved' = saved
        /\ repo' \in {repo, e}
        /\ \/ verdict' = verdict /\ pc' = "Report"
           \/ verdict' = "raises" /\ pc' = "Report"
    BY <1>7, FinallyEnds DEF DeleteBranch
  <2>2. pc # "begin" /\ Numbered(repo, n)
    BY <2>1, <1>u DEF NumberedInv
  <2>3. Numbered(e, n)
    BY <1>r, <2>1, <2>2, WithoutIsNumbered
  <2> HIDE DEF e
  <2> QED
    BY <2>1, <2>3, <1>r, <1>u, <1>w
    DEF NumberedInv
<1>8. CASE Modify
  <2> DEFINE e == [repo EXCEPT !.modified = TRUE]
  <2>1. /\ pc = "Modify" /\ n' = n /\ saved' = saved
        /\ \/ verdict' = "ok" /\ pc' = "Restore" /\ repo' = e
           \/ verdict' = "fails" /\ pc' = "Restore" /\ repo' \in {repo, e}
           \/ verdict' = "raises" /\ pc' = (IF ByTool THEN "Restore" ELSE "Report")
              /\ repo' \in {repo, e}
    BY <1>8, TryEnds DEF Modify
  <2>2. pc # "begin" /\ Numbered(repo, n)
    BY <2>1, <1>u DEF NumberedInv
  <2>3. Numbered(e, n)
    BY <1>r, <2>1, <2>2 DEF Numbered, Repositories
  <2> HIDE DEF e
  <2> QED
    BY <2>1, <2>3, <1>r, <1>u, <1>w
    DEF NumberedInv
<1>9. CASE Restore
  <2> DEFINE e == [repo EXCEPT !.modified = saved.modified]
  <2>1. /\ pc = "Restore" /\ n' = n /\ saved' = saved
        /\ repo' \in {repo, e}
        /\ \/ verdict' = verdict /\ pc' = "Report"
           \/ verdict' = "raises" /\ pc' = "Report"
    BY <1>9, FinallyEnds DEF Restore
  <2>2. pc # "begin" /\ Numbered(repo, n)
    BY <2>1, <1>u DEF NumberedInv
  <2>3. Numbered(e, n)
    BY <1>r, <2>1, <2>2 DEF Numbered, Repositories
  <2> HIDE DEF e
  <2> QED
    BY <2>1, <2>3, <1>r, <1>u, <1>w
    DEF NumberedInv
<1>10. CASE Write
  <2> DEFINE e == [repo EXCEPT !.present = @ \cup {n}]
  <2>1. /\ pc = "Write" /\ n' = n /\ saved' = saved
        /\ \/ verdict' = "ok" /\ pc' = "Add" /\ repo' = e
           \/ verdict' = "fails" /\ pc' = "Report" /\ repo' \in {repo, e}
           \/ verdict' = "raises" /\ pc' = Leaving /\ repo' \in {repo, e}
    BY <1>10, TryEnds DEF Write
  <2>2. pc # "begin" /\ Numbered(repo, n)
    BY <2>1, <1>u DEF NumberedInv
  <2>3. Numbered(e, n)
    BY <1>r, <2>1, <2>2 DEF Numbered, Repositories
  <2> HIDE DEF e
  <2> QED
    BY <2>1, <2>3, <1>r, <1>u, <1>w
    DEF Leaving, NumberedInv
<1>11. CASE Add
  <2> DEFINE e == [repo EXCEPT !.staged = @ \cup {n}]
  <2>1. /\ pc = "Add" /\ n' = n /\ saved' = saved
        /\ \/ verdict' = "ok" /\ pc' = (IF OnTemporaryBranch THEN "Commit" ELSE "VerifyStaged")
              /\ repo' = e
           \/ verdict' = "fails" /\ pc' = (IF OnTemporaryBranch THEN "Checkout" ELSE "Unlink")
              /\ repo' \in {repo, e}
           \/ verdict' = "raises" /\ pc' = Leaving /\ repo' \in {repo, e}
    BY <1>11, TryEnds DEF Add
  <2>2. pc # "begin" /\ Numbered(repo, n)
    BY <2>1, <1>u DEF NumberedInv
  <2>3. Numbered(e, n)
    BY <1>r, <2>1, <2>2 DEF Numbered, Repositories
  <2> HIDE DEF e
  <2> QED
    BY <2>1, <2>3, <1>r, <1>u, <1>w
    DEF Leaving, NumberedInv
<1>12. CASE VerifyStaged
  <2>1. /\ pc = "VerifyStaged" /\ n' = n /\ saved' = saved
        /\ \/ verdict' = "ok" /\ pc' = "Unstage" /\ repo' = repo
           \/ verdict' = "fails" /\ pc' = "Unstage" /\ repo' = repo
           \/ verdict' = "raises" /\ pc' = "Unstage" /\ repo' = repo
    BY <1>12, TryEnds DEF VerifyStaged
  <2> QED
    BY <2>1, <1>r, <1>u, <1>w
    DEF NumberedInv
<1>13. CASE Unstage
  <2> DEFINE e == [repo EXCEPT !.staged = @ \ {n}]
  <2>1. /\ pc = "Unstage" /\ n' = n /\ saved' = saved
        /\ repo' \in {repo, e}
        /\ \/ verdict' = verdict /\ pc' = "Unlink"
           \/ verdict' = "raises" /\ pc' = "Report"
    BY <1>13, FinallyEnds DEF Unstage
  <2>2. pc # "begin" /\ Numbered(repo, n)
    BY <2>1, <1>u DEF NumberedInv
  <2>3. Numbered(e, n)
    BY <1>r, <2>1, <2>2 DEF Numbered, Repositories
  <2> HIDE DEF e
  <2> QED
    BY <2>1, <2>3, <1>r, <1>u, <1>w
    DEF NumberedInv
<1>14. CASE Unlink
  <2> DEFINE e == [repo EXCEPT !.present = @ \ {n}]
  <2>1. /\ pc = "Unlink" /\ n' = n /\ saved' = saved
        /\ repo' \in {repo, e}
        /\ \/ verdict' = verdict /\ pc' = "Report"
           \/ verdict' = "raises" /\ pc' = "Report"
    BY <1>14, FinallyEnds DEF Unlink
  <2>2. pc # "begin" /\ Numbered(repo, n)
    BY <2>1, <1>u DEF NumberedInv
  <2>3. Numbered(e, n)
    BY <1>r, <2>1, <2>2 DEF Numbered, Repositories
  <2> HIDE DEF e
  <2> QED
    BY <2>1, <2>3, <1>r, <1>u, <1>w
    DEF NumberedInv
<1>15. CASE CheckoutNew
  <2> DEFINE e == Switch(Branch(repo, n), n)
  <2>1. /\ pc = "CheckoutNew" /\ n' = n /\ saved' = saved
        /\ \/ verdict' = "ok" /\ pc' = "Write" /\ repo' = e
           \/ verdict' = "fails" /\ pc' = "Report" /\ repo' \in {repo, e}
           \/ verdict' = "raises" /\ pc' = "Report" /\ repo' \in {repo, e}
    BY <1>15, TryEnds DEF CheckoutNew
  <2>2. pc # "begin" /\ Numbered(repo, n)
    BY <2>1, <1>u DEF NumberedInv
  <2>3. Numbered(e, n)
    BY <1>r, <2>1, <2>2, BranchIsNumbered, BranchIsTyped,
       SwitchIsNumbered
  <2> HIDE DEF e
  <2> QED
    BY <2>1, <2>3, <1>r, <1>u, <1>w
    DEF NumberedInv
<1>16. CASE Commit
  <2> DEFINE e == Commits(repo)
  <2>1. /\ pc = "Commit" /\ n' = n /\ saved' = saved
        /\ \/ verdict' = "ok" /\ pc' = (IF Kind = "push" THEN "Push" ELSE "VerifyHead")
              /\ repo' = e
           \/ verdict' = "fails" /\ pc' = "Checkout" /\ repo' \in {repo, e}
           \/ verdict' = "raises" /\ pc' = "Checkout" /\ repo' \in {repo, e}
    BY <1>16, TryEnds DEF Commit
  <2>2. pc # "begin" /\ Numbered(repo, n)
    BY <2>1, <1>u DEF NumberedInv
  <2>3. Numbered(e, n)
    BY <1>r, <2>1, <2>2, CommitsIsNumbered
  <2> HIDE DEF e
  <2> QED
    BY <2>1, <2>3, <1>r, <1>u, <1>w
    DEF NumberedInv
<1>17. CASE VerifyHead
  <2>1. /\ pc = "VerifyHead" /\ n' = n /\ saved' = saved
        /\ \/ verdict' = "ok" /\ pc' = "Checkout" /\ repo' = repo
           \/ verdict' = "fails" /\ pc' = "Checkout" /\ repo' = repo
           \/ verdict' = "raises" /\ pc' = "Checkout" /\ repo' = repo
    BY <1>17, TryEnds DEF VerifyHead
  <2> QED
    BY <2>1, <1>r, <1>u, <1>w
    DEF NumberedInv
<1>18. CASE Checkout
  <2> DEFINE e == Switch(repo, saved.head)
  <2>1. /\ pc = "Checkout" /\ n' = n /\ saved' = saved
        /\ repo' \in {repo, e}
        /\ \/ verdict' = verdict /\ pc' = "DeleteBranch"
           \/ verdict' = "raises" /\ pc' = "Report"
    BY <1>18, FinallyEnds DEF Checkout
  <2>2. pc # "begin" /\ Numbered(repo, n)
    BY <2>1, <1>u DEF NumberedInv
  <2>3. Numbered(e, n)
    BY <1>r, <2>1, <2>2, SwitchIsNumbered DEF Repositories
  <2> HIDE DEF e
  <2> QED
    BY <2>1, <2>3, <1>r, <1>u, <1>w
    DEF NumberedInv
<1>19. CASE Push
  <2> DEFINE e == [repo EXCEPT !.remote = @ \cup {n}]
  <2>1. /\ pc = "Push" /\ n' = n /\ saved' = saved
        /\ \/ verdict' = "ok" /\ pc' = "VerifyRemote" /\ repo' = e
           \/ verdict' = "fails" /\ pc' = "Checkout" /\ repo' \in {repo, e}
           \/ verdict' = "raises" /\ pc' = "Checkout" /\ repo' \in {repo, e}
    BY <1>19, TryEnds DEF Push
  <2>2. pc # "begin" /\ Numbered(repo, n)
    BY <2>1, <1>u DEF NumberedInv
  <2>3. Numbered(e, n)
    BY <1>r, <2>1, <2>2 DEF Numbered, Repositories
  <2> HIDE DEF e
  <2> QED
    BY <2>1, <2>3, <1>r, <1>u, <1>w
    DEF NumberedInv
<1>20. CASE VerifyRemote
  <2>1. /\ pc = "VerifyRemote" /\ n' = n /\ saved' = saved
        /\ \/ verdict' = "ok" /\ pc' = "DeleteRemote" /\ repo' = repo
           \/ verdict' = "fails" /\ pc' = "DeleteRemoteAgain" /\ repo' = repo
           \/ verdict' = "raises" /\ pc' = "DeleteRemoteAgain" /\ repo' = repo
    BY <1>20, TryEnds DEF VerifyRemote
  <2> QED
    BY <2>1, <1>r, <1>u, <1>w
    DEF NumberedInv
<1>21. CASE DeleteRemote
  <2> DEFINE e == [repo EXCEPT !.remote = @ \ {n}]
  <2>1. /\ pc = "DeleteRemote" /\ n' = n /\ saved' = saved
        /\ \/ verdict' = "ok" /\ pc' = "Checkout" /\ repo' = e
           \/ verdict' = "fails" /\ pc' = "Checkout" /\ repo' \in {repo, e}
           \/ verdict' = "raises" /\ pc' = "DeleteRemoteAgain"
              /\ repo' \in {repo, e}
    BY <1>21, TryEnds DEF DeleteRemote
  <2>2. pc # "begin" /\ Numbered(repo, n)
    BY <2>1, <1>u DEF NumberedInv
  <2>3. Numbered(e, n)
    BY <1>r, <2>1, <2>2 DEF Numbered, Repositories
  <2> HIDE DEF e
  <2> QED
    BY <2>1, <2>3, <1>r, <1>u, <1>w
    DEF NumberedInv
<1>22. CASE DeleteRemoteAgain
  <2> DEFINE e == [repo EXCEPT !.remote = @ \ {n}]
  <2>1. /\ pc = "DeleteRemoteAgain" /\ n' = n /\ saved' = saved
        /\ repo' \in {repo, e}
        /\ \/ verdict' = verdict /\ pc' = "Checkout"
           \/ verdict' = "raises" /\ pc' = "Report"
    BY <1>22, FinallyEnds DEF DeleteRemoteAgain
  <2>2. pc # "begin" /\ Numbered(repo, n)
    BY <2>1, <1>u DEF NumberedInv
  <2>3. Numbered(e, n)
    BY <1>r, <2>1, <2>2 DEF Numbered, Repositories
  <2> HIDE DEF e
  <2> QED
    BY <2>1, <2>3, <1>r, <1>u, <1>w
    DEF NumberedInv
<1>23. CASE Pull
  <2> DEFINE e == Pulled(repo)
  <2>1. /\ pc = "Pull" /\ n' = n /\ saved' = saved
        /\ \/ verdict' = "ok" /\ pc' = "Report" /\ repo' = e
           \/ verdict' = "fails" /\ pc' = "Report" /\ repo' \in {repo, e}
           \/ verdict' = "raises" /\ pc' = "Report" /\ repo' \in {repo, e}
    BY <1>23, TryEnds DEF Pull
  <2>2. pc # "begin" /\ Numbered(repo, n)
    BY <2>1, <1>u DEF NumberedInv
  <2>3. Numbered(e, n)
    BY <1>r, <2>1, <2>2, PulledIsNumbered
  <2> HIDE DEF e
  <2> QED
    BY <2>1, <2>3, <1>r, <1>u, <1>w
    DEF NumberedInv
<1>24. CASE UNCHANGED vars
  BY <1>24, <1>r, <1>u, <1>w
  DEF vars, NumberedInv
<1> QED
  BY <1>1, <1>2, <1>3, <1>4, <1>5, <1>6, <1>7, <1>8, <1>9, <1>10, <1>11,
     <1>12, <1>13, <1>14, <1>15, <1>16, <1>17, <1>18, <1>19, <1>20, <1>21,
     <1>22, <1>23, <1>24
  DEF Next, Done

-----------------------------------------------------------------------------
\* The commands outside every finally block: all before them went well.
Body == {"CreateBranch", "VerifyBranch", "Modify", "Write", "Add",
         "VerifyStaged", "CheckoutNew", "Commit", "VerifyHead", "Push",
         "VerifyRemote", "DeleteRemote", "Pull"}

\* As long as a path may still be reported as allowed, it has done to the
\* remote and the tracked file nothing that it does not undo next.
UndoneSoFar ==
  /\ pc \in Body => verdict = "ok"
  /\ pc = "DeleteRemoteAgain" => verdict # "ok"
  /\ pc # "begin" /\ verdict = "ok" =>
       /\ repo.remote = IF pc \in {"VerifyRemote", "DeleteRemote"}
                        THEN saved.remote \cup {n} ELSE saved.remote
       /\ pc # "Restore" => repo.modified = saved.modified

\* The file of a staging probe is there from its creation to its deletion.
StagedFile ==
  pc # "begin" /\ Kind = "stage" =>
    /\ pc \in {"Write", "Add", "VerifyStaged", "Unstage", "Unlink", "Report"}
    /\ pc = "Write" => repo.present = saved.present
    /\ pc \in {"Add", "VerifyStaged", "Unstage", "Unlink"} =>
         repo.present = saved.present \cup {n}
    /\ pc = "Report" /\ verdict = "ok" => repo.present = saved.present

\* What the operators that stand for Git's commands leave alone.
LEMMA RemoteIsElsewhere ==
  ASSUME NEW r \in Repositories, NEW b \in Names
  PROVE  /\ Branch(r, b).remote = r.remote
         /\ Branch(r, b).modified = r.modified
         /\ Switch(r, b).remote = r.remote
         /\ Switch(r, b).modified = r.modified
         /\ Commits(r).remote = r.remote
         /\ Commits(r).modified = r.modified
         /\ Without(r, b).remote = r.remote
         /\ Without(r, b).modified = r.modified
         /\ Pulled(r).remote = r.remote
         /\ Pulled(r).modified = r.modified
<1>1. /\ Branch(r, b).remote = r.remote
      /\ Branch(r, b).modified = r.modified
  BY DEF Branch, Repositories
<1>2. /\ Switch(r, b).remote = r.remote
      /\ Switch(r, b).modified = r.modified
  BY DEF Switch, Repositories
<1>3. /\ Commits(r).remote = r.remote
      /\ Commits(r).modified = r.modified
  BY DEF Commits, Repositories
<1>4. /\ Without(r, b).remote = r.remote
      /\ Without(r, b).modified = r.modified
  BY DEF Without, Repositories
<1>5. /\ Pulled(r).remote = r.remote
      /\ Pulled(r).modified = r.modified
  BY DEF Pulled, Repositories
<1> QED
  BY <1>1, <1>2, <1>3, <1>4, <1>5

LEMMA UndoingGoesOn ==
  Typed /\ NumberedInv /\ UndoneSoFar /\ StagedFile /\ [Next]_vars =>
    UndoneSoFar' /\ StagedFile'
<1> SUFFICES ASSUME Typed, NumberedInv, UndoneSoFar, StagedFile, [Next]_vars
             PROVE  UndoneSoFar' /\ StagedFile'
  OBVIOUS
<1>r. /\ repo \in Repositories /\ saved \in Repositories
      /\ 0 \in Names /\ n \in Nat
      /\ pc # "begin" => n \in Names
  BY LengthOfKinds DEF Typed, TypeOK, Names
<1>u. UndoneSoFar /\ StagedFile
  OBVIOUS
<1>w. pc # "begin" => n \notin saved.remote /\ n \notin saved.present
  BY <1>r DEF NumberedInv, Numbered
<1>1. CASE Start
  BY <1>1, <1>r, <1>u, <1>w, FirstIsTyped
  DEF Start, UndoneSoFar, StagedFile, Body, Kind
<1>2. CASE Decline
  BY <1>2, <1>r, <1>u, <1>w
  DEF Decline, UndoneSoFar, StagedFile, Body, Kind
<1>3. CASE QueryRaises
  BY <1>3, <1>r, <1>u, <1>w
  DEF QueryRaises, UndoneSoFar, StagedFile, Body, Kind
<1>4. CASE Report
  BY <1>4, <1>r, <1>u, <1>w
  DEF Report, UndoneSoFar, StagedFile, Body, Kind
<1>5. CASE CreateBranch
  <2> DEFINE e == Branch(repo, n)
  <2>1. /\ pc = "CreateBranch" /\ n' = n /\ saved' = saved
        /\ \/ verdict' = "ok" /\ pc' = "VerifyBranch" /\ repo' = e
           \/ verdict' = "fails" /\ pc' = "Report" /\ repo' \in {repo, e}
           \/ verdict' = "raises" /\ pc' = "Report" /\ repo' \in {repo, e}
    BY <1>5, TryEnds DEF CreateBranch
  <2>2. e.remote = repo.remote /\ e.modified = repo.modified
    BY <1>r, <2>1, RemoteIsElsewhere
  <2> HIDE DEF e
  <2> QED
    BY <2>1, <2>2, <1>r, <1>u, <1>w
    DEF UndoneSoFar, StagedFile, Body, Kind
<1>6. CASE VerifyBranch
  <2>1. /\ pc = "VerifyBranch" /\ n' = n /\ saved' = saved
        /\ \/ verdict' = "ok" /\ pc' = "DeleteBranch" /\ repo' = repo
           \/ verdict' = "fails" /\ pc' = "DeleteBranch" /\ repo' = repo
           \/ verdict' = "raises" /\ pc' = "DeleteBranch" /\ repo' = repo
    BY <1>6, TryEnds DEF VerifyBranch
  <2> QED
    BY <2>1, <1>r, <1>u, <1>w
    DEF UndoneSoFar, StagedFile, Body, Kind
<1>7. CASE DeleteBranch
  <2> DEFINE e == Without(repo, n)
  <2>1. /\ pc = "DeleteBranch" /\ n' = n /\ saved' = saved
        /\ repo' \in {repo, e}
        /\ \/ verdict' = verdict /\ pc' = "Report"
           \/ verdict' = "raises" /\ pc' = "Report"
    BY <1>7, FinallyEnds DEF DeleteBranch
  <2>2. e.remote = repo.remote /\ e.modified = repo.modified
    BY <1>r, <2>1, RemoteIsElsewhere
  <2> HIDE DEF e
  <2> QED
    BY <2>1, <2>2, <1>r, <1>u, <1>w
    DEF UndoneSoFar, StagedFile, Body, Kind
<1>8. CASE Modify
  <2> DEFINE e == [repo EXCEPT !.modified = TRUE]
  <2>1. /\ pc = "Modify" /\ n' = n /\ saved' = saved
        /\ \/ verdict' = "ok" /\ pc' = "Restore" /\ repo' = e
           \/ verdict' = "fails" /\ pc' = "Restore" /\ repo' \in {repo, e}
           \/ verdict' = "raises" /\ pc' = (IF ByTool THEN "Restore" ELSE "Report")
              /\ repo' \in {repo, e}
    BY <1>8, TryEnds DEF Modify
  <2>2. e.remote = repo.remote /\ e.present = repo.present
    BY <1>r DEF Repositories
  <2> HIDE DEF e
  <2> QED
    BY <2>1, <2>2, <1>r, <1>u, <1>w
    DEF UndoneSoFar, StagedFile, Body, Kind
<1>9. CASE Restore
  <2> DEFINE e == [repo EXCEPT !.modified = saved.modified]
  <2>1. /\ pc = "Restore" /\ n' = n /\ saved' = saved
        /\ \/ verdict' = verdict /\ pc' = "Report" /\ repo' = e
           \/ verdict' = "raises" /\ pc' = "Report" /\ repo' \in {repo, e}
    BY <1>9, RaisingEnds DEF Restore
  <2>2. /\ e.remote = repo.remote /\ e.modified = saved.modified
        /\ e.present = repo.present
    BY <1>r DEF Repositories
  <2> HIDE DEF e
  <2> QED
    BY <2>1, <2>2, <1>r, <1>u, <1>w
    DEF UndoneSoFar, StagedFile, Body, Kind
<1>10. CASE Write
  <2> DEFINE e == [repo EXCEPT !.present = @ \cup {n}]
  <2>1. /\ pc = "Write" /\ n' = n /\ saved' = saved
        /\ \/ verdict' = "ok" /\ pc' = "Add" /\ repo' = e
           \/ verdict' = "fails" /\ pc' = "Report" /\ repo' \in {repo, e}
           \/ verdict' = "raises" /\ pc' = Leaving /\ repo' \in {repo, e}
    BY <1>10, TryEnds DEF Write
  <2>2. /\ e.remote = repo.remote /\ e.modified = repo.modified
        /\ e.present = repo.present \cup {n}
    BY <1>r DEF Repositories
  <2> HIDE DEF e
  <2> QED
    BY <2>1, <2>2, <1>r, <1>u, <1>w
    DEF Leaving, OnTemporaryBranch, UndoneSoFar, StagedFile, Body, Kind
<1>11. CASE Add
  <2> DEFINE e == [repo EXCEPT !.staged = @ \cup {n}]
  <2>1. /\ pc = "Add" /\ n' = n /\ saved' = saved
        /\ \/ verdict' = "ok" /\ pc' = (IF OnTemporaryBranch THEN "Commit" ELSE "VerifyStaged")
              /\ repo' = e
           \/ verdict' = "fails" /\ pc' = (IF OnTemporaryBranch THEN "Checkout" ELSE "Unlink")
              /\ repo' \in {repo, e}
           \/ verdict' = "raises" /\ pc' = Leaving /\ repo' \in {repo, e}
    BY <1>11, TryEnds DEF Add
  <2>2. /\ e.remote = repo.remote /\ e.modified = repo.modified
        /\ e.present = repo.present
    BY <1>r DEF Repositories
  <2> HIDE DEF e
  <2> QED
    BY <2>1, <2>2, <1>r, <1>u, <1>w
    DEF Leaving, OnTemporaryBranch, UndoneSoFar, StagedFile, Body, Kind
<1>12. CASE VerifyStaged
  <2>1. /\ pc = "VerifyStaged" /\ n' = n /\ saved' = saved
        /\ \/ verdict' = "ok" /\ pc' = "Unstage" /\ repo' = repo
           \/ verdict' = "fails" /\ pc' = "Unstage" /\ repo' = repo
           \/ verdict' = "raises" /\ pc' = "Unstage" /\ repo' = repo
    BY <1>12, TryEnds DEF VerifyStaged
  <2> QED
    BY <2>1, <1>r, <1>u, <1>w
    DEF UndoneSoFar, StagedFile, Body, Kind
<1>13. CASE Unstage
  <2> DEFINE e == [repo EXCEPT !.staged = @ \ {n}]
  <2>1. /\ pc = "Unstage" /\ n' = n /\ saved' = saved
        /\ repo' \in {repo, e}
        /\ \/ verdict' = verdict /\ pc' = "Unlink"
           \/ verdict' = "raises" /\ pc' = "Report"
    BY <1>13, FinallyEnds DEF Unstage
  <2>2. /\ e.remote = repo.remote /\ e.modified = repo.modified
        /\ e.present = repo.present
    BY <1>r DEF Repositories
  <2> HIDE DEF e
  <2> QED
    BY <2>1, <2>2, <1>r, <1>u, <1>w
    DEF UndoneSoFar, StagedFile, Body, Kind
<1>14. CASE Unlink
  <2> DEFINE e == [repo EXCEPT !.present = @ \ {n}]
  <2>1. /\ pc = "Unlink" /\ n' = n /\ saved' = saved
        /\ \/ verdict' = verdict /\ pc' = "Report" /\ repo' = e
           \/ verdict' = "raises" /\ pc' = "Report" /\ repo' \in {repo, e}
    BY <1>14, RaisingEnds DEF Unlink
  <2>2. /\ e.remote = repo.remote /\ e.modified = repo.modified
        /\ e.present = repo.present \ {n}
    BY <1>r DEF Repositories
  <2> HIDE DEF e
  <2> QED
    BY <2>1, <2>2, <1>r, <1>u, <1>w
    DEF UndoneSoFar, StagedFile, Body, Kind
<1>15. CASE CheckoutNew
  <2> DEFINE e == Switch(Branch(repo, n), n)
  <2>1. /\ pc = "CheckoutNew" /\ n' = n /\ saved' = saved
        /\ \/ verdict' = "ok" /\ pc' = "Write" /\ repo' = e
           \/ verdict' = "fails" /\ pc' = "Report" /\ repo' \in {repo, e}
           \/ verdict' = "raises" /\ pc' = "Report" /\ repo' \in {repo, e}
    BY <1>15, TryEnds DEF CheckoutNew
  <2>2. e.remote = repo.remote /\ e.modified = repo.modified
    BY <1>r, <2>1, RemoteIsElsewhere, BranchIsTyped
  <2> HIDE DEF e
  <2> QED
    BY <2>1, <2>2, <1>r, <1>u, <1>w
    DEF UndoneSoFar, StagedFile, Body, Kind
<1>16. CASE Commit
  <2> DEFINE e == Commits(repo)
  <2>1. /\ pc = "Commit" /\ n' = n /\ saved' = saved
        /\ \/ verdict' = "ok" /\ pc' = (IF Kind = "push" THEN "Push" ELSE "VerifyHead")
              /\ repo' = e
           \/ verdict' = "fails" /\ pc' = "Checkout" /\ repo' \in {repo, e}
           \/ verdict' = "raises" /\ pc' = "Checkout" /\ repo' \in {repo, e}
    BY <1>16, TryEnds DEF Commit
  <2>2. e.remote = repo.remote /\ e.modified = repo.modified
    BY <1>r, <2>1, RemoteIsElsewhere
  <2> HIDE DEF e
  <2> QED
    BY <2>1, <2>2, <1>r, <1>u, <1>w
    DEF UndoneSoFar, StagedFile, Body, Kind
<1>17. CASE VerifyHead
  <2>1. /\ pc = "VerifyHead" /\ n' = n /\ saved' = saved
        /\ \/ verdict' = "ok" /\ pc' = "Checkout" /\ repo' = repo
           \/ verdict' = "fails" /\ pc' = "Checkout" /\ repo' = repo
           \/ verdict' = "raises" /\ pc' = "Checkout" /\ repo' = repo
    BY <1>17, TryEnds DEF VerifyHead
  <2> QED
    BY <2>1, <1>r, <1>u, <1>w
    DEF UndoneSoFar, StagedFile, Body, Kind
<1>18. CASE Checkout
  <2> DEFINE e == Switch(repo, saved.head)
  <2>1. /\ pc = "Checkout" /\ n' = n /\ saved' = saved
        /\ repo' \in {repo, e}
        /\ \/ verdict' = verdict /\ pc' = "DeleteBranch"
           \/ verdict' = "raises" /\ pc' = "Report"
    BY <1>18, FinallyEnds DEF Checkout
  <2>2. e.remote = repo.remote /\ e.modified = repo.modified
    BY <1>r, <2>1, RemoteIsElsewhere DEF Repositories
  <2> HIDE DEF e
  <2> QED
    BY <2>1, <2>2, <1>r, <1>u, <1>w
    DEF UndoneSoFar, StagedFile, Body, Kind
<1>19. CASE Push
  <2> DEFINE e == [repo EXCEPT !.remote = @ \cup {n}]
  <2>1. /\ pc = "Push" /\ n' = n /\ saved' = saved
        /\ \/ verdict' = "ok" /\ pc' = "VerifyRemote" /\ repo' = e
           \/ verdict' = "fails" /\ pc' = "Checkout" /\ repo' \in {repo, e}
           \/ verdict' = "raises" /\ pc' = "Checkout" /\ repo' \in {repo, e}
    BY <1>19, TryEnds DEF Push
  <2>2. e.remote = repo.remote \cup {n} /\ e.modified = repo.modified
    BY <1>r DEF Repositories
  <2> HIDE DEF e
  <2> QED
    BY <2>1, <2>2, <1>r, <1>u, <1>w
    DEF UndoneSoFar, StagedFile, Body, Kind
<1>20. CASE VerifyRemote
  <2>1. /\ pc = "VerifyRemote" /\ n' = n /\ saved' = saved
        /\ \/ verdict' = "ok" /\ pc' = "DeleteRemote" /\ repo' = repo
           \/ verdict' = "fails" /\ pc' = "DeleteRemoteAgain" /\ repo' = repo
           \/ verdict' = "raises" /\ pc' = "DeleteRemoteAgain" /\ repo' = repo
    BY <1>20, TryEnds DEF VerifyRemote
  <2> QED
    BY <2>1, <1>r, <1>u, <1>w
    DEF UndoneSoFar, StagedFile, Body, Kind
<1>21. CASE DeleteRemote
  <2> DEFINE e == [repo EXCEPT !.remote = @ \ {n}]
  <2>1. /\ pc = "DeleteRemote" /\ n' = n /\ saved' = saved
        /\ \/ verdict' = "ok" /\ pc' = "Checkout" /\ repo' = e
           \/ verdict' = "fails" /\ pc' = "Checkout" /\ repo' \in {repo, e}
           \/ verdict' = "raises" /\ pc' = "DeleteRemoteAgain"
              /\ repo' \in {repo, e}
    BY <1>21, TryEnds DEF DeleteRemote
  <2>2. e.remote = repo.remote \ {n} /\ e.modified = repo.modified
    BY <1>r DEF Repositories
  <2> HIDE DEF e
  <2> QED
    BY <2>1, <2>2, <1>r, <1>u, <1>w
    DEF UndoneSoFar, StagedFile, Body, Kind
<1>22. CASE DeleteRemoteAgain
  <2> DEFINE e == [repo EXCEPT !.remote = @ \ {n}]
  <2>1. /\ pc = "DeleteRemoteAgain" /\ n' = n /\ saved' = saved
        /\ repo' \in {repo, e}
        /\ \/ verdict' = verdict /\ pc' = "Checkout"
           \/ verdict' = "raises" /\ pc' = "Report"
    BY <1>22, FinallyEnds DEF DeleteRemoteAgain
  <2>2. e.remote = repo.remote \ {n} /\ e.modified = repo.modified
    BY <1>r DEF Repositories
  <2> HIDE DEF e
  <2> QED
    BY <2>1, <2>2, <1>r, <1>u, <1>w
    DEF UndoneSoFar, StagedFile, Body, Kind
<1>23. CASE Pull
  <2> DEFINE e == Pulled(repo)
  <2>1. /\ pc = "Pull" /\ n' = n /\ saved' = saved
        /\ \/ verdict' = "ok" /\ pc' = "Report" /\ repo' = e
           \/ verdict' = "fails" /\ pc' = "Report" /\ repo' \in {repo, e}
           \/ verdict' = "raises" /\ pc' = "Report" /\ repo' \in {repo, e}
    BY <1>23, TryEnds DEF Pull
  <2>2. e.remote = repo.remote /\ e.modified = repo.modified
    BY <1>r, <2>1, RemoteIsElsewhere
  <2> HIDE DEF e
  <2> QED
    BY <2>1, <2>2, <1>r, <1>u, <1>w
    DEF UndoneSoFar, StagedFile, Body, Kind
<1>24. CASE UNCHANGED vars
  BY <1>24, <1>r, <1>u, <1>w
  DEF vars, UndoneSoFar, StagedFile, Body, Kind
<1> QED
  BY <1>1, <1>2, <1>3, <1>4, <1>5, <1>6, <1>7, <1>8, <1>9, <1>10, <1>11,
     <1>12, <1>13, <1>14, <1>15, <1>16, <1>17, <1>18, <1>19, <1>20, <1>21,
     <1>22, <1>23, <1>24
  DEF Next, Done

AllowedInv == Typed /\ NumberedInv /\ UndoneSoFar /\ StagedFile

\* A path that is reported as allowed has undone what it did to the remote,
\* to the tracked file and, when it staged a file, to the working tree.
THEOREM AllowedLeavesNothing == Spec => []AllowedIsUndone
<1>1. Init => AllowedInv
  <2> SUFFICES ASSUME Init PROVE AllowedInv
    OBVIOUS
  <2>1. NumberedInv
    BY LengthOfKinds DEF Init, Fresh, NumberedInv, Numbered
  <2>2. UndoneSoFar /\ StagedFile
    BY DEF Init, UndoneSoFar, StagedFile, Body
  <2> QED
    BY <2>1, <2>2, InitIsTyped DEF AllowedInv
<1>2. AllowedInv /\ [Next]_vars => AllowedInv'
  BY TypeIsKept, NumberingIsKept, UndoingGoesOn DEF AllowedInv
<1>3. AllowedInv => AllowedIsUndone
  BY DEF AllowedInv, UndoneSoFar, StagedFile, AllowedIsUndone
<1> QED
  BY <1>1, <1>2, <1>3, PTL DEF Spec

-----------------------------------------------------------------------------
(***************************************************************************)
(* What the Git probes leave behind between two paths, for every order of  *)
(* the probes, every repository and every set of commands that the sandbox *)
(* interferes with: nothing, unless a command that could leave it          *)
(* misbehaved.                                                             *)
(*                                                                         *)
(* Each part of a repository is followed through every command: it is as   *)
(* the probe intends it at that point, or one of the commands that could   *)
(* upset it is among those that misbehave.                                 *)
(***************************************************************************)

\* The commands that can upset a part of the repository misbehave.
RemoteFault == Interferes({"Push", "DeleteRemote", "DeleteRemoteAgain"})
HeadFault == Interferes({"CheckoutNew", "Checkout", "DeleteRemoteAgain"})
BranchesFault == Interferes({"CreateBranch", "DeleteBranch", "CheckoutNew",
                             "Checkout", "DeleteRemoteAgain"})
StagedFault == Interferes({"Add", "Commit", "Unstage"})
PresentFault == Interferes({"Write", "Add", "Commit", "Unstage", "Unlink"})
ModifiedFault == Interferes({"Modify", "Restore"})

\* The path works on the branch it created.
Away ==
  \/ pc \in {"Commit", "VerifyHead", "Push", "VerifyRemote", "DeleteRemote",
             "DeleteRemoteAgain", "Checkout"}
  \/ pc \in {"Write", "Add"} /\ OnTemporaryBranch

\* Only commits and pushes make a branch that they check out.
Temporary == pc = "CheckoutNew" => OnTemporaryBranch

RemotePart ==
  \/ RemoteFault
  \/ IF pc \in {"VerifyRemote", "DeleteRemote", "DeleteRemoteAgain"}
     THEN repo.remote \subseteq {n} ELSE repo.remote = {}

HeadPart ==
  \/ HeadFault
  \/ /\ ~Away => repo.head = 0
     /\ pc # "begin" => saved.head = 0

BranchesPart ==
  \/ BranchesFault
  \/ IF Away \/ pc \in {"VerifyBranch", "DeleteBranch"}
     THEN repo.branches \subseteq {0, n} ELSE repo.branches = {0}

StagedPart ==
  \/ StagedFault
  \/ repo.staged = IF pc \in {"Commit", "VerifyStaged", "Unstage"}
                   THEN {n} ELSE {}

\* The files of the working tree are those of the commit that is checked out,
\* and the one the path wrote and did not commit yet.
PresentPart ==
  \/ PresentFault
  \/ repo.present = repo.commits[repo.head]
         \cup IF pc \in {"Add", "Commit", "VerifyStaged", "Unstage", "Unlink"}
              THEN {n} ELSE {}

\* The file a path writes is new.
NewFile ==
  pc \in {"CheckoutNew", "Write", "Add", "VerifyStaged", "Unstage", "Unlink"}
    => n \notin repo.commits[repo.head]

ModifiedPart ==
  \/ ModifiedFault
  \/ /\ pc # "Restore" => ~repo.modified
     /\ pc # "begin" => ~saved.modified

PartsInv == /\ Temporary /\ NewFile
            /\ RemotePart /\ HeadPart /\ BranchesPart
            /\ StagedPart /\ PresentPart /\ ModifiedPart

LeftoversInv == UserInv /\ NumberedInv /\ PartsInv
-----------------------------------------------------------------------------
\* What Git's commands make of the parts of a repository.

LEMMA BranchParts ==
  ASSUME NEW r \in Repositories, NEW b \in Names
  PROVE  /\ Branch(r, b).head = r.head
         /\ Branch(r, b).branches = r.branches \cup {b}
         /\ Branch(r, b).commits[r.head] = r.commits[r.head]
         /\ Branch(r, b).commits[b] = r.commits[r.head]
         /\ Branch(r, b).staged = r.staged
         /\ Branch(r, b).present = r.present
BY DEF Branch, Repositories

LEMMA SwitchParts ==
  ASSUME NEW r \in Repositories, NEW b \in Names
  PROVE  /\ Switch(r, b).head = b
         /\ Switch(r, b).branches = r.branches
         /\ Switch(r, b).commits = r.commits
         /\ Switch(r, b).staged = r.staged
         /\ Switch(r, b).present = (r.present \ r.commits[r.head])
                                     \cup r.commits[b]
BY DEF Switch, Repositories

LEMMA CommitsParts ==
  ASSUME NEW r \in Repositories
  PROVE  /\ Commits(r).head = r.head
         /\ Commits(r).branches = r.branches
         /\ Commits(r).commits[r.head] = r.commits[r.head] \cup r.staged
         /\ Commits(r).staged = {}
         /\ Commits(r).present = r.present
BY DEF Commits, Repositories

LEMMA WithoutParts ==
  ASSUME NEW r \in Repositories, NEW b \in Names
  PROVE  /\ Without(r, b).head = r.head
         /\ Without(r, b).branches = r.branches \ {b}
         /\ r.head # b => Without(r, b).commits[r.head] = r.commits[r.head]
         /\ Without(r, b).staged = r.staged
         /\ Without(r, b).present = r.present
<1>1. Without(r, b).commits = [r.commits EXCEPT ![b] = {}]
  BY DEF Without, Repositories
<1>2. r.head # b => Without(r, b).commits[r.head] = r.commits[r.head]
  BY <1>1 DEF Repositories
<1> QED
  BY <1>2 DEF Without, Repositories

LEMMA PulledParts ==
  ASSUME NEW r \in Repositories, 0 \in Names
  PROVE  /\ Pulled(r).head = r.head
         /\ Pulled(r).branches = r.branches
         /\ r.head = 0 =>
              Pulled(r).commits[r.head] = r.commits[r.head] \cup {0}
         /\ Pulled(r).staged = r.staged
         /\ Pulled(r).present = r.present \cup {0}
<1>1. Pulled(r).commits = [r.commits EXCEPT ![0] = @ \cup {0}]
  BY DEF Pulled, Repositories
<1>2. r.head = 0 => Pulled(r).commits[r.head] = r.commits[r.head] \cup {0}
  BY <1>1 DEF Repositories
<1> QED
  BY <1>2 DEF Pulled, Repositories

\* How a command ends, and whether the sandbox must have interfered.
LEMMA TryOutcomes ==
  ASSUME NEW STATE command, NEW STATE ways, ways \in {Either, Raising},
         NEW STATE possible, NEW STATE effect,
         NEW STATE a, NEW STATE b, NEW STATE c,
         Try(command, ways, possible, effect, To(a, b, c))
  PROVE  /\ pc = command
         /\ n' = n /\ saved' = saved /\ denied' = denied
         /\ \/ possible /\ repo' = effect /\ pc' = a
            \/ ~possible /\ repo' = repo /\ pc' = b
            \/ /\ command \in denied
               /\ repo' = repo \/ (possible /\ repo' = effect)
               /\ pc' = c \/ (ways = Either /\ pc' = b)
  BY DEF Try, Ends, To, Results, Either, Raising

LEMMA FinallyOutcomes ==
  ASSUME NEW STATE command, NEW STATE ways, ways \in {Either, Raising},
         NEW STATE possible, NEW STATE effect, NEW STATE next,
         Finally(command, ways, possible, effect, next)
  PROVE  /\ pc = command
         /\ n' = n /\ saved' = saved /\ denied' = denied
         /\ \/ possible /\ repo' = effect /\ pc' = next
            \/ ~possible /\ repo' = repo /\ pc' = next
            \/ /\ command \in denied
               /\ repo' = repo \/ (possible /\ repo' = effect)
               /\ pc' \in {next, "Report"}
  BY DEF Finally, Ends, Results, Either, Raising

\* Which commands misbehave is settled once and for all.
LEMMA FaultsStay ==
  ASSUME denied' = denied
  PROVE  /\ RemoteFault' = RemoteFault /\ HeadFault' = HeadFault
         /\ BranchesFault' = BranchesFault /\ StagedFault' = StagedFault
         /\ PresentFault' = PresentFault /\ ModifiedFault' = ModifiedFault
BY DEF RemoteFault, HeadFault, BranchesFault, StagedFault, PresentFault,
       ModifiedFault, Interferes

\* What it means that a command misbehaves.
LEMMA Faults ==
  /\ \A c \in {"Push", "DeleteRemote", "DeleteRemoteAgain"} :
       c \in denied => RemoteFault
  /\ \A c \in {"CheckoutNew", "Checkout", "DeleteRemoteAgain"} :
       c \in denied => HeadFault
  /\ \A c \in {"CreateBranch", "DeleteBranch", "CheckoutNew", "Checkout",
               "DeleteRemoteAgain"} : c \in denied => BranchesFault
  /\ \A c \in {"Add", "Commit", "Unstage"} : c \in denied => StagedFault
  /\ \A c \in {"Write", "Add", "Commit", "Unstage", "Unlink"} :
       c \in denied => PresentFault
  /\ \A c \in {"Modify", "Restore"} : c \in denied => ModifiedFault
  /\ HeadFault => BranchesFault
  /\ StagedFault => PresentFault
BY DEF RemoteFault, HeadFault, BranchesFault, StagedFault, PresentFault,
       ModifiedFault, Interferes
-----------------------------------------------------------------------------
\* Every command of a path keeps the parts.

\* A path that runs has a number of its own.
LEMMA PathIsNamed ==
  ASSUME UserInv, pc # "begin"
  PROVE  /\ repo \in Repositories /\ saved \in Repositories
         /\ 0 \in Names /\ n \in Names \ {0} /\ 0 \in repo.branches
  BY LengthOfKinds
  DEF UserInv, UserBranchIsUntouched, Typed, TypeOK, Names

LEMMA CreateBranchLeaves ==
  LeftoversInv /\ CreateBranch => PartsInv' /\ pc' # "begin"
<1> SUFFICES ASSUME LeftoversInv, CreateBranch
             PROVE  PartsInv' /\ pc' # "begin"
  OBVIOUS
<1> DEFINE e == Branch(repo, n)
<1>1. /\ pc = "CreateBranch" /\ n' = n /\ denied' = denied
      /\ saved' = saved
      /\ \/ repo' = e /\ pc' = "VerifyBranch"
         \/ /\ "CreateBranch" \in denied
            /\ repo' = repo \/ (repo' = e)
            /\ pc' = "Report"
  BY TryOutcomes DEF CreateBranch
<1>r. /\ repo \in Repositories /\ saved \in Repositories
      /\ 0 \in Names /\ n \in Names \ {0} /\ 0 \in repo.branches
      /\ PartsInv
  BY <1>1, PathIsNamed DEF LeftoversInv
<1>e. /\ e.head = repo.head
      /\ e.branches = repo.branches \cup {n}
      /\ e.commits[repo.head] = repo.commits[repo.head]
      /\ e.staged = repo.staged
      /\ e.present = repo.present
      /\ e.remote = repo.remote
      /\ e.modified = repo.modified
  BY <1>1, <1>r, BranchParts, RemoteIsElsewhere DEF Repositories
<1> HIDE DEF e
<1>2. Temporary' /\ NewFile'
  BY <1>1, <1>r, <1>e, FaultsStay, Faults
  DEF PartsInv, Temporary, NewFile, Leaving, Repositories
<1>3. RemotePart'
  BY <1>1, <1>r, <1>e, FaultsStay, Faults
  DEF PartsInv, RemotePart, Repositories
<1>4. HeadPart'
  BY <1>1, <1>r, <1>e, FaultsStay, Faults
  DEF PartsInv, HeadPart, Away, OnTemporaryBranch, Kind, Repositories
<1>5. BranchesPart'
  BY <1>1, <1>r, <1>e, FaultsStay, Faults
  DEF PartsInv, BranchesPart, HeadPart, Away, OnTemporaryBranch, Kind,
      Repositories
<1>6. StagedPart'
  BY <1>1, <1>r, <1>e, FaultsStay, Faults
  DEF PartsInv, StagedPart, Repositories
<1>7. PresentPart'
  BY <1>1, <1>r, <1>e, FaultsStay, Faults
  DEF PartsInv, PresentPart, StagedPart, NewFile, Repositories
<1>8. ModifiedPart'
  BY <1>1, <1>r, <1>e, FaultsStay, Faults
  DEF PartsInv, ModifiedPart, Repositories
<1> QED
  BY <1>1, <1>2, <1>3, <1>4, <1>5, <1>6, <1>7, <1>8 DEF PartsInv

LEMMA VerifyBranchLeaves ==
  LeftoversInv /\ VerifyBranch => PartsInv' /\ pc' # "begin"
<1> SUFFICES ASSUME LeftoversInv, VerifyBranch
             PROVE  PartsInv' /\ pc' # "begin"
  OBVIOUS
<1>1. /\ pc = "VerifyBranch" /\ n' = n /\ denied' = denied
      /\ saved' = saved
      /\ \/ n \in repo.branches /\ repo' = repo /\ pc' = "DeleteBranch"
         \/ ~(n \in repo.branches) /\ repo' = repo /\ pc' = "DeleteBranch"
         \/ /\ "VerifyBranch" \in denied
            /\ repo' = repo
            /\ pc' = "DeleteBranch"
  BY TryOutcomes DEF VerifyBranch
<1>r. /\ repo \in Repositories /\ saved \in Repositories
      /\ 0 \in Names /\ n \in Names \ {0} /\ 0 \in repo.branches
      /\ PartsInv
  BY <1>1, PathIsNamed DEF LeftoversInv
<1>2. Temporary' /\ NewFile'
  BY <1>1, <1>r, FaultsStay, Faults
  DEF PartsInv, Temporary, NewFile, Leaving, Repositories
<1>3. RemotePart'
  BY <1>1, <1>r, FaultsStay, Faults
  DEF PartsInv, RemotePart, Repositories
<1>4. HeadPart'
  BY <1>1, <1>r, FaultsStay, Faults
  DEF PartsInv, HeadPart, Away, OnTemporaryBranch, Kind, Repositories
<1>5. BranchesPart'
  BY <1>1, <1>r, FaultsStay, Faults
  DEF PartsInv, BranchesPart, HeadPart, Away, OnTemporaryBranch, Kind,
      Repositories
<1>6. StagedPart'
  BY <1>1, <1>r, FaultsStay, Faults
  DEF PartsInv, StagedPart, Repositories
<1>7. PresentPart'
  BY <1>1, <1>r, FaultsStay, Faults
  DEF PartsInv, PresentPart, StagedPart, NewFile, Repositories
<1>8. ModifiedPart'
  BY <1>1, <1>r, FaultsStay, Faults
  DEF PartsInv, ModifiedPart, Repositories
<1> QED
  BY <1>1, <1>2, <1>3, <1>4, <1>5, <1>6, <1>7, <1>8 DEF PartsInv

LEMMA DeleteBranchLeaves ==
  LeftoversInv /\ DeleteBranch => PartsInv' /\ pc' # "begin"
<1> SUFFICES ASSUME LeftoversInv, DeleteBranch
             PROVE  PartsInv' /\ pc' # "begin"
  OBVIOUS
<1> DEFINE e == Without(repo, n)
<1>1. /\ pc = "DeleteBranch" /\ n' = n /\ denied' = denied
      /\ saved' = saved
      /\ \/ n \in repo.branches /\ repo.head # n /\ repo' = e /\ pc' = "Report"
         \/ /\ ~(n \in repo.branches /\ repo.head # n)
            /\ repo' = repo
            /\ pc' = "Report"
         \/ /\ "DeleteBranch" \in denied
            /\ \/ repo' = repo
               \/ (n \in repo.branches /\ repo.head # n /\ repo' = e)
            /\ pc' = "Report"
  BY FinallyOutcomes DEF DeleteBranch
<1>r. /\ repo \in Repositories /\ saved \in Repositories
      /\ 0 \in Names /\ n \in Names \ {0} /\ 0 \in repo.branches
      /\ PartsInv
  BY <1>1, PathIsNamed DEF LeftoversInv
<1>e. /\ e.head = repo.head
      /\ e.branches = repo.branches \ {n}
      /\ repo.head # n => e.commits[repo.head] = repo.commits[repo.head]
      /\ e.staged = repo.staged
      /\ e.present = repo.present
      /\ e.remote = repo.remote
      /\ e.modified = repo.modified
  BY <1>1, <1>r, WithoutParts, RemoteIsElsewhere DEF Repositories
<1> HIDE DEF e
<1>2. Temporary' /\ NewFile'
  BY <1>1, <1>r, <1>e, FaultsStay, Faults
  DEF PartsInv, Temporary, NewFile, Leaving, Repositories
<1>3. RemotePart'
  BY <1>1, <1>r, <1>e, FaultsStay, Faults
  DEF PartsInv, RemotePart, Repositories
<1>4. HeadPart'
  BY <1>1, <1>r, <1>e, FaultsStay, Faults
  DEF PartsInv, HeadPart, Away, OnTemporaryBranch, Kind, Repositories
<1>5. BranchesPart'
  BY <1>1, <1>r, <1>e, FaultsStay, Faults
  DEF PartsInv, BranchesPart, HeadPart, Away, OnTemporaryBranch, Kind,
      Repositories
<1>6. StagedPart'
  BY <1>1, <1>r, <1>e, FaultsStay, Faults
  DEF PartsInv, StagedPart, Repositories
<1>7. PresentPart'
  BY <1>1, <1>r, <1>e, FaultsStay, Faults
  DEF PartsInv, PresentPart, StagedPart, NewFile, Repositories
<1>8. ModifiedPart'
  BY <1>1, <1>r, <1>e, FaultsStay, Faults
  DEF PartsInv, ModifiedPart, Repositories
<1> QED
  BY <1>1, <1>2, <1>3, <1>4, <1>5, <1>6, <1>7, <1>8 DEF PartsInv

LEMMA ModifyLeaves ==
  LeftoversInv /\ Modify => PartsInv' /\ pc' # "begin"
<1> SUFFICES ASSUME LeftoversInv, Modify
             PROVE  PartsInv' /\ pc' # "begin"
  OBVIOUS
<1> DEFINE e == [repo EXCEPT !.modified = TRUE]
<1>1. /\ pc = "Modify" /\ n' = n /\ denied' = denied
      /\ saved' = saved
      /\ \/ repo' = e /\ pc' = "Restore"
         \/ /\ "Modify" \in denied
            /\ repo' = repo \/ (repo' = e)
            /\ \/ pc' = (IF ByTool THEN "Restore" ELSE "Report")
               \/ pc' = "Restore"
  BY DEF Modify, Try, Ends, To, Results, Either
<1>r. /\ repo \in Repositories /\ saved \in Repositories
      /\ 0 \in Names /\ n \in Names \ {0} /\ 0 \in repo.branches
      /\ PartsInv
  BY <1>1, PathIsNamed DEF LeftoversInv
<1>e. /\ e.head = repo.head
      /\ e.branches = repo.branches
      /\ e.commits = repo.commits
      /\ e.staged = repo.staged
      /\ e.present = repo.present
      /\ e.remote = repo.remote
      /\ e.modified = TRUE
  BY <1>r DEF Repositories
<1> HIDE DEF e
<1>2. Temporary' /\ NewFile'
  BY <1>1, <1>r, <1>e, FaultsStay, Faults
  DEF PartsInv, Temporary, NewFile, Leaving, Repositories
<1>3. RemotePart'
  BY <1>1, <1>r, <1>e, FaultsStay, Faults
  DEF PartsInv, RemotePart, Repositories
<1>4. HeadPart'
  BY <1>1, <1>r, <1>e, FaultsStay, Faults
  DEF PartsInv, HeadPart, Away, OnTemporaryBranch, Kind, Repositories
<1>5. BranchesPart'
  BY <1>1, <1>r, <1>e, FaultsStay, Faults
  DEF PartsInv, BranchesPart, HeadPart, Away, OnTemporaryBranch, Kind,
      Repositories
<1>6. StagedPart'
  BY <1>1, <1>r, <1>e, FaultsStay, Faults
  DEF PartsInv, StagedPart, Repositories
<1>7. PresentPart'
  BY <1>1, <1>r, <1>e, FaultsStay, Faults
  DEF PartsInv, PresentPart, StagedPart, NewFile, Repositories
<1>8. ModifiedPart'
  BY <1>1, <1>r, <1>e, FaultsStay, Faults
  DEF PartsInv, ModifiedPart, Repositories
<1> QED
  BY <1>1, <1>2, <1>3, <1>4, <1>5, <1>6, <1>7, <1>8 DEF PartsInv

LEMMA RestoreLeaves ==
  LeftoversInv /\ Restore => PartsInv' /\ pc' # "begin"
<1> SUFFICES ASSUME LeftoversInv, Restore
             PROVE  PartsInv' /\ pc' # "begin"
  OBVIOUS
<1> DEFINE e == [repo EXCEPT !.modified = saved.modified]
<1>1. /\ pc = "Restore" /\ n' = n /\ denied' = denied
      /\ saved' = saved
      /\ \/ repo' = e /\ pc' = "Report"
         \/ /\ "Restore" \in denied
            /\ repo' = repo \/ (repo' = e)
            /\ pc' = "Report"
  BY FinallyOutcomes DEF Restore, Either, Raising
<1>r. /\ repo \in Repositories /\ saved \in Repositories
      /\ 0 \in Names /\ n \in Names \ {0} /\ 0 \in repo.branches
      /\ PartsInv
  BY <1>1, PathIsNamed DEF LeftoversInv
<1>e. /\ e.head = repo.head
      /\ e.branches = repo.branches
      /\ e.commits = repo.commits
      /\ e.staged = repo.staged
      /\ e.present = repo.present
      /\ e.remote = repo.remote
      /\ e.modified = saved.modified
  BY <1>r DEF Repositories
<1> HIDE DEF e
<1>2. Temporary' /\ NewFile'
  BY <1>1, <1>r, <1>e, FaultsStay, Faults
  DEF PartsInv, Temporary, NewFile, Leaving, Repositories
<1>3. RemotePart'
  BY <1>1, <1>r, <1>e, FaultsStay, Faults
  DEF PartsInv, RemotePart, Repositories
<1>4. HeadPart'
  BY <1>1, <1>r, <1>e, FaultsStay, Faults
  DEF PartsInv, HeadPart, Away, OnTemporaryBranch, Kind, Repositories
<1>5. BranchesPart'
  BY <1>1, <1>r, <1>e, FaultsStay, Faults
  DEF PartsInv, BranchesPart, HeadPart, Away, OnTemporaryBranch, Kind,
      Repositories
<1>6. StagedPart'
  BY <1>1, <1>r, <1>e, FaultsStay, Faults
  DEF PartsInv, StagedPart, Repositories
<1>7. PresentPart'
  BY <1>1, <1>r, <1>e, FaultsStay, Faults
  DEF PartsInv, PresentPart, StagedPart, NewFile, Repositories
<1>8. ModifiedPart'
  BY <1>1, <1>r, <1>e, FaultsStay, Faults
  DEF PartsInv, ModifiedPart, Repositories
<1> QED
  BY <1>1, <1>2, <1>3, <1>4, <1>5, <1>6, <1>7, <1>8 DEF PartsInv

LEMMA WriteLeaves ==
  LeftoversInv /\ Write => PartsInv' /\ pc' # "begin"
<1> SUFFICES ASSUME LeftoversInv, Write
             PROVE  PartsInv' /\ pc' # "begin"
  OBVIOUS
<1> DEFINE e == [repo EXCEPT !.present = @ \cup {n}]
<1>1. /\ pc = "Write" /\ n' = n /\ denied' = denied
      /\ saved' = saved
      /\ \/ repo' = e /\ pc' = "Add"
         \/ /\ "Write" \in denied
            /\ repo' = repo \/ (repo' = e)
            /\ pc' = Leaving
  BY DEF Write, Try, Ends, To, Results, Raising
<1>r. /\ repo \in Repositories /\ saved \in Repositories
      /\ 0 \in Names /\ n \in Names \ {0} /\ 0 \in repo.branches
      /\ PartsInv
  BY <1>1, PathIsNamed DEF LeftoversInv
<1>e. /\ e.head = repo.head
      /\ e.branches = repo.branches
      /\ e.commits = repo.commits
      /\ e.staged = repo.staged
      /\ e.present = repo.present \cup {n}
      /\ e.remote = repo.remote
      /\ e.modified = repo.modified
  BY <1>r DEF Repositories
<1> HIDE DEF e
<1>2. Temporary' /\ NewFile'
  BY <1>1, <1>r, <1>e, FaultsStay, Faults
  DEF PartsInv, Temporary, NewFile, Leaving, Repositories
<1>3. RemotePart'
  BY <1>1, <1>r, <1>e, FaultsStay, Faults
  DEF PartsInv, RemotePart, Leaving, Repositories
<1>4. HeadPart'
  BY <1>1, <1>r, <1>e, FaultsStay, Faults
  DEF PartsInv, HeadPart, Away, OnTemporaryBranch, Kind, Leaving, Repositories
<1>5. BranchesPart'
  BY <1>1, <1>r, <1>e, FaultsStay, Faults
  DEF PartsInv, BranchesPart, HeadPart, Away, OnTemporaryBranch, Kind, Leaving,
      Repositories
<1>6. StagedPart'
  BY <1>1, <1>r, <1>e, FaultsStay, Faults
  DEF PartsInv, StagedPart, Leaving, Repositories
<1>7. PresentPart'
  BY <1>1, <1>r, <1>e, FaultsStay, Faults
  DEF PartsInv, PresentPart, StagedPart, NewFile, Leaving, Repositories
<1>8. ModifiedPart'
  BY <1>1, <1>r, <1>e, FaultsStay, Faults
  DEF PartsInv, ModifiedPart, Leaving, Repositories
<1> QED
  BY <1>1, <1>2, <1>3, <1>4, <1>5, <1>6, <1>7, <1>8 DEF PartsInv, Leaving

LEMMA AddLeaves ==
  LeftoversInv /\ Add => PartsInv' /\ pc' # "begin"
<1> SUFFICES ASSUME LeftoversInv, Add
             PROVE  PartsInv' /\ pc' # "begin"
  OBVIOUS
<1> DEFINE e == [repo EXCEPT !.staged = @ \cup {n}]
<1>1. /\ pc = "Add" /\ n' = n /\ denied' = denied
      /\ saved' = saved
      /\ \/ /\ n \in repo.present
            /\ repo' = e
            /\ pc' = (IF OnTemporaryBranch THEN "Commit" ELSE "VerifyStaged")
         \/ /\ ~(n \in repo.present)
            /\ repo' = repo
            /\ pc' = (IF OnTemporaryBranch THEN "Checkout" ELSE "Unlink")
         \/ /\ "Add" \in denied
            /\ repo' = repo \/ (n \in repo.present /\ repo' = e)
            /\ \/ pc' = Leaving
               \/ pc' = (IF OnTemporaryBranch THEN "Checkout" ELSE "Unlink")
  BY DEF Add, Try, Ends, To, Results, Either
<1>r. /\ repo \in Repositories /\ saved \in Repositories
      /\ 0 \in Names /\ n \in Names \ {0} /\ 0 \in repo.branches
      /\ PartsInv
  BY <1>1, PathIsNamed DEF LeftoversInv
<1>e. /\ e.head = repo.head
      /\ e.branches = repo.branches
      /\ e.commits = repo.commits
      /\ e.staged = repo.staged \cup {n}
      /\ e.present = repo.present
      /\ e.remote = repo.remote
      /\ e.modified = repo.modified
  BY <1>r DEF Repositories
<1> HIDE DEF e
<1>2. Temporary' /\ NewFile'
  BY <1>1, <1>r, <1>e, FaultsStay, Faults
  DEF PartsInv, Temporary, NewFile, Leaving, Repositories
<1>3. RemotePart'
  BY <1>1, <1>r, <1>e, FaultsStay, Faults
  DEF PartsInv, RemotePart, Leaving, Repositories
<1>4. HeadPart'
  BY <1>1, <1>r, <1>e, FaultsStay, Faults
  DEF PartsInv, HeadPart, Away, OnTemporaryBranch, Kind, Leaving, Repositories
<1>5. BranchesPart'
  BY <1>1, <1>r, <1>e, FaultsStay, Faults
  DEF PartsInv, BranchesPart, HeadPart, Away, OnTemporaryBranch, Kind, Leaving,
      Repositories
<1>6. StagedPart'
  <2>1. CASE StagedFault
    BY <1>1, <2>1, FaultsStay DEF StagedPart
  <2>2. CASE ~StagedFault
    <3>1. "Add" \notin denied
      BY <2>2, Faults
    <3>2. repo.staged = {}
      BY <1>1, <1>r, <2>2 DEF PartsInv, StagedPart
    <3>3. e.staged = {n}
      BY <1>e, <3>2
    <3>4. QED
      BY <1>1, <3>1, <3>2, <3>3 DEF StagedPart, Leaving
  <2>3. QED
    BY <2>1, <2>2
<1>7. PresentPart'
  BY <1>1, <1>r, <1>e, FaultsStay, Faults
  DEF PartsInv, PresentPart, StagedPart, NewFile, Leaving, Repositories
<1>8. ModifiedPart'
  BY <1>1, <1>r, <1>e, FaultsStay, Faults
  DEF PartsInv, ModifiedPart, Leaving, Repositories
<1> QED
  BY <1>1, <1>2, <1>3, <1>4, <1>5, <1>6, <1>7, <1>8 DEF PartsInv, Leaving

LEMMA VerifyStagedLeaves ==
  LeftoversInv /\ VerifyStaged => PartsInv' /\ pc' # "begin"
<1> SUFFICES ASSUME LeftoversInv, VerifyStaged
             PROVE  PartsInv' /\ pc' # "begin"
  OBVIOUS
<1>1. /\ pc = "VerifyStaged" /\ n' = n /\ denied' = denied
      /\ saved' = saved
      /\ \/ n \in repo.staged /\ repo' = repo /\ pc' = "Unstage"
         \/ ~(n \in repo.staged) /\ repo' = repo /\ pc' = "Unstage"
         \/ /\ "VerifyStaged" \in denied
            /\ repo' = repo
            /\ pc' = "Unstage"
  BY TryOutcomes DEF VerifyStaged
<1>r. /\ repo \in Repositories /\ saved \in Repositories
      /\ 0 \in Names /\ n \in Names \ {0} /\ 0 \in repo.branches
      /\ PartsInv
  BY <1>1, PathIsNamed DEF LeftoversInv
<1>2. Temporary' /\ NewFile'
  BY <1>1, <1>r, FaultsStay, Faults
  DEF PartsInv, Temporary, NewFile, Leaving, Repositories
<1>3. RemotePart'
  BY <1>1, <1>r, FaultsStay, Faults
  DEF PartsInv, RemotePart, Repositories
<1>4. HeadPart'
  BY <1>1, <1>r, FaultsStay, Faults
  DEF PartsInv, HeadPart, Away, OnTemporaryBranch, Kind, Repositories
<1>5. BranchesPart'
  BY <1>1, <1>r, FaultsStay, Faults
  DEF PartsInv, BranchesPart, HeadPart, Away, OnTemporaryBranch, Kind,
      Repositories
<1>6. StagedPart'
  BY <1>1, <1>r, FaultsStay, Faults
  DEF PartsInv, StagedPart, Repositories
<1>7. PresentPart'
  BY <1>1, <1>r, FaultsStay, Faults
  DEF PartsInv, PresentPart, StagedPart, NewFile, Repositories
<1>8. ModifiedPart'
  BY <1>1, <1>r, FaultsStay, Faults
  DEF PartsInv, ModifiedPart, Repositories
<1> QED
  BY <1>1, <1>2, <1>3, <1>4, <1>5, <1>6, <1>7, <1>8 DEF PartsInv

LEMMA UnstageLeaves ==
  LeftoversInv /\ Unstage => PartsInv' /\ pc' # "begin"
<1> SUFFICES ASSUME LeftoversInv, Unstage
             PROVE  PartsInv' /\ pc' # "begin"
  OBVIOUS
<1> DEFINE e == [repo EXCEPT !.staged = @ \ {n}]
<1>1. /\ pc = "Unstage" /\ n' = n /\ denied' = denied
      /\ saved' = saved
      /\ \/ repo' = e /\ pc' = "Unlink"
         \/ /\ "Unstage" \in denied
            /\ repo' = repo \/ (repo' = e)
            /\ pc' \in {"Unlink", "Report"}
  BY FinallyOutcomes DEF Unstage
<1>r. /\ repo \in Repositories /\ saved \in Repositories
      /\ 0 \in Names /\ n \in Names \ {0} /\ 0 \in repo.branches
      /\ PartsInv
  BY <1>1, PathIsNamed DEF LeftoversInv
<1>e. /\ e.head = repo.head
      /\ e.branches = repo.branches
      /\ e.commits = repo.commits
      /\ e.staged = repo.staged \ {n}
      /\ e.present = repo.present
      /\ e.remote = repo.remote
      /\ e.modified = repo.modified
  BY <1>r DEF Repositories
<1> HIDE DEF e
<1>2. Temporary' /\ NewFile'
  BY <1>1, <1>r, <1>e, FaultsStay, Faults
  DEF PartsInv, Temporary, NewFile, Leaving, Repositories
<1>3. RemotePart'
  BY <1>1, <1>r, <1>e, FaultsStay, Faults
  DEF PartsInv, RemotePart, Repositories
<1>4. HeadPart'
  BY <1>1, <1>r, <1>e, FaultsStay, Faults
  DEF PartsInv, HeadPart, Away, OnTemporaryBranch, Kind, Repositories
<1>5. BranchesPart'
  BY <1>1, <1>r, <1>e, FaultsStay, Faults
  DEF PartsInv, BranchesPart, HeadPart, Away, OnTemporaryBranch, Kind,
      Repositories
<1>6. StagedPart'
  <2>1. CASE StagedFault
    BY <1>1, <2>1, FaultsStay DEF StagedPart
  <2>2. CASE ~StagedFault
    <3>1. "Unstage" \notin denied
      BY <2>2, Faults
    <3>2. repo.staged = {n}
      BY <1>1, <1>r, <2>2 DEF PartsInv, StagedPart
    <3>3. e.staged = {}
      BY <1>e, <3>2
    <3>4. QED
      BY <1>1, <3>1, <3>2, <3>3 DEF StagedPart
  <2>3. QED
    BY <2>1, <2>2
<1>7. PresentPart'
  BY <1>1, <1>r, <1>e, FaultsStay, Faults
  DEF PartsInv, PresentPart, StagedPart, NewFile, Repositories
<1>8. ModifiedPart'
  BY <1>1, <1>r, <1>e, FaultsStay, Faults
  DEF PartsInv, ModifiedPart, Repositories
<1> QED
  BY <1>1, <1>2, <1>3, <1>4, <1>5, <1>6, <1>7, <1>8 DEF PartsInv

LEMMA UnlinkLeaves ==
  LeftoversInv /\ Unlink => PartsInv' /\ pc' # "begin"
<1> SUFFICES ASSUME LeftoversInv, Unlink
             PROVE  PartsInv' /\ pc' # "begin"
  OBVIOUS
<1> DEFINE e == [repo EXCEPT !.present = @ \ {n}]
<1>1. /\ pc = "Unlink" /\ n' = n /\ denied' = denied
      /\ saved' = saved
      /\ \/ repo' = e /\ pc' = "Report"
         \/ /\ "Unlink" \in denied
            /\ repo' = repo \/ (repo' = e)
            /\ pc' = "Report"
  BY FinallyOutcomes DEF Unlink, Either, Raising
<1>r. /\ repo \in Repositories /\ saved \in Repositories
      /\ 0 \in Names /\ n \in Names \ {0} /\ 0 \in repo.branches
      /\ PartsInv
  BY <1>1, PathIsNamed DEF LeftoversInv
<1>e. /\ e.head = repo.head
      /\ e.branches = repo.branches
      /\ e.commits = repo.commits
      /\ e.staged = repo.staged
      /\ e.present = repo.present \ {n}
      /\ e.remote = repo.remote
      /\ e.modified = repo.modified
  BY <1>r DEF Repositories
<1> HIDE DEF e
<1>2. Temporary' /\ NewFile'
  BY <1>1, <1>r, <1>e, FaultsStay, Faults
  DEF PartsInv, Temporary, NewFile, Leaving, Repositories
<1>3. RemotePart'
  BY <1>1, <1>r, <1>e, FaultsStay, Faults
  DEF PartsInv, RemotePart, Repositories
<1>4. HeadPart'
  BY <1>1, <1>r, <1>e, FaultsStay, Faults
  DEF PartsInv, HeadPart, Away, OnTemporaryBranch, Kind, Repositories
<1>5. BranchesPart'
  BY <1>1, <1>r, <1>e, FaultsStay, Faults
  DEF PartsInv, BranchesPart, HeadPart, Away, OnTemporaryBranch, Kind,
      Repositories
<1>6. StagedPart'
  BY <1>1, <1>r, <1>e, FaultsStay, Faults
  DEF PartsInv, StagedPart, Repositories
<1>7. PresentPart'
  BY <1>1, <1>r, <1>e, FaultsStay, Faults
  DEF PartsInv, PresentPart, StagedPart, NewFile, Repositories
<1>8. ModifiedPart'
  BY <1>1, <1>r, <1>e, FaultsStay, Faults
  DEF PartsInv, ModifiedPart, Repositories
<1> QED
  BY <1>1, <1>2, <1>3, <1>4, <1>5, <1>6, <1>7, <1>8 DEF PartsInv

LEMMA CheckoutNewLeaves ==
  LeftoversInv /\ CheckoutNew => PartsInv' /\ pc' # "begin"
<1> SUFFICES ASSUME LeftoversInv, CheckoutNew
             PROVE  PartsInv' /\ pc' # "begin"
  OBVIOUS
<1> DEFINE b == Branch(repo, n)
<1> DEFINE e == Switch(b, n)
<1>1. /\ pc = "CheckoutNew" /\ n' = n /\ denied' = denied
      /\ saved' = saved
      /\ \/ repo' = e /\ pc' = "Write"
         \/ /\ "CheckoutNew" \in denied
            /\ repo' = repo \/ (repo' = e)
            /\ pc' = "Report"
  BY TryOutcomes DEF CheckoutNew
<1>r. /\ repo \in Repositories /\ saved \in Repositories
      /\ 0 \in Names /\ n \in Names \ {0} /\ 0 \in repo.branches
      /\ PartsInv
  BY <1>1, PathIsNamed DEF LeftoversInv
<1>b. /\ b \in Repositories
      /\ b.head = repo.head
      /\ b.branches = repo.branches \cup {n}
      /\ b.commits[repo.head] = repo.commits[repo.head]
      /\ b.commits[n] = repo.commits[repo.head]
      /\ b.staged = repo.staged
      /\ b.present = repo.present
      /\ b.remote = repo.remote
      /\ b.modified = repo.modified
  BY <1>1, <1>r, BranchIsTyped, BranchParts, RemoteIsElsewhere
<1> HIDE DEF b
<1>e. /\ e.head = n
      /\ e.branches = repo.branches \cup {n}
      /\ e.commits[n] = repo.commits[repo.head]
      /\ e.staged = repo.staged
      /\ e.present = (repo.present \ repo.commits[repo.head])
                       \cup repo.commits[repo.head]
      /\ e.remote = repo.remote
      /\ e.modified = repo.modified
  BY <1>1, <1>r, <1>b, SwitchParts, RemoteIsElsewhere DEF Repositories
<1> HIDE DEF e
<1>2. Temporary' /\ NewFile'
  BY <1>1, <1>r, <1>e, FaultsStay, Faults
  DEF PartsInv, Temporary, NewFile, Leaving, Repositories
<1>3. RemotePart'
  BY <1>1, <1>r, <1>e, FaultsStay, Faults
  DEF PartsInv, RemotePart, Repositories
<1>4. HeadPart'
  BY <1>1, <1>r, <1>e, FaultsStay, Faults
  DEF PartsInv, HeadPart, Away, OnTemporaryBranch, Kind, Temporary,
      Repositories
<1>5. BranchesPart'
  BY <1>1, <1>r, <1>e, FaultsStay, Faults
  DEF PartsInv, BranchesPart, HeadPart, Away, OnTemporaryBranch, Kind,
      Temporary, Repositories
<1>6. StagedPart'
  BY <1>1, <1>r, <1>e, FaultsStay, Faults
  DEF PartsInv, StagedPart, Repositories
<1>7. PresentPart'
  BY <1>1, <1>r, <1>e, FaultsStay, Faults
  DEF PartsInv, PresentPart, StagedPart, NewFile, Repositories
<1>8. ModifiedPart'
  BY <1>1, <1>r, <1>e, FaultsStay, Faults
  DEF PartsInv, ModifiedPart, Repositories
<1> QED
  BY <1>1, <1>2, <1>3, <1>4, <1>5, <1>6, <1>7, <1>8 DEF PartsInv

LEMMA CommitLeaves ==
  LeftoversInv /\ Commit => PartsInv' /\ pc' # "begin"
<1> SUFFICES ASSUME LeftoversInv, Commit
             PROVE  PartsInv' /\ pc' # "begin"
  OBVIOUS
<1> DEFINE e == Commits(repo)
<1>1. /\ pc = "Commit" /\ n' = n /\ denied' = denied
      /\ saved' = saved
      /\ \/ /\ repo.staged # {}
            /\ repo' = e
            /\ pc' = (IF Kind = "push" THEN "Push" ELSE "VerifyHead")
         \/ ~(repo.staged # {}) /\ repo' = repo /\ pc' = "Checkout"
         \/ /\ "Commit" \in denied
            /\ repo' = repo \/ (repo.staged # {} /\ repo' = e)
            /\ pc' = "Checkout"
  BY TryOutcomes DEF Commit
<1>r. /\ repo \in Repositories /\ saved \in Repositories
      /\ 0 \in Names /\ n \in Names \ {0} /\ 0 \in repo.branches
      /\ PartsInv
  BY <1>1, PathIsNamed DEF LeftoversInv
<1>e. /\ e.head = repo.head
      /\ e.branches = repo.branches
      /\ e.commits[repo.head] = repo.commits[repo.head] \cup repo.staged
      /\ e.staged = {}
      /\ e.present = repo.present
      /\ e.remote = repo.remote
      /\ e.modified = repo.modified
  BY <1>1, <1>r, CommitsParts, RemoteIsElsewhere DEF Repositories
<1> HIDE DEF e
<1>2. Temporary' /\ NewFile'
  BY <1>1, <1>r, <1>e, FaultsStay, Faults
  DEF PartsInv, Temporary, NewFile, Leaving, Repositories
<1>3. RemotePart'
  BY <1>1, <1>r, <1>e, FaultsStay, Faults
  DEF PartsInv, RemotePart, Repositories
<1>4. HeadPart'
  BY <1>1, <1>r, <1>e, FaultsStay, Faults
  DEF PartsInv, HeadPart, Away, OnTemporaryBranch, Kind, Repositories
<1>5. BranchesPart'
  BY <1>1, <1>r, <1>e, FaultsStay, Faults
  DEF PartsInv, BranchesPart, HeadPart, Away, OnTemporaryBranch, Kind,
      Repositories
<1>6. StagedPart'
  <2>1. CASE StagedFault
    BY <1>1, <2>1, FaultsStay DEF StagedPart
  <2>2. CASE ~StagedFault
    <3>1. "Commit" \notin denied
      BY <2>2, Faults
    <3>2. repo.staged = {n}
      BY <1>1, <1>r, <2>2 DEF PartsInv, StagedPart
    <3>3. e.staged = {}
      BY <1>e, <3>2
    <3>4. QED
      BY <1>1, <3>1, <3>2, <3>3 DEF StagedPart
  <2>3. QED
    BY <2>1, <2>2
<1>7. PresentPart'
  BY <1>1, <1>r, <1>e, FaultsStay, Faults
  DEF PartsInv, PresentPart, StagedPart, NewFile, Repositories
<1>8. ModifiedPart'
  BY <1>1, <1>r, <1>e, FaultsStay, Faults
  DEF PartsInv, ModifiedPart, Repositories
<1> QED
  BY <1>1, <1>2, <1>3, <1>4, <1>5, <1>6, <1>7, <1>8 DEF PartsInv

LEMMA VerifyHeadLeaves ==
  LeftoversInv /\ VerifyHead => PartsInv' /\ pc' # "begin"
<1> SUFFICES ASSUME LeftoversInv, VerifyHead
             PROVE  PartsInv' /\ pc' # "begin"
  OBVIOUS
<1>1. /\ pc = "VerifyHead" /\ n' = n /\ denied' = denied
      /\ saved' = saved
      /\ \/ repo' = repo /\ pc' = "Checkout"
         \/ /\ "VerifyHead" \in denied
            /\ repo' = repo
            /\ pc' = "Checkout"
  BY TryOutcomes DEF VerifyHead
<1>r. /\ repo \in Repositories /\ saved \in Repositories
      /\ 0 \in Names /\ n \in Names \ {0} /\ 0 \in repo.branches
      /\ PartsInv
  BY <1>1, PathIsNamed DEF LeftoversInv
<1>2. Temporary' /\ NewFile'
  BY <1>1, <1>r, FaultsStay, Faults
  DEF PartsInv, Temporary, NewFile, Leaving, Repositories
<1>3. RemotePart'
  BY <1>1, <1>r, FaultsStay, Faults
  DEF PartsInv, RemotePart, Repositories
<1>4. HeadPart'
  BY <1>1, <1>r, FaultsStay, Faults
  DEF PartsInv, HeadPart, Away, OnTemporaryBranch, Kind, Repositories
<1>5. BranchesPart'
  BY <1>1, <1>r, FaultsStay, Faults
  DEF PartsInv, BranchesPart, HeadPart, Away, OnTemporaryBranch, Kind,
      Repositories
<1>6. StagedPart'
  BY <1>1, <1>r, FaultsStay, Faults
  DEF PartsInv, StagedPart, Repositories
<1>7. PresentPart'
  BY <1>1, <1>r, FaultsStay, Faults
  DEF PartsInv, PresentPart, StagedPart, NewFile, Repositories
<1>8. ModifiedPart'
  BY <1>1, <1>r, FaultsStay, Faults
  DEF PartsInv, ModifiedPart, Repositories
<1> QED
  BY <1>1, <1>2, <1>3, <1>4, <1>5, <1>6, <1>7, <1>8 DEF PartsInv

LEMMA CheckoutLeaves ==
  LeftoversInv /\ Checkout => PartsInv' /\ pc' # "begin"
<1> SUFFICES ASSUME LeftoversInv, Checkout
             PROVE  PartsInv' /\ pc' # "begin"
  OBVIOUS
<1> DEFINE e == Switch(repo, saved.head)
<1>1. /\ pc = "Checkout" /\ n' = n /\ denied' = denied
      /\ saved' = saved
      /\ \/ saved.head \in repo.branches /\ repo' = e /\ pc' = "DeleteBranch"
         \/ /\ ~(saved.head \in repo.branches)
            /\ repo' = repo
            /\ pc' = "DeleteBranch"
         \/ /\ "Checkout" \in denied
            /\ repo' = repo \/ (saved.head \in repo.branches /\ repo' = e)
            /\ pc' \in {"DeleteBranch", "Report"}
  BY FinallyOutcomes DEF Checkout
<1>r. /\ repo \in Repositories /\ saved \in Repositories
      /\ 0 \in Names /\ n \in Names \ {0} /\ 0 \in repo.branches
      /\ PartsInv
  BY <1>1, PathIsNamed DEF LeftoversInv
<1>e. /\ e.head = saved.head
      /\ e.branches = repo.branches
      /\ e.commits = repo.commits
      /\ e.staged = repo.staged
      /\ e.present = (repo.present \ repo.commits[repo.head])
                       \cup repo.commits[saved.head]
      /\ e.remote = repo.remote
      /\ e.modified = repo.modified
  BY <1>1, <1>r, SwitchParts, RemoteIsElsewhere DEF Repositories
<1> HIDE DEF e
<1>2. Temporary' /\ NewFile'
  BY <1>1, <1>r, <1>e, FaultsStay, Faults
  DEF PartsInv, Temporary, NewFile, Leaving, Repositories
<1>3. RemotePart'
  BY <1>1, <1>r, <1>e, FaultsStay, Faults
  DEF PartsInv, RemotePart, Repositories
<1>4. HeadPart'
  BY <1>1, <1>r, <1>e, FaultsStay, Faults
  DEF PartsInv, HeadPart, Away, OnTemporaryBranch, Kind, Repositories
<1>5. BranchesPart'
  BY <1>1, <1>r, <1>e, FaultsStay, Faults
  DEF PartsInv, BranchesPart, HeadPart, Away, OnTemporaryBranch, Kind,
      Repositories
<1>6. StagedPart'
  BY <1>1, <1>r, <1>e, FaultsStay, Faults
  DEF PartsInv, StagedPart, Repositories
<1>7. PresentPart'
  BY <1>1, <1>r, <1>e, FaultsStay, Faults
  DEF PartsInv, PresentPart, StagedPart, NewFile, Repositories
<1>8. ModifiedPart'
  BY <1>1, <1>r, <1>e, FaultsStay, Faults
  DEF PartsInv, ModifiedPart, Repositories
<1> QED
  BY <1>1, <1>2, <1>3, <1>4, <1>5, <1>6, <1>7, <1>8 DEF PartsInv

LEMMA PushLeaves ==
  LeftoversInv /\ Push => PartsInv' /\ pc' # "begin"
<1> SUFFICES ASSUME LeftoversInv, Push
             PROVE  PartsInv' /\ pc' # "begin"
  OBVIOUS
<1> DEFINE e == [repo EXCEPT !.remote = @ \cup {n}]
<1>1. /\ pc = "Push" /\ n' = n /\ denied' = denied
      /\ saved' = saved
      /\ \/ repo' = e /\ pc' = "VerifyRemote"
         \/ /\ "Push" \in denied
            /\ repo' = repo \/ (repo' = e)
            /\ pc' = "Checkout"
  BY DEF Push, Try, Ends, To, Results, Either
<1>r. /\ repo \in Repositories /\ saved \in Repositories
      /\ 0 \in Names /\ n \in Names \ {0} /\ 0 \in repo.branches
      /\ PartsInv
  BY <1>1, PathIsNamed DEF LeftoversInv
<1>e. /\ e.head = repo.head
      /\ e.branches = repo.branches
      /\ e.commits = repo.commits
      /\ e.staged = repo.staged
      /\ e.present = repo.present
      /\ e.remote = repo.remote \cup {n}
      /\ e.modified = repo.modified
  BY <1>r DEF Repositories
<1> HIDE DEF e
<1>2. Temporary' /\ NewFile'
  BY <1>1, <1>r, <1>e, FaultsStay, Faults
  DEF PartsInv, Temporary, NewFile, Leaving, Repositories
<1>3. RemotePart'
  BY <1>1, <1>r, <1>e, FaultsStay, Faults
  DEF PartsInv, RemotePart, Repositories
<1>4. HeadPart'
  BY <1>1, <1>r, <1>e, FaultsStay, Faults
  DEF PartsInv, HeadPart, Away, OnTemporaryBranch, Kind, Repositories
<1>5. BranchesPart'
  BY <1>1, <1>r, <1>e, FaultsStay, Faults
  DEF PartsInv, BranchesPart, HeadPart, Away, OnTemporaryBranch, Kind,
      Repositories
<1>6. StagedPart'
  BY <1>1, <1>r, <1>e, FaultsStay, Faults
  DEF PartsInv, StagedPart, Repositories
<1>7. PresentPart'
  BY <1>1, <1>r, <1>e, FaultsStay, Faults
  DEF PartsInv, PresentPart, StagedPart, NewFile, Repositories
<1>8. ModifiedPart'
  BY <1>1, <1>r, <1>e, FaultsStay, Faults
  DEF PartsInv, ModifiedPart, Repositories
<1> QED
  BY <1>1, <1>2, <1>3, <1>4, <1>5, <1>6, <1>7, <1>8 DEF PartsInv

LEMMA VerifyRemoteLeaves ==
  LeftoversInv /\ VerifyRemote => PartsInv' /\ pc' # "begin"
<1> SUFFICES ASSUME LeftoversInv, VerifyRemote
             PROVE  PartsInv' /\ pc' # "begin"
  OBVIOUS
<1>1. /\ pc = "VerifyRemote" /\ n' = n /\ denied' = denied
      /\ saved' = saved
      /\ \/ n \in repo.remote /\ repo' = repo /\ pc' = "DeleteRemote"
         \/ ~(n \in repo.remote) /\ repo' = repo /\ pc' = "DeleteRemoteAgain"
         \/ /\ "VerifyRemote" \in denied
            /\ repo' = repo
            /\ pc' = "DeleteRemoteAgain"
  BY TryOutcomes DEF VerifyRemote
<1>r. /\ repo \in Repositories /\ saved \in Repositories
      /\ 0 \in Names /\ n \in Names \ {0} /\ 0 \in repo.branches
      /\ PartsInv
  BY <1>1, PathIsNamed DEF LeftoversInv
<1>2. Temporary' /\ NewFile'
  BY <1>1, <1>r, FaultsStay, Faults
  DEF PartsInv, Temporary, NewFile, Leaving, Repositories
<1>3. RemotePart'
  BY <1>1, <1>r, FaultsStay, Faults
  DEF PartsInv, RemotePart, Repositories
<1>4. HeadPart'
  BY <1>1, <1>r, FaultsStay, Faults
  DEF PartsInv, HeadPart, Away, OnTemporaryBranch, Kind, Repositories
<1>5. BranchesPart'
  BY <1>1, <1>r, FaultsStay, Faults
  DEF PartsInv, BranchesPart, HeadPart, Away, OnTemporaryBranch, Kind,
      Repositories
<1>6. StagedPart'
  BY <1>1, <1>r, FaultsStay, Faults
  DEF PartsInv, StagedPart, Repositories
<1>7. PresentPart'
  BY <1>1, <1>r, FaultsStay, Faults
  DEF PartsInv, PresentPart, StagedPart, NewFile, Repositories
<1>8. ModifiedPart'
  BY <1>1, <1>r, FaultsStay, Faults
  DEF PartsInv, ModifiedPart, Repositories
<1> QED
  BY <1>1, <1>2, <1>3, <1>4, <1>5, <1>6, <1>7, <1>8 DEF PartsInv

LEMMA DeleteRemoteLeaves ==
  LeftoversInv /\ DeleteRemote => PartsInv' /\ pc' # "begin"
<1> SUFFICES ASSUME LeftoversInv, DeleteRemote
             PROVE  PartsInv' /\ pc' # "begin"
  OBVIOUS
<1> DEFINE e == [repo EXCEPT !.remote = @ \ {n}]
<1>1. /\ pc = "DeleteRemote" /\ n' = n /\ denied' = denied
      /\ saved' = saved
      /\ \/ n \in repo.remote /\ repo' = e /\ pc' = "Checkout"
         \/ ~(n \in repo.remote) /\ repo' = repo /\ pc' = "Checkout"
         \/ /\ "DeleteRemote" \in denied
            /\ repo' = repo \/ (n \in repo.remote /\ repo' = e)
            /\ pc' = "DeleteRemoteAgain" \/ pc' = "Checkout"
  BY TryOutcomes DEF DeleteRemote
<1>r. /\ repo \in Repositories /\ saved \in Repositories
      /\ 0 \in Names /\ n \in Names \ {0} /\ 0 \in repo.branches
      /\ PartsInv
  BY <1>1, PathIsNamed DEF LeftoversInv
<1>e. /\ e.head = repo.head
      /\ e.branches = repo.branches
      /\ e.commits = repo.commits
      /\ e.staged = repo.staged
      /\ e.present = repo.present
      /\ e.remote = repo.remote \ {n}
      /\ e.modified = repo.modified
  BY <1>r DEF Repositories
<1> HIDE DEF e
<1>2. Temporary' /\ NewFile'
  BY <1>1, <1>r, <1>e, FaultsStay, Faults
  DEF PartsInv, Temporary, NewFile, Leaving, Repositories
<1>3. RemotePart'
  BY <1>1, <1>r, <1>e, FaultsStay, Faults
  DEF PartsInv, RemotePart, Repositories
<1>4. HeadPart'
  BY <1>1, <1>r, <1>e, FaultsStay, Faults
  DEF PartsInv, HeadPart, Away, OnTemporaryBranch, Kind, Repositories
<1>5. BranchesPart'
  BY <1>1, <1>r, <1>e, FaultsStay, Faults
  DEF PartsInv, BranchesPart, HeadPart, Away, OnTemporaryBranch, Kind,
      Repositories
<1>6. StagedPart'
  BY <1>1, <1>r, <1>e, FaultsStay, Faults
  DEF PartsInv, StagedPart, Repositories
<1>7. PresentPart'
  BY <1>1, <1>r, <1>e, FaultsStay, Faults
  DEF PartsInv, PresentPart, StagedPart, NewFile, Repositories
<1>8. ModifiedPart'
  BY <1>1, <1>r, <1>e, FaultsStay, Faults
  DEF PartsInv, ModifiedPart, Repositories
<1> QED
  BY <1>1, <1>2, <1>3, <1>4, <1>5, <1>6, <1>7, <1>8 DEF PartsInv

LEMMA DeleteRemoteAgainLeaves ==
  LeftoversInv /\ DeleteRemoteAgain => PartsInv' /\ pc' # "begin"
<1> SUFFICES ASSUME LeftoversInv, DeleteRemoteAgain
             PROVE  PartsInv' /\ pc' # "begin"
  OBVIOUS
<1> DEFINE e == [repo EXCEPT !.remote = @ \ {n}]
<1>1. /\ pc = "DeleteRemoteAgain" /\ n' = n /\ denied' = denied
      /\ saved' = saved
      /\ \/ n \in repo.remote /\ repo' = e /\ pc' = "Checkout"
         \/ ~(n \in repo.remote) /\ repo' = repo /\ pc' = "Checkout"
         \/ /\ "DeleteRemoteAgain" \in denied
            /\ repo' = repo \/ (n \in repo.remote /\ repo' = e)
            /\ pc' \in {"Checkout", "Report"}
  BY FinallyOutcomes DEF DeleteRemoteAgain
<1>r. /\ repo \in Repositories /\ saved \in Repositories
      /\ 0 \in Names /\ n \in Names \ {0} /\ 0 \in repo.branches
      /\ PartsInv
  BY <1>1, PathIsNamed DEF LeftoversInv
<1>e. /\ e.head = repo.head
      /\ e.branches = repo.branches
      /\ e.commits = repo.commits
      /\ e.staged = repo.staged
      /\ e.present = repo.present
      /\ e.remote = repo.remote \ {n}
      /\ e.modified = repo.modified
  BY <1>r DEF Repositories
<1> HIDE DEF e
<1>2. Temporary' /\ NewFile'
  BY <1>1, <1>r, <1>e, FaultsStay, Faults
  DEF PartsInv, Temporary, NewFile, Leaving, Repositories
<1>3. RemotePart'
  BY <1>1, <1>r, <1>e, FaultsStay, Faults
  DEF PartsInv, RemotePart, Repositories
<1>4. HeadPart'
  BY <1>1, <1>r, <1>e, FaultsStay, Faults
  DEF PartsInv, HeadPart, Away, OnTemporaryBranch, Kind, Repositories
<1>5. BranchesPart'
  BY <1>1, <1>r, <1>e, FaultsStay, Faults
  DEF PartsInv, BranchesPart, HeadPart, Away, OnTemporaryBranch, Kind,
      Repositories
<1>6. StagedPart'
  BY <1>1, <1>r, <1>e, FaultsStay, Faults
  DEF PartsInv, StagedPart, Repositories
<1>7. PresentPart'
  BY <1>1, <1>r, <1>e, FaultsStay, Faults
  DEF PartsInv, PresentPart, StagedPart, NewFile, Repositories
<1>8. ModifiedPart'
  BY <1>1, <1>r, <1>e, FaultsStay, Faults
  DEF PartsInv, ModifiedPart, Repositories
<1> QED
  BY <1>1, <1>2, <1>3, <1>4, <1>5, <1>6, <1>7, <1>8 DEF PartsInv

LEMMA PullLeaves ==
  LeftoversInv /\ Pull => PartsInv' /\ pc' # "begin"
<1> SUFFICES ASSUME LeftoversInv, Pull
             PROVE  PartsInv' /\ pc' # "begin"
  OBVIOUS
<1> DEFINE e == Pulled(repo)
<1>1. /\ pc = "Pull" /\ n' = n /\ denied' = denied
      /\ saved' = saved
      /\ \/ repo.head = 0 /\ repo' = e /\ pc' = "Report"
         \/ ~(repo.head = 0) /\ repo' = repo /\ pc' = "Report"
         \/ /\ "Pull" \in denied
            /\ repo' = repo \/ (repo.head = 0 /\ repo' = e)
            /\ pc' = "Report"
  BY DEF Pull, Try, Ends, To, Results, Either
<1>r. /\ repo \in Repositories /\ saved \in Repositories
      /\ 0 \in Names /\ n \in Names \ {0} /\ 0 \in repo.branches
      /\ PartsInv
  BY <1>1, PathIsNamed DEF LeftoversInv
<1>e. /\ e.head = repo.head
      /\ e.branches = repo.branches
      /\ repo.head = 0 =>
             e.commits[repo.head] = repo.commits[repo.head] \cup {0}
      /\ e.staged = repo.staged
      /\ e.present = repo.present \cup {0}
      /\ e.remote = repo.remote
      /\ e.modified = repo.modified
  BY <1>1, <1>r, PulledParts, RemoteIsElsewhere DEF Repositories
<1> HIDE DEF e
<1>2. Temporary' /\ NewFile'
  BY <1>1, <1>r, <1>e, FaultsStay, Faults
  DEF PartsInv, Temporary, NewFile, Leaving, Repositories
<1>3. RemotePart'
  BY <1>1, <1>r, <1>e, FaultsStay, Faults
  DEF PartsInv, RemotePart, Repositories
<1>4. HeadPart'
  BY <1>1, <1>r, <1>e, FaultsStay, Faults
  DEF PartsInv, HeadPart, Away, OnTemporaryBranch, Kind, Repositories
<1>5. BranchesPart'
  BY <1>1, <1>r, <1>e, FaultsStay, Faults
  DEF PartsInv, BranchesPart, HeadPart, Away, OnTemporaryBranch, Kind,
      Repositories
<1>6. StagedPart'
  BY <1>1, <1>r, <1>e, FaultsStay, Faults
  DEF PartsInv, StagedPart, Repositories
<1>7. PresentPart'
  BY <1>1, <1>r, <1>e, FaultsStay, Faults
  DEF PartsInv, PresentPart, StagedPart, NewFile, Repositories
<1>8. ModifiedPart'
  BY <1>1, <1>r, <1>e, FaultsStay, Faults
  DEF PartsInv, ModifiedPart, Repositories
<1> QED
  BY <1>1, <1>2, <1>3, <1>4, <1>5, <1>6, <1>7, <1>8 DEF PartsInv

\* What a test does before its first command and after its last one.
LEMMA BoundariesLeave ==
  ASSUME LeftoversInv,
         Start \/ Decline \/ QueryRaises \/ Report \/ UNCHANGED vars
  PROVE  PartsInv'
<1>r. /\ repo \in Repositories /\ n \in Nat /\ PartsInv
      /\ pc = "begin" => Numbered(repo, n - 1)
  BY LengthOfKinds
  DEF LeftoversInv, UserInv, Typed, TypeOK, NumberedInv
<1>1. CASE Start
  <2>1. /\ pc = "begin" /\ n' = n /\ denied' = denied
        /\ saved' = repo /\ repo' = repo /\ pc' = First(Kind)
    BY <1>1 DEF Start
  <2>2. n \in 1..Paths
    BY <1>1, LengthOfKinds DEF Start, LeftoversInv, UserInv, Typed, TypeOK
  <2>3. /\ pc' \in {"CreateBranch", "Modify", "Write", "Pull", "CheckoutNew"}
        /\ pc' = "Write" => ~OnTemporaryBranch
        /\ pc' = "CheckoutNew" => OnTemporaryBranch
    <3>1. Kind \in AllKinds
      BY <2>2, KindIsKnown DEF Kind
    <3>2. QED
      BY <2>1, <3>1 DEF First, AllKinds, OnTemporaryBranch
  <2>4. n \notin repo.commits[repo.head]
    BY <1>r, <2>1 DEF Numbered, Repositories
  <2>5. OnTemporaryBranch' = OnTemporaryBranch
    BY <2>1 DEF OnTemporaryBranch, Kind
  <2>6. Temporary' /\ NewFile' /\ ~Away'
    BY <2>1, <2>3, <2>4, <2>5 DEF Temporary, NewFile, Away
  <2>7. RemotePart' /\ StagedPart' /\ PresentPart' /\ ModifiedPart'
    BY <1>r, <2>1, <2>3, FaultsStay
    DEF PartsInv, RemotePart, StagedPart, PresentPart, ModifiedPart
  <2>8. ~Away
    BY <2>1 DEF Away
  <2>9. HeadPart' /\ BranchesPart'
    BY <1>r, <2>1, <2>3, <2>6, <2>8, FaultsStay
    DEF PartsInv, HeadPart, BranchesPart
  <2>10. QED
    BY <2>6, <2>7, <2>9 DEF PartsInv
<1>2. CASE Decline \/ QueryRaises \/ Report
  <2>1. /\ pc \in {"begin", "Report"} /\ pc' = "begin"
        /\ denied' = denied /\ repo' = repo
    BY <1>2 DEF Decline, QueryRaises, Report
  <2>2. ~Away /\ ~Away'
    BY <2>1 DEF Away
  <2>3. RemotePart' /\ StagedPart' /\ PresentPart' /\ ModifiedPart'
    BY <1>r, <2>1, FaultsStay
    DEF PartsInv, RemotePart, StagedPart, PresentPart, ModifiedPart
  <2>4. HeadPart' /\ BranchesPart'
    BY <1>r, <2>1, <2>2, FaultsStay DEF PartsInv, HeadPart, BranchesPart
  <2>5. QED
    BY <2>1, <2>3, <2>4 DEF PartsInv, Temporary, NewFile
<1>3. CASE UNCHANGED vars
  <2>1. /\ n' = n /\ pc' = pc /\ repo' = repo /\ saved' = saved
        /\ denied' = denied
    BY <1>3 DEF vars
  <2>2. OnTemporaryBranch' = OnTemporaryBranch /\ Away' = Away
    BY <2>1 DEF OnTemporaryBranch, Kind, Away
  <2>3. RemotePart' /\ StagedPart' /\ PresentPart' /\ ModifiedPart'
    BY <1>r, <2>1, FaultsStay
    DEF PartsInv, RemotePart, StagedPart, PresentPart, ModifiedPart
  <2>4. HeadPart' /\ BranchesPart'
    BY <1>r, <2>1, <2>2, FaultsStay DEF PartsInv, HeadPart, BranchesPart
  <2>5. QED
    BY <1>r, <2>1, <2>2, <2>3, <2>4 DEF PartsInv, Temporary, NewFile
<1> QED
  BY <1>1, <1>2, <1>3

\* The commands that a path runs.
Command ==
  \/ CreateBranch \/ VerifyBranch \/ DeleteBranch
  \/ Modify \/ Restore
  \/ Write \/ Add \/ VerifyStaged \/ Unstage \/ Unlink
  \/ CheckoutNew \/ Commit \/ VerifyHead \/ Checkout
  \/ Push \/ VerifyRemote \/ DeleteRemote \/ DeleteRemoteAgain
  \/ Pull

LEMMA CommandsLeave == LeftoversInv /\ Command => PartsInv' /\ pc' # "begin"
  BY CreateBranchLeaves, VerifyBranchLeaves, DeleteBranchLeaves,
     ModifyLeaves, RestoreLeaves, WriteLeaves, AddLeaves, VerifyStagedLeaves,
     UnstageLeaves, UnlinkLeaves, CheckoutNewLeaves, CommitLeaves,
     VerifyHeadLeaves, CheckoutLeaves, PushLeaves, VerifyRemoteLeaves,
     DeleteRemoteLeaves, DeleteRemoteAgainLeaves, PullLeaves DEF Command

LEMMA LeftoversKept == LeftoversInv /\ [Next]_vars => LeftoversInv'
<1> SUFFICES ASSUME LeftoversInv, [Next]_vars PROVE LeftoversInv'
  OBVIOUS
<1>1. UserInv' /\ NumberedInv'
  BY UserBranchIsKept, NumberingIsKept DEF LeftoversInv, UserInv
<1>2. PartsInv'
  BY CommandsLeave, BoundariesLeave DEF Next, Done, Command
<1> QED
  BY <1>1, <1>2 DEF LeftoversInv

LEMMA LeftoversAtFirst == Init => LeftoversInv
<1> SUFFICES ASSUME Init PROVE LeftoversInv
  OBVIOUS
<1>1. UserInv
  BY InitIsTyped, LengthOfKinds
  DEF Init, Fresh, Names, UserInv, UserBranchIsUntouched, OnOwnBranch
<1>2. NumberedInv
  BY LengthOfKinds DEF Init, Fresh, NumberedInv, Numbered
<1>3. PartsInv
  BY LengthOfKinds
  DEF Init, Fresh, Names, PartsInv, Temporary, NewFile, RemotePart, HeadPart,
      BranchesPart, StagedPart, PresentPart, ModifiedPart, Away
<1> QED
  BY <1>1, <1>2, <1>3 DEF LeftoversInv

-----------------------------------------------------------------------------
\* Every part of the repository is as the path that runs means it to be, or
\* one of the commands that could upset it misbehaves.
THEOREM PartsAreKept == Spec => []LeftoversInv
  BY LeftoversAtFirst, LeftoversKept, PTL DEF Spec

\* What is left behind between two paths is explained, part by part, by a
\* command that misbehaved: no order of the probes leaves anything otherwise.
THEOREM NothingElseIsLeft == Spec => []LeftoversAreExplained
<1>1. LeftoversInv => LeftoversAreExplained
  <2> SUFFICES ASSUME PartsInv, pc = "begin"
               PROVE  /\ repo.remote # {} => RemoteFault
                      /\ repo.head # 0 => HeadFault
                      /\ repo.branches # {0} => BranchesFault
                      /\ repo.staged # {} => StagedFault
                      /\ repo.present # repo.commits[repo.head] => PresentFault
                      /\ repo.modified => ModifiedFault
    BY DEF LeftoversInv, LeftoversAreExplained, RemoteFault, HeadFault,
       BranchesFault, StagedFault, PresentFault, ModifiedFault
  <2>1. ~Away
    BY DEF Away
  <2> QED
    BY <2>1 DEF PartsInv, RemotePart, HeadPart, BranchesPart, StagedPart,
       PresentPart, ModifiedPart
<1> QED
  BY <1>1, PartsAreKept, PTL

\* A repository that is as the user left it is as suitable as at first.
LEMMA SuitableUnlessFault ==
  ASSUME LeftoversInv, pc = "begin", NEW kind, Suitable(kind, Fresh)
  PROVE  Suitable(kind, repo) \/ StagedFault \/ PresentFault \/ ModifiedFault
<1>1. 0 \in Names
  BY LengthOfKinds DEF Names
<1>2. PartsInv
  BY DEF LeftoversInv
<1>3. \/ StagedFault \/ PresentFault \/ ModifiedFault
      \/ /\ ~repo.modified /\ repo.staged = {}
         /\ repo.present = repo.commits[repo.head]
  BY <1>2 DEF PartsInv, StagedPart, PresentPart, ModifiedPart
<1>4. Clean(Fresh) => ~given.dirty
  BY DEF Clean
<1> QED
  BY <1>3, <1>4 DEF Suitable, Clean

\* A path is not applicable because the user's repository never was suitable,
\* a query failed, or a command that commits, stages or modifies misbehaved.
THEOREM NothingElseHidesProbes == Spec => []NotApplicableIsExplained
<1> DEFINE Hiding == {"Query", "Write", "Add", "Commit", "Unstage", "Unlink",
                      "Modify", "Restore"}
<1>1. Init => NotApplicableIsExplained
  BY DEF Init, NotApplicableIsExplained
<1>2. ASSUME LeftoversInv, NotApplicableIsExplained, [Next]_vars
      PROVE  NotApplicableIsExplained'
  <2>1. CASE Decline
    <3>1. /\ pc = "begin" /\ n' = n + 1 /\ denied' = denied /\ n \in Nat
          /\ ~Suitable(Kind, repo) \/ "Query" \in denied
          /\ given' = given
      BY <1>2, <2>1, LengthOfKinds
      DEF Decline, LeftoversInv, UserInv, Typed, TypeOK
    <3>2. KindOf(n' - 1) = Kind
      BY <3>1 DEF KindOf, Kind
    <3>3. Interferes(Hiding) \/ ~Suitable(Kind, Fresh)
      BY <1>2, <3>1, SuitableUnlessFault
      DEF StagedFault, PresentFault, ModifiedFault, Interferes
    <3>4. Suitable(KindOf(n - 1), Fresh)' = Suitable(Kind, Fresh)
      BY <3>1, <3>2 DEF Suitable, Clean
    <3> QED
      BY <3>1, <3>2, <3>3, <3>4 DEF NotApplicableIsExplained, Interferes
  <2>2. CASE Start \/ Command
    <3>1. pc' # "begin"
      BY <1>2, <2>2, CommandsLeave, FirstIsTyped DEF Start
    <3> QED
      BY <3>1 DEF NotApplicableIsExplained
  <2>3. CASE QueryRaises \/ Report
    BY <2>3 DEF QueryRaises, Report, NotApplicableIsExplained
  <2>4. CASE UNCHANGED vars
    BY <1>2, <2>4
    DEF vars, NotApplicableIsExplained, Interferes, Suitable, Clean, KindOf
  <2> QED
    BY <1>2, <2>1, <2>2, <2>3, <2>4 DEF Next, Done, Command
<1> QED
  BY <1>1, <1>2, PartsAreKept, PTL DEF Spec
=============================================================================
