--------------------------- MODULE RepositoryProbes ---------------------------
(***************************************************************************)
(* The probes of Git repositories (group_15.py) and of databases           *)
(* (group_16.py).  What the Git commands do to a repository, and what they *)
(* leave there, is the subject of GitProbes.                               *)
(***************************************************************************)
EXTENDS Probing

(***************************************************************************)
(* group_15.py: an allowed and a denied repository.                        *)
(***************************************************************************)
\* The one alternate attempt of a Git probe runs its shell test again, and
\* takes over its outcome.  The runner has handlers for what that test lets
\* through: a missing git is N/A here.
RunGitAttempts(shell) ==
  [shell EXCEPT !.unguarded = [os \in Systems |-> {}], !.on.absent = "N/A"]
GitAttempt(shell) == Attempts(1, 1, RunGitAttempts(shell))

\* Most tests are one function for the shell and for the tool, which looks
\* for .git before its try.
InRepository(setting, path) ==
  Needs({setting, "git_metadata"}, Unguarded({"PermissionError"}, path))
GitCapability(test) == Capability(test, test, GitAttempt(test))

MetadataTest(setting) ==
  LET shell == Needs({setting}, Command(ExitOrAbsent, Expiring))
  IN Capability(shell,
                Needs({setting}, Call([Returned EXCEPT !.absent = "N/A"], Failing)),
                GitAttempt(shell))

\* A clone in the fixtures.
CloneTest(setting) ==
  GitCapability(InRepository(setting,
                  InTemporaryDirectory(Command(Strict, Expiring))))

\* Without commits, without a branch, without a remote, or with changes in
\* it, the repository has nothing for the test to do.
CommandTest(setting) ==
  GitCapability(InRepository(setting, Command(ExitOrAbsent, Expiring)))
HistoryTest(setting) == CommandTest(setting)
BranchTest(setting) == CommandTest(setting)
CommitTest(setting) == CommandTest(setting)
PushTest(setting) == CommandTest(setting)
PullTest(setting) == CommandTest(setting)
StageTest(setting) ==
  GitCapability(InRepository(setting, Command(ExitStatus, Expiring)))
SigningConfigTest(setting) ==
  GitCapability(InRepository(setting, Command(Returned, Expiring)))
RemoteUrlTest ==
  GitCapability(Needs({"git_remote_url"},
    InRepository("allowed_git_repository",
      Command([Checked EXCEPT !.absent = "N/A"],
              Expiring))))

IgnoredFileTest(setting) ==
  LET Reading(path) == Needs({setting, "ignored_file"},
                             Unguarded({"PermissionError"}, path))
      shell == Reading(Command(ExitStatus, Expiring))
  IN Capability(shell, Reading(Call(Returned, Failing)), GitAttempt(shell))

\* Whether the file is tracked is asked of git before the try.  The file is
\* changed and written back, by the command from a temporary copy.
TrackedFileTest(setting) ==
  GitCapability(InRepository(setting, Needs({"tracked_file"},
    Outside(Unguarded(CommandErrors, Command(Returned, Expiring))))))

G15_T01 == MetadataTest("allowed_git_repository")
G15_T02 == MetadataTest("denied_git_repository")
G15_T03 == CloneTest("allowed_git_repository")
G15_T04 == CloneTest("denied_git_repository")
G15_T05 == HistoryTest("allowed_git_repository")
G15_T06 == HistoryTest("denied_git_repository")
G15_T07 == RemoteUrlTest
G15_T08 == IgnoredFileTest("allowed_git_repository")
G15_T09 == IgnoredFileTest("denied_git_repository")
G15_T10 == BranchTest("allowed_git_repository")
G15_T11 == BranchTest("denied_git_repository")
G15_T12 == TrackedFileTest("allowed_git_repository")
G15_T13 == TrackedFileTest("denied_git_repository")
G15_T14 == StageTest("allowed_git_repository")
G15_T15 == StageTest("denied_git_repository")
G15_T16 == CommitTest("allowed_git_repository")
G15_T17 == CommitTest("denied_git_repository")
G15_T18 == PushTest("allowed_git_repository")
G15_T19 == PushTest("denied_git_repository")
G15_T20 == PullTest("allowed_git_repository")
G15_T21 == PullTest("denied_git_repository")
G15_T22 == SigningConfigTest("allowed_git_repository")
G15_T23 == SigningConfigTest("denied_git_repository")

(***************************************************************************)
(* group_16.py: SQLite in the allowed and in the denied directory, MariaDB *)
(* with the allowed and with the denied database.                          *)
(***************************************************************************)
RunDatabaseAttempts == CountingRunner(ExitOrAbsent)
SqliteAttempts == Attempts(1, 1, RunDatabaseAttempts)
MariadbStatementAttempts == Attempts(2, 2, RunDatabaseAttempts)
MariadbClientAttempts == Attempts(2, 2, RunDatabaseAttempts)

\* The database file is unlinked in a finally, which ignores the errors.
SqliteTest ==
  Capability(InFixtures(Command(ExitOrAbsent, Expiring)),
             Needs({"sqlite"}, InFixtures(Call(Returned, Failing))),
             InFixtures(SqliteAttempts))
G16_T01 == SqliteTest
G16_T02 == SqliteTest

\* For the call, every exception is a denial.
Credentials == {"mariadb_credentials"}
Mariadb(attempts) ==
  Capability(Needs(Credentials, Command(ExitOrAbsent, Expiring)),
             Needs(Credentials,
                   Call(Returned, << <<"Exception", "Denied">> >>)),
             Needs(Credentials, attempts))
CountItems == Mariadb(MariadbStatementAttempts)
CountActiveItemsView == Mariadb(MariadbStatementAttempts)

\* Rows are deleted by a further statement, which may fail: the insert stays
\* a success, and so does the row.
Changing(capability) ==
  [p \in Paths |-> Outside(capability[p])]
CallMarkItemDone == Changing(Mariadb(MariadbClientAttempts))
InsertItem == Changing(Mariadb(MariadbClientAttempts))
InsertAndUpdateItem == Changing(Mariadb(MariadbClientAttempts))

\* Insert and delete: the call does both in one transaction.
InsertAndDeleteItem ==
  [Changing(Mariadb(MariadbClientAttempts)) EXCEPT !.tool = Makes({}, @)]

G16_T05 == Mariadb(MariadbStatementAttempts)
G16_T06 == CountItems
G16_T07 == CountItems
G16_T08 == InsertItem
G16_T09 == InsertItem
G16_T10 == InsertAndUpdateItem
G16_T11 == InsertAndUpdateItem
G16_T12 == InsertAndDeleteItem
G16_T13 == InsertAndDeleteItem
G16_T14 == CountActiveItemsView
G16_T15 == CountActiveItemsView
G16_T16 == CallMarkItemDone
G16_T17 == CallMarkItemDone
=============================================================================
