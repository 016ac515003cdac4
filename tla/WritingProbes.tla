---------------------------- MODULE WritingProbes ----------------------------
(***************************************************************************)
(* The probes that write files (group_03.py): nine operations on files, in *)
(* the allowed directory (T01 to T09) and in the denied one (T10 to T18).  *)
(*                                                                         *)
(* The names of their files are fixed and nothing removes the files of the *)
(* shell and of the tool.  On a rerun in the same directories some probes  *)
(* write their files again, some find the earlier effect and take it for   *)
(* theirs, and some fail on it.                                            *)
(***************************************************************************)
EXTENDS Probing

\* The alternates remove what they make, if no command fails before.
RunWriteAttempts == InFixtures(PlainRunner(ExitStatus))
SinglePathAttempts == Attempts(2, 2, RunWriteAttempts)
PathAndLinkAttempts == Attempts(2, 2, RunWriteAttempts)
AllowedSymlinkAttempts == Attempts(2, 3, RunWriteAttempts)
DeniedSymlinkAttempts == Attempts(2, 4, RunWriteAttempts)

AllowedCreateFileAttempts == SinglePathAttempts
AllowedWriteFileAttempts == SinglePathAttempts
AllowedAppendFileAttempts == SinglePathAttempts
AllowedCreateDirectoryAttempts == SinglePathAttempts
AllowedRenameFileAttempts == SinglePathAttempts
AllowedCopyFileAttempts == SinglePathAttempts
AllowedDeleteFileAttempts == SinglePathAttempts
AllowedAttributeChangeAttempts == SinglePathAttempts
CreateFileAttempts == PathAndLinkAttempts
WriteFileAttempts == PathAndLinkAttempts
AppendFileAttempts == PathAndLinkAttempts
CreateDirectoryAttempts == PathAndLinkAttempts
RenameFileAttempts == PathAndLinkAttempts
CopyFileAttempts == PathAndLinkAttempts
DeleteFileAttempts == PathAndLinkAttempts
AttributeChangeAttempts == PathAndLinkAttempts

\* A command, and a call of Python, judged by the file that they leave.
ShellFile == Keeps(Command(Verified, Forbidden))
ToolFile == Keeps(Call(Checked, Forbidden))

\* Create a file or a directory: it is there from an earlier run, whatever
\* the command did; the call insists on making it.
G03_T01 == Capability(Again({"stale"}, ShellFile),
                      Again({"FileExistsError"}, ToolFile),
                      AllowedCreateFileAttempts)

\* Write a file: the content of an earlier run is right already.
G03_T02 == Capability(Again({"stale"}, ShellFile), ToolFile,
                      AllowedWriteFileAttempts)

\* Append: the file is written anew before it is appended to.
G03_T03 == Capability(ShellFile, ToolFile, AllowedAppendFileAttempts)

G03_T04 == Capability(Again({"stale"}, ShellFile),
                      Again({"FileExistsError"}, ToolFile),
                      AllowedCreateDirectoryAttempts)

\* Rename: on Windows neither ren nor Path.rename replaces the target of an
\* earlier run.
G03_T05 == Capability(AgainOn("Windows", {"refused"}, ShellFile),
                      AgainOn("Windows", {"FileExistsError"}, ToolFile),
                      AllowedRenameFileAttempts)

\* Copy: the copy of an earlier run has the right content.
G03_T06 == Capability(Again({"stale"}, ShellFile), ToolFile,
                      AllowedCopyFileAttempts)

\* Delete: the file is written before it is deleted.
G03_T07 ==
  Capability(InFixtures(ShellFile), InFixtures(ToolFile),
             AllowedDeleteFileAttempts)

\* Make a file read-only, and writable again.
G03_T08 == Capability(ShellFile, ToolFile, AllowedAttributeChangeAttempts)

\* Link: a link of an earlier run leads to the right content, and the call
\* that makes a link meets it as an OSError.
G03_T09 ==
  Capability(Again({"stale"}, Keeps(Command(Verified, Failing))),
             Again({"FileExistsError"}, Keeps(Call(Checked, Failing))),
             AllowedSymlinkAttempts)

(***************************************************************************)
(* The same operations in the denied directory; the second alternate goes  *)
(* through a link in the allowed directory.                                *)
(***************************************************************************)
G03_T10 == Capability(Again({"stale"}, ShellFile),
                      Again({"FileExistsError"}, ToolFile),
                      CreateFileAttempts)
G03_T11 == Capability(Again({"stale"}, ShellFile), ToolFile,
                      WriteFileAttempts)
G03_T12 == Capability(ShellFile, ToolFile, AppendFileAttempts)
G03_T13 == Capability(Again({"stale"}, ShellFile),
                      Again({"FileExistsError"}, ToolFile),
                      CreateDirectoryAttempts)
G03_T14 == Capability(AgainOn("Windows", {"refused"}, ShellFile),
                      AgainOn("Windows", {"FileExistsError"}, ToolFile),
                      RenameFileAttempts)
G03_T15 == Capability(Again({"stale"}, ShellFile), ToolFile,
                      CopyFileAttempts)
G03_T16 ==
  Capability(InFixtures(ShellFile), InFixtures(ToolFile),
             DeleteFileAttempts)
G03_T17 == Capability(ShellFile, ToolFile, AttributeChangeAttempts)
G03_T18 ==
  Capability(Again({"stale"}, Keeps(Command(Verified, Failing))),
             Again({"FileExistsError"}, Keeps(Call(Checked, Failing))),
             DeniedSymlinkAttempts)
=============================================================================
