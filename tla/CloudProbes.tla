----------------------------- MODULE CloudProbes -----------------------------
(***************************************************************************)
(* The probes of cloud command lines (group_17.py) and of local identity   *)
(* services (group_18.py).                                                 *)
(***************************************************************************)
EXTENDS Probing

(***************************************************************************)
(* group_17.py: the command lines of Azure, AWS and Google Cloud, their    *)
(* profiles, and the identity that they are signed in with.                *)
(***************************************************************************)
RunCloudAttempts == CountingRunner(ExitOrAbsent)
SingleCloudAttempt == Attempts(1, 1, RunCloudAttempts)

\* Exit status 0 and 1 of the detection both mean that it could look.
CliDetection ==
  Capability(Command(ExitOrAbsent, Expiring),
             Call([Returned EXCEPT !.absent = "N/A"], Failing),
             SingleCloudAttempt)

\* A profile, an identity: both paths ask the command line.
CloudTest == Capability(Command(ExitOrAbsent, Expiring),
                        Command(ExitOrAbsent, Expiring), SingleCloudAttempt)

G17_T01 == CliDetection
G17_T02 == CliDetection
G17_T03 == CliDetection
G17_T04 == CloudTest
G17_T05 == CloudTest
G17_T06 == CloudTest
G17_T07 == CloudTest
G17_T08 == CloudTest
G17_T09 == CloudTest

(***************************************************************************)
(* group_18.py: the credential store, agents that sign, sessions.          *)
(***************************************************************************)
\* Exit status 3 of an attempt is N/A.
RunLocalIdentityAttempts == CountingRunner(ExitOrAbsent)
CredentialStoreAttempts == Attempts(1, 1, RunLocalIdentityAttempts)
SshAgentAttempts == Attempts(1, 1, RunLocalIdentityAttempts)
GpgAgentAttempts == Attempts(1, 1, RunLocalIdentityAttempts)
KeychainQueryAttempts == Attempts(1, 1, RunLocalIdentityAttempts)
SessionAttempts == Attempts(2, 2, RunLocalIdentityAttempts)

Queried(path) == Raising({"TimeoutExpired"}, path)

\* T01 and T02 store a credential of their own, look it up, and delete it.
CredentialStore ==
  LET Store(path) == Needs({"credential_store"}, Outside(path))
  IN Capability(Store(Command(ExitStatus, Expiring)),
                Store(Queried(Call(Returned, Expiring))),
                Store(CredentialStoreAttempts))
G18_T01 == CredentialStore
G18_T02 == CredentialStore

\* The shell signs a challenge in the fixtures; no key is N/A.
G18_T03 ==
  LET tools == {"ssh_tools"}
  IN Capability(
       Needs(tools, InFixtures(Command(ExitOrAbsent, Expiring))),
       Raising({"LookupError"},
         Call(Returned, << <<"LookupError", "N/A">> >> \o Failing)),
       Needs(tools, SshAgentAttempts))
G18_T04 ==
  LET tools == {"gpg_tools"}
  IN Capability(Needs(tools, Command(ExitOrAbsent, Expiring)),
                Needs(tools, Queried(Call(Returned, Missing(Expiring)))),
                Needs(tools, GpgAgentAttempts))
G18_T05 ==
  LET keychain == {"keychain"}
  IN Capability(Needs(keychain, Command(ExitStatus, Expiring)),
                Needs(keychain, Queried(Call(Returned, Expiring))),
                Needs(keychain, KeychainQueryAttempts))
G18_T09 == Capability(Command(ExitStatus, Expiring),
                      Queried(Call(Returned, Expiring)), SessionAttempts)
=============================================================================
