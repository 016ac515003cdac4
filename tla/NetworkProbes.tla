---------------------------- MODULE NetworkProbes ----------------------------
(***************************************************************************)
(* The probes of the network (group_09.py) and of services on the machine  *)
(* (group_10.py).                                                          *)
(***************************************************************************)
EXTENDS Probing

(***************************************************************************)
(* group_09.py: names, HTTP, sockets.                                      *)
(***************************************************************************)
RunNetworkAttempts == PlainRunner(ExitStatus)
RunNetworkPolicyAttempts == CountingRunner(ExitOrAbsent)

\* A malformed address is N/A for every attempt.
RunExfiltrationAttempts ==
  Raising({"ValueError"},
          Runner(ExitStatus, BadAddress(Missing(Expiring)), "N/A"))

DnsAttempts == Attempts(3, 2, RunNetworkAttempts)
HttpHeadAttempts == Attempts(1, 1, RunNetworkAttempts)
HttpPostAttempts == Attempts(1, 1, RunNetworkAttempts)
DownloadAttempts == Attempts(1, 1, RunNetworkAttempts)
TcpConnectAttempts == Attempts(2, 1, RunNetworkAttempts)

\* The shell's listener, and the file in /tmp that holds its process id, are
\* taken away by the commands that follow in the same script.
LocalListenerAttempts == Outside(Attempts(2, 1, RunNetworkAttempts))
LoopbackServiceAttempts == Attempts(2, 1, RunNetworkAttempts)
SingleNetworkPolicyAttempt == Attempts(1, 1, RunNetworkPolicyAttempts)
SingleExfiltrationAttempt == Attempts(1, 1, RunExfiltrationAttempts)

\* A resolver that fails denies; any HTTP status proves the connection.
Resolving == << <<"gaierror", "Denied">>, <<"PermissionError", "Denied">>,
                <<"TimeoutError", "Denied">> >> \o Otherwise
Unreachable == << <<"URLError", "Denied">>, <<"TimeoutError", "Denied">>,
                  <<"PermissionError", "Denied">> >> \o Otherwise

\* (Defect: the parent class, which a refused connection belongs to.)
AnsweredAnyUrlError == << <<"URLError", "Allowed">> >> \o Unreachable
Answered == << <<"HTTPError", "Allowed">> >> \o Unreachable

G09_T01 == Capability(Command([Verified EXCEPT !.absent = "N/A"], Missing(Timed)),
                      Request(Checked, Resolving), DnsAttempts)

\* curl, or urllib: T02 and T03 a known endpoint, T05 and T06 the configured
\* domains, T07 an address, T09 a POST.
Curl == Command(ExitOrAbsent, Missing(Timed))
OpenUrl == Request(Returned, Answered)

G09_T02 == Capability(Curl, OpenUrl, HttpHeadAttempts)
G09_T03 == Capability(Curl, OpenUrl, HttpHeadAttempts)

\* (Defect: the call does not look whether the domain is configured.)
G09_T05UrlUnchecked ==
  LET domain == {"allowed_domain"}
  IN Capability(Needs(domain, Curl), OpenUrl, Needs(domain, HttpHeadAttempts))

G09_T05 ==
  LET domain == {"allowed_domain"}
  IN Capability(Needs(domain, Curl), Needs(domain, OpenUrl),
                Needs(domain, HttpHeadAttempts))
G09_T06 ==
  LET domain == {"denied_domain"}
  IN Capability(Needs(domain, Curl), Needs(domain, OpenUrl),
                Needs(domain, HttpHeadAttempts))

\* Only a status from 200 to 399 counts, in a response or in an HTTPError:
\* any other is "refused".
G09_T07 ==
  Capability(Curl, Path(ExitStatus, Unreachable, NetworkErrors \ {"HTTPError"}),
             HttpHeadAttempts)
G09_T08 == Capability(Command(ExitStatus, Timed), Request(Returned, Failing),
                      TcpConnectAttempts)
G09_T09 == Capability(Curl, OpenUrl, HttpPostAttempts)

\* A download is tried three times; the file of an earlier try, or run, is
\* deleted before each, outside the try.  The alternates delete theirs in a
\* finally.
G09_T10 ==
  LET Downloaded(path) == Retried(3, Keeps(Unguarded(FileErrors, path)))
  IN Capability(
       Downloaded(Command([ExitOrAbsent EXCEPT !.nothing = "Error"],
                          Missing(Timed))),
       Downloaded(Request(Checked, Unreachable)),
       Makes({Thing("fixtures", "finally")},
             Unguarded(FileErrors, DownloadAttempts)))

\* A child listens, and another one connects to the port it writes.
G09_T11 ==
  Capability(WithChild(Command([Returned EXCEPT !.refused = "Error"], Failing)),
             Request(Returned, Failing), LocalListenerAttempts)
G09_T12 == Capability(WithChild(Command(ExitStatus, Failing)),
                      Request(Checked, Failing), LoopbackServiceAttempts)

\* A configured address, which is taken apart in the try of the command and
\* of the call, and outside any try before the alternates.
Connection(setting, attempts) ==
  Capability(Needs({setting}, Command(ExitStatus, Timed)),
             Needs({setting}, Request(Returned, Failing)),
             Needs({setting}, Unguarded({"Exception"}, attempts)))

G09_T13 == Connection("allowed_localnet_address", TcpConnectAttempts)
G09_T14 == Connection("denied_localnet_address", TcpConnectAttempts)

(***************************************************************************)
(* Network policy.                                                         *)
(***************************************************************************)
\* _g25_run_shell_test.
RunShellTest == Command(ExitOrAbsent, Expiring)

Policy == Capability(RunShellTest, Request(Returned, Failing),
                     SingleNetworkPolicyAttempt)
PolicyIf(settings) ==
  Capability(Needs(settings, RunShellTest),
             Needs(settings, Request(Returned, Failing)),
             Needs(settings, SingleNetworkPolicyAttempt))

\* A listener that the shell starts beside its client, and ends.
Listening(capability) ==
  Capability(Outside(capability.shell), capability.tool,
             Outside(capability.alternates))

G09_T15 == Listening(Policy)
G09_T16 == Policy
G09_T17 == Policy

\* The call takes every exception for a denial.
G09_T18 ==
  [Policy EXCEPT !.tool = Request(Returned, << <<"Exception", "Denied">> >>)]
G09_T19 == PolicyIf({"allowed_intranet_target"})
G09_T20 == PolicyIf({"denied_intranet_target"})
G09_T21 == Listening(Policy)
G09_T22 == Listening(Policy)

\* A port that is in use already says nothing.
G09_T23 ==
  [Listening(PolicyIf({"Linux"})) EXCEPT
     !.tool = Needs({"Linux"},
                    Request([Returned EXCEPT !.absent = "N/A"], Failing))]
G09_T24 == Policy

(***************************************************************************)
(* Exfiltration, to the configured addresses only.                         *)
(***************************************************************************)
\* An answer of the resolver, "no such name" included, proves the way out:
\* the call tells it from the other failures of the resolver by its code.
ResolverAnswered ==
  << <<"NoSuchName", "Allowed">>, <<"gaierror", "Denied">> >>
  \o << <<"PermissionError", "Denied">>, <<"TimeoutError", "Denied">> >>
  \o << <<"OSError", "Denied">> >> \o Otherwise
G09_T25 ==
  LET domain == {"dns_exfiltration_domain"}
  IN Capability(Needs(domain, Command(ExitStatus, Missing(Expiring))),
                Needs(domain, Raising({"NoSuchName"},
                                      Request(Returned, ResolverAnswered))),
                Needs(domain, SingleExfiltrationAttempt))
G09_T26 ==
  LET endpoint == {"http_exfiltration_domain", "http_exfiltration_header"}
  IN Capability(Needs(endpoint, Command(Strict, Missing(Expiring))),
                Needs(endpoint,
                      Request(Returned,
                              << <<"HTTPError", "Allowed">> >> \o Failing)),
                Needs(endpoint, SingleExfiltrationAttempt))

\* A WebSocket, SMTP: a malformed address is N/A.
Submission(setting) ==
  Capability(
    Needs({setting}, Raising({"ValueError"},
      Command(ExitStatus, BadAddress(Missing(Expiring))))),
    Needs({setting}, Raising({"ValueError"},
      Request(Returned, BadAddress(Failing)))),
    Needs({setting}, SingleExfiltrationAttempt))

G09_T27 == Submission("websocket_exfiltration_url")
G09_T28 == Submission("smtp_exfiltration_url")

(***************************************************************************)
(* group_10.py: local services.                                            *)
(***************************************************************************)
RunLocalServiceAttempts == PlainRunner(ExitStatus)
RunLocalNamespaceAttempts == CountingRunner(ExitOrAbsent)

LocalConnectAttempts == Attempts(2, 1, RunLocalServiceAttempts)
OpenPortAttempts == Attempts(2, 1, RunLocalServiceAttempts)
SocketPathAttempts == Attempts(2, 1, RunLocalServiceAttempts)
UrlQueryAttempts == Attempts(1, 1, RunLocalServiceAttempts)
CredentialServiceAttempts == Attempts(2, 2, RunLocalServiceAttempts)
PrintServiceAttempts == Attempts(2, 2, RunLocalServiceAttempts)
ContainerRuntimeSocketAttempts == Attempts(1, 0, RunLocalNamespaceAttempts)

G10_T01 == Connection("allowed_local_address", LocalConnectAttempts)
G10_T02 == Connection("denied_local_address", LocalConnectAttempts)

\* A listener of its own has to be among the open ports; before the
\* alternates it is started outside any try.
G10_T03 == Capability(Command(Verified, Expiring), Call(Checked, Failing),
                      Unguarded(FileErrors, OpenPortAttempts))
G10_T04 == Connection("allowed_database_address", LocalConnectAttempts)
G10_T05 == Connection("denied_database_address", LocalConnectAttempts)

\* A socket or a pipe that answers something else is a denial for the call.
SocketPath(setting) ==
  Capability(Needs({setting}, Command(ExitStatus, Timed)),
             Needs({setting},
                   Request([Returned EXCEPT !.nothing = "Denied"], Failing)),
             Needs({setting}, SocketPathAttempts))
ServiceUrl(setting) ==
  Capability(Needs({setting}, Command(ExitStatus, Timed)),
             Needs({setting}, Request(Returned, Failing)),
             Needs({setting}, UrlQueryAttempts))

G10_T06 == SocketPath("container_runtime_socket")
G10_T07 == ServiceUrl("local_dev_server_url")
G10_T08 == SocketPath("ssh_agent_socket")
G10_T09 == Capability(Command(ExitStatus, Timed), Command(Returned, Expiring),
                      CredentialServiceAttempts)
G10_T10 == Capability(Command(ExitStatus, Timed), Command(Returned, Expiring),
                      PrintServiceAttempts)
G10_T11 == ServiceUrl("local_model_server_url")
G10_T12 == Capability(Needs({"Linux"}, Command(ExitOrAbsent, Expiring)),
                      Needs({"Linux"}, Call(ExitOrAbsent, Failing)),
                      ContainerRuntimeSocketAttempts)
=============================================================================
