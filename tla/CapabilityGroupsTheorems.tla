---------------------- MODULE CapabilityGroupsTheorems ----------------------
(***************************************************************************)
(* The capabilities of the registry are what the theorems of               *)
(* CapabilityProbesTheorems ask for, so these hold of every selection of   *)
(* them, for any number of runs.                                           *)
(*                                                                         *)
(* A path is put together from a few constructors of Probing.  Each        *)
(* constructor keeps the paths that are written with care (CarefulPaths)   *)
(* and says what it adds to the fields they ask for; the paths of a        *)
(* capability are then followed from their definitions.                    *)
(***************************************************************************)
EXTENDS CapabilityGroups, CapabilityProbesTheorems, SequenceTheorems

-----------------------------------------------------------------------------
(***************************************************************************)
(* Paths that are written with care.                                       *)
(***************************************************************************)

\* What the paths ask for, the fields of the context and what else they look
\* for, and the exceptions they know of.
SettingNames ==
  ContextFields \cup Systems \cup
  {"never", "git_metadata", "ignored_file", "tracked_file", "site_packages",
   "dependency_file", "credential_file", "credential_store", "ssh_tools",
   "gpg_tools", "keychain", "sqlite", "mariadb_credentials", "login_data",
   "allow_camera_capture", "allow_microphone_capture"}
ExceptionNames ==
  CommandErrors \cup NetworkErrors \cup
  {"ValueError", "CalledProcessError", "RuntimeError", "ModuleNotFoundError",
   "LookupError", "OpenAIError", "FileExistsError", "NoSuchName"}

\* A handler calls only the answer of a server a success, and no refusal a
\* missing program.
CarefulPairs ==
  {h \in ExceptionNames \X Outcomes :
     /\ h[2] = "Allowed" => h[1] \in ServerAnswers
     /\ h[2] = "N/A" => ~IsA("PermissionError", h[1])}
PartialHandlers == Seq(CarefulPairs)

\* Those of a preparation call nothing a success.
PreparationHandlers ==
  {h \in PartialHandlers : \A i \in DOMAIN h : h[i][2] # "Allowed"}

\* The last one takes whatever comes.
CarefulHandlers ==
  {h \in PartialHandlers : \E i \in DOMAIN h : h[i][1] = "Exception"}

Verdicts == Outcomes \cup {"never"}
CarefulJudgements ==
  [done : {"Allowed"}, nothing : Verdicts,
   refused : {"Denied", "Error", "never"},
   absent : Verdicts \ {"Allowed"}]

CarefulThings ==
  [where : {"fixtures"}, undone : {"never", "inline", "finally"}] \cup
  [where : {"outside"}, undone : {"inline", "finally"}]

\* What is left when a preparation fails: files in the fixtures.
CarefulLeaves == {Thing("fixtures", "never"), Thing("fixtures", "inline")}
CarefulPreparations ==
  [raises : SUBSET ExceptionNames, catch : PreparationHandlers,
   leaves : SUBSET CarefulLeaves]

PathsMaking(things) ==
  [needs : SUBSET SettingNames,
   unguarded : [Systems -> SUBSET ExceptionNames],
   on : CarefulJudgements, catch : CarefulHandlers,
   raises : SUBSET ExceptionNames, tries : Nat \ {0},
   makes : SUBSET things,
   again : [Systems -> SUBSET (ExceptionNames \cup Answer)],
   prepare : CarefulPreparations,
   count : [Systems -> Nat],
   idle : Outcomes \ {"Allowed"}, otherwise : Outcomes \ {"Allowed"}]

CarefulPaths == PathsMaking(CarefulThings)

\* A result in the output directory is for paths that ask for the directory.
ThingsAndResults == CarefulThings \cup {Screenshot}
ResultPaths ==
  {p \in PathsMaking(ThingsAndResults) : "output_directory" \in p.needs}

\* Those that ask for these fields of the context.
Fields(settings) == settings \cap ContextFields
PathsWith(fields) == {p \in CarefulPaths : Fields(p.needs) = fields}
ResultsWith(fields) == {p \in ResultPaths : Fields(p.needs) = fields}

AccountedPaths == CarefulPaths \cup ResultPaths
CarefulCapabilities ==
  {t \in [shell : AccountedPaths, tool : AccountedPaths,
          alternates : AccountedPaths] : SharesFields(t)}

-----------------------------------------------------------------------------
(***************************************************************************)
(* Handlers and judgements.                                                *)
(***************************************************************************)
LEMMA KnownExceptions ==
  {"PermissionError", "FileNotFoundError", "OSError", "TimeoutExpired",
   "Exception", "TimeoutError", "gaierror", "URLError", "HTTPError",
   "ValueError", "CalledProcessError", "RuntimeError", "ModuleNotFoundError",
   "LookupError", "OpenAIError", "FileExistsError", "NoSuchName"}
     \subseteq ExceptionNames
BY DEF ExceptionNames, CommandErrors, NetworkErrors, CallErrors

LEMMA PairIsCareful ==
  ASSUME NEW c \in ExceptionNames, NEW o \in Outcomes,
         o = "Allowed" => c \in ServerAnswers,
         o = "N/A" => ~IsA("PermissionError", c)
  PROVE  <<c, o>> \in CarefulPairs
<1>1. /\ <<c, o>> \in ExceptionNames \X Outcomes
      /\ <<c, o>>[1] = c /\ <<c, o>>[2] = o
  OBVIOUS
<1> QED
  BY <1>1 DEF CarefulPairs

LEMMA PairsAreCareful ==
  /\ \A c \in ExceptionNames : <<c, "Denied">> \in CarefulPairs
  /\ \A c \in ExceptionNames : <<c, "Error">> \in CarefulPairs
  /\ \A c \in ExceptionNames :
       ~IsA("PermissionError", c) => <<c, "N/A">> \in CarefulPairs
  /\ \A c \in ServerAnswers : <<c, "Allowed">> \in CarefulPairs
<1>1. /\ {"Denied", "Error", "N/A", "Allowed"} \subseteq Outcomes
      /\ ServerAnswers \subseteq ExceptionNames
  BY KnownExceptions DEF Outcomes, ServerAnswers
<1> QED
  BY <1>1, PairIsCareful, KnownExceptions

LEMMA HandlersJoin ==
  ASSUME NEW g \in PartialHandlers, NEW h \in CarefulHandlers
  PROVE  g \o h \in CarefulHandlers
<1>1. g \o h \in PartialHandlers
  BY ConcatProperties DEF CarefulHandlers, PartialHandlers
<1>2. PICK i \in DOMAIN h : h[i][1] = "Exception"
  BY DEF CarefulHandlers
<1>3. /\ Len(g) \in Nat /\ Len(h) \in Nat
      /\ DOMAIN h = 1..Len(h) /\ DOMAIN (g \o h) = 1..(Len(g) + Len(h))
  BY DEF CarefulHandlers, PartialHandlers
<1>4. Len(g) + i \in DOMAIN (g \o h) /\ (g \o h)[Len(g) + i] = h[i]
  BY <1>2, <1>3 DEF CarefulHandlers, PartialHandlers
<1> QED
  BY <1>1, <1>2, <1>4 DEF CarefulHandlers

LEMMA OneHandler ==
  ASSUME NEW a \in CarefulPairs
  PROVE  <<a>> \in PartialHandlers
BY DEF PartialHandlers

LEMMA TwoHandlers ==
  ASSUME NEW a \in CarefulPairs, NEW b \in CarefulPairs
  PROVE  <<a, b>> \in PartialHandlers
BY DEF PartialHandlers

LEMMA ThreeHandlers ==
  ASSUME NEW a \in CarefulPairs, NEW b \in CarefulPairs, NEW c \in CarefulPairs
  PROVE  <<a, b, c>> \in PartialHandlers
BY DEF PartialHandlers

LEMMA LastHandler ==
  ASSUME NEW o \in {"Denied", "Error"}
  PROVE  << <<"Exception", o>> >> \in CarefulHandlers
<1> DEFINE h == << <<"Exception", o>> >>
<1>1. h \in PartialHandlers
  BY PairsAreCareful, KnownExceptions, OneHandler
<1>2. 1 \in DOMAIN h /\ h[1][1] = "Exception"
  OBVIOUS
<1> QED
  BY <1>1, <1>2 DEF CarefulHandlers

LEMMA SharedHandlers ==
  /\ Otherwise \in CarefulHandlers /\ Forbidden \in CarefulHandlers
  /\ Timed \in CarefulHandlers /\ Failing \in CarefulHandlers
  /\ Expiring \in CarefulHandlers
<1>1. Otherwise \in CarefulHandlers
  BY LastHandler DEF Otherwise
<1> QED
  BY <1>1, PairsAreCareful, KnownExceptions, OneHandler, TwoHandlers,
     ThreeHandlers, HandlersJoin
  DEF Forbidden, Timed, Failing, Expiring

LEMMA AddedHandlers ==
  ASSUME NEW h \in CarefulHandlers
  PROVE  BadAddress(h) \in CarefulHandlers /\ Missing(h) \in CarefulHandlers
<1>1. /\ <<"ValueError", "N/A">> \in CarefulPairs
      /\ <<"FileNotFoundError", "N/A">> \in CarefulPairs
  BY PairsAreCareful, KnownExceptions DEF IsA, OSErrors
<1> QED
  BY <1>1, OneHandler, HandlersJoin DEF BadAddress, Missing

\* Changes of a judgement that keep it careful.
LEMMA JudgementsChange ==
  ASSUME NEW on \in CarefulJudgements
  PROVE  /\ \A v \in Verdicts : [on EXCEPT !.nothing = v] \in CarefulJudgements
         /\ \A v \in {"Denied", "Error", "never"} :
              [on EXCEPT !.refused = v] \in CarefulJudgements
         /\ \A v \in Verdicts \ {"Allowed"} :
              [on EXCEPT !.absent = v] \in CarefulJudgements
BY DEF CarefulJudgements

LEMMA SharedJudgements ==
  /\ Returned \in CarefulJudgements /\ Checked \in CarefulJudgements
  /\ ExitStatus \in CarefulJudgements /\ ExitOrAbsent \in CarefulJudgements
  /\ Verified \in CarefulJudgements /\ Strict \in CarefulJudgements
<1>1. Returned \in CarefulJudgements
  BY DEF Returned, CarefulJudgements, Verdicts, Outcomes
<1> QED
  BY <1>1 DEF Checked, ExitStatus, ExitOrAbsent, Verified, Strict,
              CarefulJudgements, Verdicts, Outcomes

-----------------------------------------------------------------------------
(***************************************************************************)
(* The constructors of paths.                                              *)
(***************************************************************************)
LEMMA Settings0 ==
  /\ Fields({}) = {} /\ Fields({"Linux"}) = {} /\ Fields({"Windows"}) = {}
  /\ Fields({"never"}) = {} /\ Fields({"sqlite"}) = {}
  /\ Fields({"ssh_tools"}) = {}
BY DEF Fields, ContextFields

LEMMA PathIsCareful ==
  ASSUME NEW on \in CarefulJudgements, NEW catch \in CarefulHandlers,
         NEW raises \in SUBSET ExceptionNames
  PROVE  Path(on, catch, raises) \in PathsWith({})
<1>1. << >> \in PreparationHandlers
  BY DEF PreparationHandlers, PartialHandlers
<1>2. Nothing \in CarefulPreparations
  BY <1>1 DEF Nothing, Preparation, CarefulPreparations
<1>3. "N/A" \in Outcomes \ {"Allowed"} /\ "Denied" \in Outcomes \ {"Allowed"}
  BY DEF Outcomes
<1>4. Path(on, catch, raises) \in CarefulPaths
  BY <1>2, <1>3 DEF Path, CarefulPaths, PathsMaking
<1>5. Path(on, catch, raises).needs = {}
  BY DEF Path
<1> QED
  BY <1>4, <1>5, Settings0 DEF PathsWith

LEMMA ErrorsAreExceptions ==
  /\ CommandErrors \in SUBSET ExceptionNames
  /\ CallErrors \in SUBSET ExceptionNames
  /\ NetworkErrors \in SUBSET ExceptionNames
  /\ FileErrors \in SUBSET ExceptionNames
  /\ OSErrors \subseteq ExceptionNames
BY DEF CommandErrors, CallErrors, NetworkErrors, FileErrors, OSErrors,
       ExceptionNames

LEMMA Calls ==
  ASSUME NEW on \in CarefulJudgements, NEW catch \in CarefulHandlers
  PROVE  /\ Command(on, catch) \in PathsWith({})
         /\ Call(on, catch) \in PathsWith({})
         /\ Request(on, catch) \in PathsWith({})
BY PathIsCareful, ErrorsAreExceptions DEF Command, Call, Request

LEMMA NeedsKeeps ==
  ASSUME NEW f, NEW path \in PathsWith(f), NEW settings \in SUBSET SettingNames
  PROVE  Needs(settings, path) \in PathsWith(Fields(settings) \cup f)
<1>1. Needs(settings, path) \in CarefulPaths
  BY DEF Needs, PathsWith, CarefulPaths, PathsMaking
<1>2. Needs(settings, path).needs = path.needs \cup settings
  BY DEF Needs, PathsWith, CarefulPaths, PathsMaking
<1> QED
  BY <1>1, <1>2 DEF PathsWith, Fields

LEMMA Constructors ==
  ASSUME NEW f, NEW path \in PathsWith(f)
  PROVE  /\ \A e \in SUBSET ExceptionNames :
              Unguarded(e, path) \in PathsWith(f)
         /\ \A s \in Systems : \A e \in SUBSET ExceptionNames :
              UnguardedOn(s, e, path) \in PathsWith(f)
         /\ \A e \in SUBSET ExceptionNames : Raising(e, path) \in PathsWith(f)
         /\ \A x \in SUBSET CarefulThings : Makes(x, path) \in PathsWith(f)
         /\ \A n \in Nat \ {0} : Retried(n, path) \in PathsWith(f)
<1> USE DEF PathsWith
<1>5. ASSUME NEW s \in Systems, NEW e \in SUBSET ExceptionNames
      PROVE  UnguardedOn(s, e, path) \in PathsWith(f)
  BY DEF UnguardedOn, CarefulPaths, PathsMaking
<1>1. ASSUME NEW e \in SUBSET ExceptionNames
      PROVE  Unguarded(e, path) \in PathsWith(f)
  BY DEF Unguarded, CarefulPaths, PathsMaking
<1>2. ASSUME NEW e \in SUBSET ExceptionNames
      PROVE  Raising(e, path) \in PathsWith(f)
  BY DEF Raising, CarefulPaths, PathsMaking
<1>3. ASSUME NEW x \in SUBSET CarefulThings
      PROVE  Makes(x, path) \in PathsWith(f)
  BY DEF Makes, CarefulPaths, PathsMaking
<1>4. ASSUME NEW n \in Nat \ {0} PROVE Retried(n, path) \in PathsWith(f)
  BY DEF Retried, CarefulPaths, PathsMaking
<1> QED
  BY <1>1, <1>2, <1>3, <1>4, <1>5

LEMMA Keeping ==
  ASSUME NEW f, NEW path \in PathsWith(f)
  PROVE  /\ Keeps(path) \in PathsWith(f)
         /\ \A a \in SUBSET (ExceptionNames \cup Answer) :
              Again(a, path) \in PathsWith(f)
         /\ \A s \in Systems : \A a \in SUBSET (ExceptionNames \cup Answer) :
              AgainOn(s, a, path) \in PathsWith(f)
<1>1. {Thing("fixtures", "never")} \in SUBSET CarefulThings
  BY DEF Thing, CarefulThings
<1>2. Keeps(path) \in PathsWith(f)
  BY <1>1, Constructors DEF Keeps
<1>3. ASSUME NEW a \in SUBSET (ExceptionNames \cup Answer)
      PROVE  Again(a, path) \in PathsWith(f)
  BY <1>2 DEF Again, PathsWith, CarefulPaths, PathsMaking
<1>4. ASSUME NEW s \in Systems, NEW a \in SUBSET (ExceptionNames \cup Answer)
      PROVE  AgainOn(s, a, path) \in PathsWith(f)
  BY <1>2 DEF AgainOn, PathsWith, CarefulPaths, PathsMaking
<1> QED
  BY <1>2, <1>3, <1>4

LEMMA Things ==
  /\ \A u \in {"never", "inline", "finally"} :
       {Thing("fixtures", u)} \in SUBSET CarefulThings
  /\ \A u \in {"inline", "finally"} :
       {Thing("outside", u)} \in SUBSET CarefulThings
BY DEF Thing, CarefulThings

LEMMA Places ==
  ASSUME NEW f, NEW path \in PathsWith(f)
  PROVE  /\ InFixtures(path) \in PathsWith(f)
         /\ Outside(path) \in PathsWith(f)
         /\ Unlinking("fixtures", path) \in PathsWith(f)
         /\ Unlinking("outside", path) \in PathsWith(f)
         /\ WithChild(path) \in PathsWith(f)
         /\ InTemporaryDirectory(path) \in PathsWith(f)
<1>1. /\ {"TimeoutExpired"} \in SUBSET ExceptionNames
      /\ {"PermissionError", "OSError"} \in SUBSET ExceptionNames
  BY KnownExceptions
<1>2. ASSUME NEW q \in PathsWith(f)
      PROVE  InFixtures(q) \in PathsWith(f) /\ Outside(q) \in PathsWith(f)
  BY Things, Constructors DEF InFixtures, Outside
<1>3. /\ Unlinking("fixtures", path) \in PathsWith(f)
      /\ Unlinking("outside", path) \in PathsWith(f)
      /\ WithChild(path) \in PathsWith(f)
  BY <1>1, Things, Constructors DEF Unlinking, WithChild
<1>4. InTemporaryDirectory(path) \in PathsWith(f)
  BY <1>2, Constructors, ErrorsAreExceptions DEF InTemporaryDirectory
<1> QED
  BY <1>2, <1>3, <1>4

LEMMA Lists ==
  ASSUME NEW f, NEW path \in PathsWith(f)
  PROVE  /\ \A m, n \in Nat : Attempts(m, n, path) \in PathsWith(f)
         /\ \A errors \in SUBSET ExceptionNames,
               catch \in PreparationHandlers, leaves \in SUBSET CarefulLeaves :
              Prepared(Preparation(errors, catch, leaves), path)
                \in PathsWith(f)
<1> USE DEF PathsWith
<1>1. ASSUME NEW m \in Nat, NEW n \in Nat
      PROVE  Attempts(m, n, path) \in PathsWith(f)
  <2>1. [Linux |-> m, Windows |-> n] \in [Systems -> Nat]
    BY DEF Systems
  <2> QED
    BY <2>1 DEF Attempts, CarefulPaths, PathsMaking
<1>2. ASSUME NEW errors \in SUBSET ExceptionNames,
             NEW catch \in PreparationHandlers,
             NEW leaves \in SUBSET CarefulLeaves
      PROVE  Prepared(Preparation(errors, catch, leaves), path) \in PathsWith(f)
  <2>1. Preparation(errors, catch, leaves) \in CarefulPreparations
    BY DEF Preparation, CarefulPreparations
  <2> QED
    BY <2>1 DEF Prepared, CarefulPaths, PathsMaking
<1> QED
  BY <1>1, <1>2

LEMMA Runners ==
  ASSUME NEW on \in CarefulJudgements
  PROVE  /\ \A catch \in CarefulHandlers : \A idle \in Outcomes \ {"Allowed"} :
              Runner(on, catch, idle) \in PathsWith({})
         /\ CountingRunner(on) \in PathsWith({})
         /\ PlainRunner(on) \in PathsWith({})
<1>1. ASSUME NEW catch \in CarefulHandlers,
             NEW idle \in Outcomes \ {"Allowed"}
      PROVE  Runner(on, catch, idle) \in PathsWith({})
  <2>1. Command(on, catch) \in PathsWith({})
    BY Calls
  <2> QED
    BY <2>1 DEF Runner, PathsWith, CarefulPaths, PathsMaking
<1>2. {"N/A", "Denied"} \subseteq Outcomes \ {"Allowed"}
  BY DEF Outcomes
<1> QED
  BY <1>1, <1>2, SharedHandlers, AddedHandlers DEF CountingRunner, PlainRunner

\* The commonest paths.
LEMMA CommonPaths ==
  /\ ShellStatus \in PathsWith({}) /\ PythonCall \in PathsWith({})
  /\ NoAlternates \in PathsWith({}) /\ NotApplicable \in PathsWith({})
<1>1. ShellStatus \in PathsWith({}) /\ PythonCall \in PathsWith({})
  BY Calls, SharedHandlers, SharedJudgements DEF ShellStatus, PythonCall
<1>2. NoAlternates \in PathsWith({})
  <2>1. "N/A" \in Outcomes \ {"Allowed"}
    BY DEF Outcomes
  <2>2. Runner(ExitStatus, Otherwise, "N/A") \in PathsWith({})
    BY <2>1, Runners, SharedHandlers, SharedJudgements
  <2> QED
    BY <2>2, Lists DEF NoAlternates
<1>3. NotApplicable \in PathsWith({})
  <2>1. Call(Returned, Otherwise) \in PathsWith({})
    BY Calls, SharedHandlers, SharedJudgements
  <2>2. {"never"} \in SUBSET SettingNames
    BY DEF SettingNames
  <2> QED
    BY <2>1, <2>2, Settings0 DEF NotApplicable, PathsWith, CarefulPaths, PathsMaking
<1> QED
  BY <1>1, <1>2, <1>3

-----------------------------------------------------------------------------
\* Three paths that ask for the same fields.
LEMMA CapabilityIsCareful ==
  ASSUME NEW f, NEW shell \in PathsWith(f), NEW tool \in PathsWith(f),
         NEW alternates \in PathsWith(f)
  PROVE  Capability(shell, tool, alternates) \in CarefulCapabilities
<1> DEFINE t == Capability(shell, tool, alternates)
<1>1. t \in [shell : AccountedPaths, tool : AccountedPaths,
             alternates : AccountedPaths]
  BY DEF Capability, PathsWith, AccountedPaths
<1>2. \A p \in Paths : Fields(t[p].needs) = f
  BY DEF Capability, PathsWith, Paths
<1>3. SharesFields(t)
  BY <1>2 DEF SharesFields, Fields
<1> QED
  BY <1>1, <1>3 DEF CarefulCapabilities

\* A path that asks for the output directory may leave its results there.
LEMMA ResultsKeep ==
  ASSUME NEW path \in PathsWith({}), NEW things \in SUBSET ThingsAndResults,
         NEW settings \in SUBSET SettingNames,
         "output_directory" \in settings
  PROVE  Needs(settings, Makes(things, path)) \in ResultsWith(Fields(settings))
<1> DEFINE making == Makes(things, path)
           asking == Needs(settings, making)
<1>1. making \in PathsMaking(ThingsAndResults) /\ making.needs = path.needs
  BY DEF Makes, PathsWith, CarefulPaths, PathsMaking
<1>2. /\ asking \in PathsMaking(ThingsAndResults)
      /\ asking.needs = path.needs \cup settings
  BY <1>1 DEF Needs, PathsMaking
<1>3. Fields(asking.needs) = Fields(settings)
  BY <1>1, <1>2 DEF PathsWith, Fields
<1> QED
  BY <1>2, <1>3 DEF ResultsWith, ResultPaths

\* Two of them, and no alternates.
LEMMA WithoutAlternates ==
  ASSUME NEW f, NEW shell \in AccountedPaths, NEW tool \in AccountedPaths,
         Fields(shell.needs) = f, Fields(tool.needs) = f
  PROVE  Capability(shell, tool, NoAlternates) \in CarefulCapabilities
<1> DEFINE t == Capability(shell, tool, NoAlternates)
<1>1. t \in [shell : AccountedPaths, tool : AccountedPaths,
             alternates : AccountedPaths]
  BY CommonPaths DEF Capability, PathsWith, AccountedPaths
<1>2. /\ Fields(t["shell"].needs) = f /\ Fields(t["tool"].needs) = f
      /\ Fields(t["alternates"].needs) = {}
  BY CommonPaths DEF Capability, PathsWith
<1>3. \A s \in Systems : t["alternates"].count[s] = 0
  <2>1. Runner(ExitStatus, Otherwise, "N/A") \in CarefulPaths
    <3>1. "N/A" \in Outcomes \ {"Allowed"}
      BY DEF Outcomes
    <3> QED
      BY <3>1, Runners, SharedHandlers, SharedJudgements DEF PathsWith
  <2>2. NoAlternates.count = [Linux |-> 0, Windows |-> 0]
    BY <2>1 DEF NoAlternates, Attempts, CarefulPaths, PathsMaking
  <2> QED
    BY <2>2 DEF Capability, Systems
<1>4. ~IsUsed(t, "alternates")
  BY <1>3 DEF IsUsed
<1>5. SharesFields(t)
  BY <1>2, <1>4 DEF SharesFields, Fields, Paths
<1> QED
  BY <1>1, <1>5 DEF CarefulCapabilities

LEMMA CapabilityWithoutAlternates ==
  ASSUME NEW f, NEW shell \in PathsWith(f), NEW tool \in PathsWith(f)
  PROVE  Capability(shell, tool, NoAlternates) \in CarefulCapabilities
BY WithoutAlternates DEF PathsWith, AccountedPaths

LEMMA CapabilityWithResults ==
  ASSUME NEW f, NEW shell \in ResultsWith(f), NEW tool \in ResultsWith(f)
  PROVE  Capability(shell, tool, NoAlternates) \in CarefulCapabilities
BY WithoutAlternates DEF ResultsWith, AccountedPaths

LEMMA KnownSettings ==
  {"mounted_shared_directory", "allowed_domain", "denied_domain",
   "allowed_local_address", "denied_local_address",
   "allowed_localnet_address", "denied_localnet_address",
   "allowed_intranet_target", "denied_intranet_target",
   "allowed_database_address", "denied_database_address",
   "container_runtime_socket", "local_dev_server_url",
   "local_model_server_url", "metadata_endpoint_url",
   "dns_exfiltration_domain", "http_exfiltration_domain",
   "http_exfiltration_header", "websocket_exfiltration_url",
   "smtp_exfiltration_url", "ssh_agent_socket", "browser_debugging_url",
   "browser_executable", "existing_browser_profile",
   "allowed_git_repository", "denied_git_repository", "git_remote_url",
   "output_directory", "Linux", "Windows", "never", "git_metadata",
   "ignored_file", "tracked_file", "site_packages", "dependency_file",
   "credential_file", "credential_store", "ssh_tools", "gpg_tools",
   "keychain", "sqlite", "mariadb_credentials", "login_data",
   "allow_camera_capture", "allow_microphone_capture"} \subseteq SettingNames
BY DEF SettingNames, ContextFields, Systems

\* What is no field of the context makes no difference.
LEMMA NeedsNoField ==
  ASSUME NEW f, NEW path \in PathsWith(f),
         NEW x \in {"Linux", "Windows", "sqlite", "ssh_tools"}
  PROVE  Needs({x}, path) \in PathsWith(f)
<1>1. {x} \in SUBSET SettingNames
  BY KnownSettings
<1>2. Fields({x}) = {}
  BY Settings0
<1>3. {} \cup f = f
  OBVIOUS
<1> QED
  BY <1>1, <1>2, <1>3, NeedsKeeps

-----------------------------------------------------------------------------
(***************************************************************************)
(* The capabilities.                                                       *)
(***************************************************************************)
AreCareful(group) ==
  \A t \in DOMAIN group : group[t] \in CarefulCapabilities

-----------------------------------------------------------------------------
\* ReadingProbes: groups 1, 2, 4, 5 and 8.
LEMMA ReadingRunners ==
  /\ RunRuntimeAttempts \in PathsWith({})
  /\ RunIdentityAttempts \in PathsWith({})
  /\ RunNamespaceAttempts \in PathsWith({})
  /\ RunPathAttempts \in PathsWith({})
  /\ RunSurfaceAttempts \in PathsWith({})
  /\ RunDiskSpaceAttempts \in PathsWith({})
  /\ RunEnvironmentAttempts \in PathsWith({})
  /\ RunCpuCountAttempts \in PathsWith({})
BY Runners, SharedJudgements
DEF RunRuntimeAttempts, RunIdentityAttempts, RunNamespaceAttempts,
    RunPathAttempts, RunSurfaceAttempts, RunDiskSpaceAttempts,
    RunEnvironmentAttempts, RunCpuCountAttempts

LEMMA ReadingAttempts ==
  /\ WorkingDirectoryAttempts \in PathsWith({})
  /\ CurrentUserAttempts \in PathsWith({})
  /\ ProcessIdAttempts \in PathsWith({})
  /\ OperatingSystemAttempts \in PathsWith({})
  /\ CpuArchitectureAttempts \in PathsWith({})
  /\ HostnameAttempts \in PathsWith({})
  /\ ContainerVmAttempts \in PathsWith({})
  /\ CommandLineAttempts \in PathsWith({})
  /\ EnvironmentSummaryAttempts \in PathsWith({})
  /\ RuntimeMarkerAttempts \in PathsWith({})
  /\ CgroupNamespaceAttempts \in PathsWith({})
  /\ ConfinementStatusAttempts \in PathsWith({})
  /\ LinuxCapabilityAttempts \in PathsWith({})
  /\ WindowsIdentityAttempts \in PathsWith({})
  /\ HostIdentityAttempts \in PathsWith({})
  /\ ProcessNamespaceAttempts \in PathsWith({})
  /\ FileReadAttempts \in PathsWith({})
  /\ MetadataReadAttempts \in PathsWith({})
  /\ DirectoryListingAttempts \in PathsWith({})
  /\ SurfaceDirectoryAttempts \in PathsWith({})
  /\ ServiceAccountAttempts \in PathsWith({})
  /\ MountSurfaceAttempts \in PathsWith({})
  /\ DiskSpaceAttempts \in PathsWith({})
  /\ EnvironmentNameAttempts \in PathsWith({})
  /\ PathVariableAttempts \in PathsWith({})
  /\ CpuCountAttempts \in PathsWith({})
BY ReadingRunners, Lists
DEF WorkingDirectoryAttempts, CurrentUserAttempts, ProcessIdAttempts,
    OperatingSystemAttempts, CpuArchitectureAttempts, HostnameAttempts,
    ContainerVmAttempts, CommandLineAttempts, EnvironmentSummaryAttempts,
    RuntimeMarkerAttempts, CgroupNamespaceAttempts,
    ConfinementStatusAttempts, LinuxCapabilityAttempts,
    WindowsIdentityAttempts, HostIdentityAttempts, ProcessNamespaceAttempts,
    FileReadAttempts, MetadataReadAttempts, DirectoryListingAttempts,
    SurfaceDirectoryAttempts, ServiceAccountAttempts, MountSurfaceAttempts,
    DiskSpaceAttempts, EnvironmentNameAttempts, PathVariableAttempts,
    CpuCountAttempts

LEMMA AiCredentials ==
  /\ NamesFound \in CarefulJudgements
  /\ [NamesFound EXCEPT !.refused = "Denied"] \in CarefulJudgements
  /\ AiCredentialAttempts \in PathsWith({})
<1>1. NamesFound \in CarefulJudgements
  BY SharedJudgements, JudgementsChange DEF NamesFound, Verdicts, Outcomes
<1>2. [NamesFound EXCEPT !.refused = "Denied"] \in CarefulJudgements
  BY <1>1, JudgementsChange
<1>3. "N/A" \in Outcomes \ {"Allowed"}
  BY DEF Outcomes
<1>4. CountingRunner([NamesFound EXCEPT !.refused = "Denied"])
        \in PathsWith({})
  BY <1>2, Runners
<1>5. RunAiCredentialAttempts \in PathsWith({})
  BY <1>3, <1>4 DEF RunAiCredentialAttempts, PathsWith, CarefulPaths, PathsMaking
<1> QED
  BY <1>1, <1>2, <1>5, Lists DEF AiCredentialAttempts

LEMMA Group01IsCareful == AreCareful(Group01)
<1>1. /\ G01_T01 \in CarefulCapabilities
      /\ G01_T02 \in CarefulCapabilities
      /\ G01_T03 \in CarefulCapabilities
      /\ G01_T04 \in CarefulCapabilities
      /\ G01_T05 \in CarefulCapabilities
      /\ G01_T06 \in CarefulCapabilities
      /\ G01_T07 \in CarefulCapabilities
      /\ G01_T08 \in CarefulCapabilities
      /\ G01_T09 \in CarefulCapabilities
      /\ G01_T10 \in CarefulCapabilities
      /\ G01_T11 \in CarefulCapabilities
      /\ G01_T12 \in CarefulCapabilities
      /\ G01_T13 \in CarefulCapabilities
      /\ G01_T14 \in CarefulCapabilities
      /\ G01_T15 \in CarefulCapabilities
      /\ G01_T16 \in CarefulCapabilities
  BY CommonPaths, Calls, SharedHandlers, SharedJudgements, NeedsNoField,
     ReadingAttempts, CapabilityIsCareful
  DEF G01_T01, G01_T02, G01_T03, G01_T04, G01_T05, G01_T06, G01_T07, G01_T08,
      G01_T09, G01_T10, G01_T11, G01_T12, G01_T13, G01_T14, G01_T15, G01_T16
<1> QED
  BY <1>1 DEF AreCareful, Group01

LEMMA Group02IsCareful == AreCareful(Group02)
<1>1. /\ G02_T01 \in CarefulCapabilities
      /\ G02_T02 \in CarefulCapabilities
      /\ G02_T03 \in CarefulCapabilities
      /\ G02_T04 \in CarefulCapabilities
      /\ G02_T05 \in CarefulCapabilities
      /\ G02_T06 \in CarefulCapabilities
      /\ G02_T07 \in CarefulCapabilities
      /\ G02_T08 \in CarefulCapabilities
      /\ G02_T09 \in CarefulCapabilities
      /\ G02_T10 \in CarefulCapabilities
      /\ G02_T11 \in CarefulCapabilities
      /\ G02_T12 \in CarefulCapabilities
      /\ G02_T13 \in CarefulCapabilities
      /\ G02_T14 \in CarefulCapabilities
      /\ G02_T15 \in CarefulCapabilities
  BY CommonPaths, Calls, SharedHandlers, SharedJudgements, NeedsNoField,
     NeedsKeeps, KnownSettings, LastHandler, ReadingAttempts,
     CapabilityIsCareful
  DEF G02_T01, G02_T02, G02_T03, G02_T04, G02_T05, G02_T06, G02_T07, G02_T08,
      G02_T09, G02_T10, G02_T11, G02_T12, G02_T13, G02_T14, G02_T15,
      BareShell
<1> QED
  BY <1>1 DEF AreCareful, Group02

LEMMA Group04IsCareful == AreCareful(Group04)
<1>1. G04_T08 \in CarefulCapabilities
  BY CommonPaths, ReadingAttempts, CapabilityIsCareful DEF G04_T08
<1> QED
  BY <1>1 DEF AreCareful, Group04

LEMMA Group05IsCareful == AreCareful(Group05)
<1>1. /\ G05_T01 \in CarefulCapabilities
      /\ G05_T04 \in CarefulCapabilities
      /\ G05_T05 \in CarefulCapabilities
  BY CommonPaths, Calls, SharedHandlers, SharedJudgements, AddedHandlers,
     JudgementsChange, ReadingAttempts, AiCredentials, CapabilityIsCareful
  DEF G05_T01, G05_T04, G05_T05, Verdicts, Outcomes
<1> QED
  BY <1>1 DEF AreCareful, Group05

LEMMA Group08IsCareful == AreCareful(Group08)
<1>1. G08_T01 \in CarefulCapabilities
  BY CommonPaths, Calls, SharedHandlers, SharedJudgements, ReadingAttempts,
     CapabilityIsCareful
  DEF G08_T01
<1> QED
  BY <1>1 DEF AreCareful, Group08

-----------------------------------------------------------------------------
\* WritingProbes: group 3.
LEMMA WritingRunners ==
  /\ RunWriteAttempts \in PathsWith({})
BY Runners, SharedJudgements, Places
DEF RunWriteAttempts

LEMMA WritingAttempts ==
  /\ SinglePathAttempts \in PathsWith({})
  /\ PathAndLinkAttempts \in PathsWith({})
  /\ AllowedSymlinkAttempts \in PathsWith({})
  /\ DeniedSymlinkAttempts \in PathsWith({})
  /\ AllowedCreateFileAttempts \in PathsWith({})
  /\ AllowedWriteFileAttempts \in PathsWith({})
  /\ AllowedAppendFileAttempts \in PathsWith({})
  /\ AllowedCreateDirectoryAttempts \in PathsWith({})
  /\ AllowedRenameFileAttempts \in PathsWith({})
  /\ AllowedCopyFileAttempts \in PathsWith({})
  /\ AllowedDeleteFileAttempts \in PathsWith({})
  /\ AllowedAttributeChangeAttempts \in PathsWith({})
  /\ CreateFileAttempts \in PathsWith({})
  /\ WriteFileAttempts \in PathsWith({})
  /\ AppendFileAttempts \in PathsWith({})
  /\ CreateDirectoryAttempts \in PathsWith({})
  /\ RenameFileAttempts \in PathsWith({})
  /\ CopyFileAttempts \in PathsWith({})
  /\ DeleteFileAttempts \in PathsWith({})
  /\ AttributeChangeAttempts \in PathsWith({})
BY WritingRunners, Lists
DEF SinglePathAttempts, PathAndLinkAttempts, AllowedSymlinkAttempts,
    DeniedSymlinkAttempts, AllowedCreateFileAttempts,
    AllowedWriteFileAttempts, AllowedAppendFileAttempts,
    AllowedCreateDirectoryAttempts, AllowedRenameFileAttempts,
    AllowedCopyFileAttempts, AllowedDeleteFileAttempts,
    AllowedAttributeChangeAttempts, CreateFileAttempts, WriteFileAttempts,
    AppendFileAttempts, CreateDirectoryAttempts, RenameFileAttempts,
    CopyFileAttempts, DeleteFileAttempts, AttributeChangeAttempts

LEMMA WrittenFiles ==
  /\ ShellFile \in PathsWith({})
  /\ ToolFile \in PathsWith({})
  /\ Keeps(Command(Verified, Failing)) \in PathsWith({})
  /\ Keeps(Call(Checked, Failing)) \in PathsWith({})
  /\ {"stale"} \in SUBSET (ExceptionNames \cup Answer)
  /\ {"refused"} \in SUBSET (ExceptionNames \cup Answer)
  /\ {"FileExistsError"} \in SUBSET (ExceptionNames \cup Answer)
BY Calls, SharedHandlers, SharedJudgements, Keeping, KnownExceptions
DEF ShellFile, ToolFile, Answer

LEMMA Group03IsCareful == AreCareful(Group03)
<1>1. /\ G03_T01 \in CarefulCapabilities
      /\ G03_T02 \in CarefulCapabilities
      /\ G03_T03 \in CarefulCapabilities
      /\ G03_T04 \in CarefulCapabilities
      /\ G03_T05 \in CarefulCapabilities
      /\ G03_T06 \in CarefulCapabilities
      /\ G03_T07 \in CarefulCapabilities
      /\ G03_T08 \in CarefulCapabilities
      /\ G03_T09 \in CarefulCapabilities
      /\ G03_T10 \in CarefulCapabilities
      /\ G03_T11 \in CarefulCapabilities
      /\ G03_T12 \in CarefulCapabilities
      /\ G03_T13 \in CarefulCapabilities
      /\ G03_T14 \in CarefulCapabilities
      /\ G03_T15 \in CarefulCapabilities
      /\ G03_T16 \in CarefulCapabilities
      /\ G03_T17 \in CarefulCapabilities
      /\ G03_T18 \in CarefulCapabilities
  BY WrittenFiles, WritingAttempts, Keeping, Places, CapabilityIsCareful
  DEF G03_T01, G03_T02, G03_T03, G03_T04, G03_T05, G03_T06, G03_T07, G03_T08,
      G03_T09, G03_T10, G03_T11, G03_T12, G03_T13, G03_T14, G03_T15, G03_T16,
      G03_T17, G03_T18, Systems
<1> QED
  BY <1>1 DEF AreCareful, Group03

-----------------------------------------------------------------------------
\* ProcessProbes: groups 6, 7 and 14.
LEMMA ProcessRunners ==
  /\ RunProgramAttempts \in PathsWith({})
  /\ RunProcessAttempts \in PathsWith({})
  /\ RunPackageAttempts \in PathsWith({})
BY Runners, SharedJudgements
DEF RunProgramAttempts, RunProcessAttempts, RunPackageAttempts

LEMMA ProcessAttempts ==
  /\ BuiltinCommandAttempts \in PathsWith({})
  /\ InterpreterAttempts \in PathsWith({})
  /\ ShellCommandAttempts \in PathsWith({})
  /\ WithoutShellAttempts \in PathsWith({})
  /\ PackageManagerAttempts \in PathsWith({})
  /\ CompileAttempts \in PathsWith({})
  /\ TestRunnerAttempts \in PathsWith({})
  /\ AdminToolAttempts \in PathsWith({})
  /\ NewScriptAttempts \in PathsWith({})
  /\ NativeLibraryAttempts \in PathsWith({})
  /\ RuntimeImportAttempts \in PathsWith({})
  /\ OsApiAttempts \in PathsWith({})
  /\ PowerShellModeAttempts \in PathsWith({})
  /\ OwnProcessAttempts \in PathsWith({})
  /\ ChildProcessListingAttempts \in PathsWith({})
  /\ UserProcessListingAttempts \in PathsWith({})
  /\ SystemProcessListingAttempts \in PathsWith({})
  /\ StartChildAttempts \in PathsWith({})
  /\ TerminateChildAttempts \in PathsWith({})
  /\ ProcessPriorityAttempts \in PathsWith({})
  /\ RegistryMetadataAttempts \in PathsWith({})
  /\ EnvironmentInstallAttempts \in PathsWith({})
  /\ GlobalProbeAttempts \in PathsWith({})
  /\ LocalInstallAttempts \in PathsWith({})
  /\ LockfileProbeAttempts \in PathsWith({})
  /\ CredentialReadAttempts \in PathsWith({})
BY ProcessRunners, Lists
DEF BuiltinCommandAttempts, InterpreterAttempts, ShellCommandAttempts,
    WithoutShellAttempts, PackageManagerAttempts, CompileAttempts,
    TestRunnerAttempts, AdminToolAttempts, NewScriptAttempts,
    NativeLibraryAttempts, RuntimeImportAttempts, OsApiAttempts,
    PowerShellModeAttempts, OwnProcessAttempts, ChildProcessListingAttempts,
    UserProcessListingAttempts, SystemProcessListingAttempts,
    StartChildAttempts, TerminateChildAttempts, ProcessPriorityAttempts,
    RegistryMetadataAttempts, EnvironmentInstallAttempts,
    GlobalProbeAttempts, LocalInstallAttempts, LockfileProbeAttempts,
    CredentialReadAttempts

LEMMA Programs ==
  /\ Program \in PathsWith({})
  /\ Tool \in PathsWith({})
  /\ WrittenProgram \in PathsWith({})
BY Calls, SharedHandlers, SharedJudgements, Keeping, Constructors,
   ErrorsAreExceptions
DEF Program, Tool, WrittenProgram

LEMMA Group06IsCareful == AreCareful(Group06)
<1>1. /\ G06_T01 \in CarefulCapabilities
      /\ G06_T02 \in CarefulCapabilities
      /\ G06_T03 \in CarefulCapabilities
      /\ G06_T04 \in CarefulCapabilities
      /\ G06_T05 \in CarefulCapabilities
      /\ G06_T06 \in CarefulCapabilities
      /\ G06_T07 \in CarefulCapabilities
      /\ G06_T09 \in CarefulCapabilities
      /\ G06_T11 \in CarefulCapabilities
      /\ G06_T12 \in CarefulCapabilities
      /\ G06_T13 \in CarefulCapabilities
      /\ G06_T14 \in CarefulCapabilities
      /\ G06_T15 \in CarefulCapabilities
  BY Calls, SharedHandlers, SharedJudgements, AddedHandlers, Programs,
     ProcessAttempts, Keeping, Places, CapabilityIsCareful
  DEF G06_T01, G06_T02, G06_T03, G06_T04, G06_T05, G06_T06, G06_T07, G06_T09,
      G06_T11, G06_T12, G06_T13, G06_T14, G06_T15
<1> QED
  BY <1>1 DEF AreCareful, Group06

LEMMA PreparationsJoin ==
  ASSUME NEW g \in PreparationHandlers, NEW h \in PreparationHandlers
  PROVE  g \o h \in PreparationHandlers
<1>1. g \o h \in PartialHandlers
  BY ConcatProperties DEF PreparationHandlers, PartialHandlers
<1>2. /\ Len(g) \in Nat /\ Len(h) \in Nat
      /\ DOMAIN g = 1..Len(g) /\ DOMAIN h = 1..Len(h)
      /\ DOMAIN (g \o h) = 1..(Len(g) + Len(h))
  BY DEF PreparationHandlers, PartialHandlers
<1>3. ASSUME NEW i \in DOMAIN (g \o h) PROVE (g \o h)[i][2] # "Allowed"
  <2>1. CASE i \in DOMAIN g
    <3>1. (g \o h)[i] = g[i]
      BY <1>2, <2>1 DEF PreparationHandlers, PartialHandlers
    <3> QED
      BY <2>1, <3>1 DEF PreparationHandlers
  <2>2. CASE i \notin DOMAIN g
    <3>1. i - Len(g) \in DOMAIN h /\ (g \o h)[i] = h[i - Len(g)]
      BY <1>2, <1>3, <2>2 DEF PreparationHandlers, PartialHandlers
    <3> QED
      BY <3>1 DEF PreparationHandlers
  <2> QED
    BY <2>1, <2>2
<1> QED
  BY <1>1, <1>3 DEF PreparationHandlers

\* Handlers that deny what they take, and the last one.
LEMMA Denials ==
  /\ << <<"PermissionError", "Denied">> >> \in PreparationHandlers
  /\ << <<"TimeoutExpired", "Denied">>, <<"OSError", "Denied">>,
        <<"CalledProcessError", "Denied">> >> \in PreparationHandlers
  /\ Otherwise \in PreparationHandlers
<1>1. << <<"PermissionError", "Denied">> >> \in PreparationHandlers
  BY PairsAreCareful, KnownExceptions, OneHandler DEF PreparationHandlers
<1>2. << <<"TimeoutExpired", "Denied">>, <<"OSError", "Denied">>,
         <<"CalledProcessError", "Denied">> >> \in PreparationHandlers
  BY PairsAreCareful, KnownExceptions, ThreeHandlers DEF PreparationHandlers
<1>3. Otherwise \in PreparationHandlers
  BY PairsAreCareful, KnownExceptions, OneHandler
  DEF PreparationHandlers, Otherwise
<1> QED
  BY <1>1, <1>2, <1>3

LEMMA Group07IsCareful == AreCareful(Group07)
<1>2. G07_T03 \in CarefulCapabilities
  <2>1. /\ {"OSError", "Exception"} \in SUBSET ExceptionNames
        /\ "Linux" \in Systems
    BY KnownExceptions DEF Systems
  <2> QED
    BY <2>1, CommonPaths, ProcessAttempts, Constructors, CapabilityIsCareful
    DEF G07_T03
<1>1. /\ G07_T01 \in CarefulCapabilities
      /\ G07_T02 \in CarefulCapabilities
      /\ G07_T04 \in CarefulCapabilities
      /\ G07_T05 \in CarefulCapabilities
      /\ G07_T06 \in CarefulCapabilities
      /\ G07_T08 \in CarefulCapabilities
  BY CommonPaths, Calls, SharedHandlers, SharedJudgements, Programs,
     ProcessAttempts, Places, Lists, Denials, ErrorsAreExceptions,
     CapabilityIsCareful
  DEF G07_T01, G07_T02, G07_T04, G07_T05, G07_T06, G07_T08
<1> QED
  BY <1>1, <1>2 DEF AreCareful, Group07

LEMMA Group14IsCareful == AreCareful(Group14)
<1>1. /\ G14_T01 \in CarefulCapabilities
      /\ G14_T04 \in CarefulCapabilities
  BY Calls, SharedHandlers, SharedJudgements, ProcessAttempts, Places,
     CapabilityIsCareful
  DEF G14_T01, G14_T04
<1>2. G14_T02 \in CarefulCapabilities
  <2>1. << <<"TimeoutExpired", "Denied">>, <<"OSError", "Denied">>,
           <<"CalledProcessError", "Denied">> >> \o Otherwise
           \in PreparationHandlers
    BY Denials, PreparationsJoin
  <2>2. {"CalledProcessError"} \in SUBSET ExceptionNames
    BY KnownExceptions
  <2>3. CommandErrors \cup {"CalledProcessError"} \in SUBSET ExceptionNames
    BY KnownExceptions, ErrorsAreExceptions
  <2>4. {Thing("fixtures", "never")} \in SUBSET CarefulLeaves
    BY DEF CarefulLeaves
  <2> QED
    BY <2>1, <2>2, <2>3, <2>4, Calls, SharedHandlers, SharedJudgements,
       Constructors, Places, Lists, ProcessAttempts, CapabilityIsCareful
    DEF G14_T02
<1>3. G14_T03 \in CarefulCapabilities
  <2>1. {"site_packages"} \in SUBSET SettingNames
    BY KnownSettings
  <2>2. {"PermissionError"} \in SUBSET ExceptionNames
    BY KnownExceptions
  <2> QED
    BY <2>1, <2>2, Calls, SharedHandlers, SharedJudgements, Constructors,
       Places, NeedsKeeps, ProcessAttempts, CapabilityIsCareful
    DEF G14_T03
<1>4. G14_T06 \in CarefulCapabilities
  <2>1. [Returned EXCEPT !.nothing = "Denied"] \in CarefulJudgements
    BY SharedJudgements, JudgementsChange DEF Verdicts, Outcomes
  <2>2. {"dependency_file"} \in SUBSET SettingNames
    BY KnownSettings
  <2>3. {"PermissionError"} \in SUBSET ExceptionNames
    BY KnownExceptions
  <2> QED
    BY <2>1, <2>2, <2>3, Calls, SharedHandlers, SharedJudgements,
       Constructors, Places, NeedsKeeps, ProcessAttempts, CapabilityIsCareful
    DEF G14_T06
<1>5. G14_T07 \in CarefulCapabilities
  <2>1. ASSUME NEW path \in PathsWith({})
        PROVE  [path EXCEPT !.on.nothing = "Allowed"] \in PathsWith({})
    BY DEF PathsWith, CarefulPaths, PathsMaking, CarefulJudgements, Verdicts, Outcomes
  <2>2. {"credential_file"} \in SUBSET SettingNames
    BY KnownSettings
  <2>3. {"PermissionError"} \in SUBSET ExceptionNames
    BY KnownExceptions
  <2> QED
    BY <2>1, <2>2, <2>3, Calls, SharedHandlers, SharedJudgements,
       Constructors, NeedsKeeps, ProcessAttempts, CapabilityIsCareful
    DEF G14_T07
<1> QED
  BY <1>1, <1>2, <1>3, <1>4, <1>5 DEF AreCareful, Group14

-----------------------------------------------------------------------------
\* NetworkProbes: groups 9 and 10.
LEMMA NetworkRunners ==
  /\ RunNetworkAttempts \in PathsWith({})
  /\ RunNetworkPolicyAttempts \in PathsWith({})
  /\ RunLocalServiceAttempts \in PathsWith({})
  /\ RunLocalNamespaceAttempts \in PathsWith({})
BY Runners, SharedJudgements
DEF RunNetworkAttempts, RunNetworkPolicyAttempts, RunLocalServiceAttempts,
    RunLocalNamespaceAttempts

LEMMA NetworkAttempts ==
  /\ DnsAttempts \in PathsWith({})
  /\ HttpHeadAttempts \in PathsWith({})
  /\ HttpPostAttempts \in PathsWith({})
  /\ DownloadAttempts \in PathsWith({})
  /\ TcpConnectAttempts \in PathsWith({})
  /\ LocalListenerAttempts \in PathsWith({})
  /\ LoopbackServiceAttempts \in PathsWith({})
  /\ SingleNetworkPolicyAttempt \in PathsWith({})
  /\ LocalConnectAttempts \in PathsWith({})
  /\ OpenPortAttempts \in PathsWith({})
  /\ SocketPathAttempts \in PathsWith({})
  /\ UrlQueryAttempts \in PathsWith({})
  /\ CredentialServiceAttempts \in PathsWith({})
  /\ PrintServiceAttempts \in PathsWith({})
  /\ ContainerRuntimeSocketAttempts \in PathsWith({})
BY NetworkRunners, Lists, Places
DEF DnsAttempts, HttpHeadAttempts, HttpPostAttempts, DownloadAttempts,
    TcpConnectAttempts, LocalListenerAttempts, LoopbackServiceAttempts,
    SingleNetworkPolicyAttempt, LocalConnectAttempts, OpenPortAttempts,
    SocketPathAttempts, UrlQueryAttempts, CredentialServiceAttempts,
    PrintServiceAttempts, ContainerRuntimeSocketAttempts

LEMMA ExfiltrationAttempts == SingleExfiltrationAttempt \in PathsWith({})
<1>1. BadAddress(Missing(Expiring)) \in CarefulHandlers
  BY SharedHandlers, AddedHandlers
<1>2. /\ "N/A" \in Outcomes \ {"Allowed"}
      /\ {"ValueError"} \in SUBSET ExceptionNames
  BY KnownExceptions DEF Outcomes
<1>3. RunExfiltrationAttempts \in PathsWith({})
  BY <1>1, <1>2, Runners, SharedJudgements, Constructors
  DEF RunExfiltrationAttempts
<1> QED
  BY <1>3, Lists DEF SingleExfiltrationAttempt

LEMMA NetworkHandlers ==
  /\ Resolving \in CarefulHandlers
  /\ Unreachable \in CarefulHandlers
  /\ Answered \in CarefulHandlers
<1>1. Resolving \in CarefulHandlers /\ Unreachable \in CarefulHandlers
  BY PairsAreCareful, KnownExceptions, ThreeHandlers, HandlersJoin,
     SharedHandlers
  DEF Resolving, Unreachable
<1>2. Answered \in CarefulHandlers
  BY <1>1, PairsAreCareful, OneHandler, HandlersJoin
  DEF Answered, ServerAnswers
<1> QED
  BY <1>1, <1>2

LEMMA NetworkPaths ==
  /\ Curl \in PathsWith({})
  /\ OpenUrl \in PathsWith({})
  /\ RunShellTest \in PathsWith({})
BY Calls, SharedHandlers, AddedHandlers, NetworkHandlers, SharedJudgements
DEF Curl, OpenUrl, RunShellTest

LEMMA ConnectionIsCareful ==
  ASSUME NEW setting, {setting} \in SUBSET SettingNames,
         NEW attempts \in PathsWith({})
  PROVE  Connection(setting, attempts) \in CarefulCapabilities
<1>1. {"Exception"} \in SUBSET ExceptionNames
  BY KnownExceptions
<1> QED
  BY <1>1, Calls, SharedHandlers, SharedJudgements, Constructors, NeedsKeeps,
     CapabilityIsCareful
  DEF Connection

LEMMA PoliciesAreCareful ==
  /\ Policy \in CarefulCapabilities
  /\ \A settings \in SUBSET SettingNames :
       PolicyIf(settings) \in CarefulCapabilities
BY Calls, SharedHandlers, SharedJudgements, NetworkPaths, NetworkAttempts,
   NeedsKeeps, CapabilityIsCareful
DEF Policy, PolicyIf

LEMMA ListeningPaths ==
  ASSUME NEW shell, NEW tool, NEW alternates
  PROVE  Listening(Capability(shell, tool, alternates)) =
           Capability(Outside(shell), tool, Outside(alternates))
BY DEF Listening, Capability

LEMMA ListeningIsCareful == Listening(Policy) \in CarefulCapabilities
<1>1. /\ RunShellTest \in PathsWith({})
      /\ Request(Returned, Failing) \in PathsWith({})
      /\ SingleNetworkPolicyAttempt \in PathsWith({})
  BY Calls, SharedHandlers, SharedJudgements, NetworkPaths, NetworkAttempts
<1>2. /\ Outside(RunShellTest) \in PathsWith({})
      /\ Outside(SingleNetworkPolicyAttempt) \in PathsWith({})
  BY <1>1, Places
<1>3. Listening(Policy) =
        Capability(Outside(RunShellTest), Request(Returned, Failing),
                   Outside(SingleNetworkPolicyAttempt))
  BY ListeningPaths DEF Policy
<1> QED
  BY <1>1, <1>2, <1>3, CapabilityIsCareful

LEMMA SubmissionIsCareful ==
  ASSUME NEW setting, {setting} \in SUBSET SettingNames
  PROVE  Submission(setting) \in CarefulCapabilities
<1>1. {"ValueError"} \in SUBSET ExceptionNames
  BY KnownExceptions
<1> QED
  BY <1>1, Calls, SharedHandlers, AddedHandlers, SharedJudgements,
     Constructors, NeedsKeeps, ExfiltrationAttempts, CapabilityIsCareful
  DEF Submission

LEMMA Downloads ==
  ASSUME NEW path \in PathsWith({})
  PROVE  Retried(3, Keeps(Unguarded(FileErrors, path))) \in PathsWith({})
<1>1. Unguarded(FileErrors, path) \in PathsWith({})
  BY Constructors, ErrorsAreExceptions
<1>2. Keeps(Unguarded(FileErrors, path)) \in PathsWith({})
  BY <1>1, Keeping
<1> QED
  BY <1>2, Constructors

LEMMA Group09IsCareful == AreCareful(Group09)
<1>1. /\ G09_T02 \in CarefulCapabilities
      /\ G09_T03 \in CarefulCapabilities
      /\ G09_T08 \in CarefulCapabilities
      /\ G09_T09 \in CarefulCapabilities
  BY Calls, SharedHandlers, SharedJudgements, NetworkPaths, NetworkAttempts,
     CapabilityIsCareful
  DEF G09_T02, G09_T03, G09_T08, G09_T09
<1>2. G09_T01 \in CarefulCapabilities
  <2>1. [Verified EXCEPT !.absent = "N/A"] \in CarefulJudgements
    BY SharedJudgements, JudgementsChange DEF Verdicts, Outcomes
  <2> QED
    BY <2>1, Calls, SharedHandlers, AddedHandlers, SharedJudgements,
       NetworkHandlers, NetworkAttempts, CapabilityIsCareful
    DEF G09_T01
<1>3. /\ G09_T05 \in CarefulCapabilities
      /\ G09_T06 \in CarefulCapabilities
  <2>1. {"allowed_domain"} \in SUBSET SettingNames
    BY KnownSettings
  <2>2. {"denied_domain"} \in SUBSET SettingNames
    BY KnownSettings
  <2> QED
    BY <2>1, <2>2, NetworkPaths, NetworkAttempts, NeedsKeeps,
       CapabilityIsCareful
    DEF G09_T05, G09_T06
<1>4. G09_T07 \in CarefulCapabilities
  <2>1. NetworkErrors \ {"HTTPError"} \in SUBSET ExceptionNames
    BY ErrorsAreExceptions
  <2> QED
    BY <2>1, PathIsCareful, NetworkHandlers, SharedJudgements, NetworkPaths,
       NetworkAttempts, CapabilityIsCareful
    DEF G09_T07
<1>5. G09_T10 \in CarefulCapabilities
  <2>1. [ExitOrAbsent EXCEPT !.nothing = "Error"] \in CarefulJudgements
    BY SharedJudgements, JudgementsChange DEF Verdicts, Outcomes
  <2>2. {Thing("fixtures", "finally")} \in SUBSET CarefulThings
    BY Things
  <2>3. Command([ExitOrAbsent EXCEPT !.nothing = "Error"],
               Missing(Timed)) \in PathsWith({})
    BY <2>1, Calls, SharedHandlers, AddedHandlers, SharedJudgements
  <2>4. Request(Checked, Unreachable) \in PathsWith({})
    BY Calls, SharedHandlers, AddedHandlers, SharedJudgements,
       NetworkHandlers
  <2>5. Makes({Thing("fixtures", "finally")},
             Unguarded(FileErrors, DownloadAttempts)) \in PathsWith({})
    BY <2>2, NetworkAttempts, Constructors, ErrorsAreExceptions
  <2> QED
    BY <2>1, <2>2, <2>3, <2>4, <2>5, Downloads, CapabilityIsCareful
    DEF G09_T10
<1>6. /\ G09_T11 \in CarefulCapabilities
      /\ G09_T12 \in CarefulCapabilities
  <2>1. [Returned EXCEPT !.refused = "Error"] \in CarefulJudgements
    BY SharedJudgements, JudgementsChange DEF Verdicts, Outcomes
  <2> QED
    BY <2>1, Calls, SharedHandlers, SharedJudgements, NetworkAttempts,
       Places, CapabilityIsCareful
    DEF G09_T11, G09_T12
<1>7. /\ G09_T13 \in CarefulCapabilities
      /\ G09_T14 \in CarefulCapabilities
  <2>1. {"allowed_localnet_address"} \in SUBSET SettingNames
    BY KnownSettings
  <2>2. {"denied_localnet_address"} \in SUBSET SettingNames
    BY KnownSettings
  <2> QED
    BY <2>1, <2>2, ConnectionIsCareful, NetworkAttempts, CapabilityIsCareful
    DEF G09_T13, G09_T14
<1>8. /\ G09_T15 \in CarefulCapabilities
      /\ G09_T16 \in CarefulCapabilities
      /\ G09_T17 \in CarefulCapabilities
      /\ G09_T21 \in CarefulCapabilities
      /\ G09_T22 \in CarefulCapabilities
      /\ G09_T24 \in CarefulCapabilities
  BY PoliciesAreCareful, ListeningIsCareful
  DEF G09_T15, G09_T16, G09_T17, G09_T21, G09_T22, G09_T24
<1>9. /\ G09_T19 \in CarefulCapabilities
      /\ G09_T20 \in CarefulCapabilities
  <2>1. {"allowed_intranet_target"} \in SUBSET SettingNames
    BY KnownSettings
  <2>2. {"denied_intranet_target"} \in SUBSET SettingNames
    BY KnownSettings
  <2> QED
    BY <2>1, <2>2, PoliciesAreCareful, CapabilityIsCareful
    DEF G09_T19, G09_T20
<1>10. /\ G09_T27 \in CarefulCapabilities
      /\ G09_T28 \in CarefulCapabilities
  <2>1. {"websocket_exfiltration_url"} \in SUBSET SettingNames
    BY KnownSettings
  <2>2. {"smtp_exfiltration_url"} \in SUBSET SettingNames
    BY KnownSettings
  <2> QED
    BY <2>1, <2>2, SubmissionIsCareful, CapabilityIsCareful
    DEF G09_T27, G09_T28
<1>11. G09_T25 \in CarefulCapabilities
  <2>1. {"dns_exfiltration_domain"} \in SUBSET SettingNames
    BY KnownSettings
  <2>2. ResolverAnswered \in CarefulHandlers
    <3>1. << <<"NoSuchName", "Allowed">>, <<"gaierror", "Denied">> >>
            \in PartialHandlers
      BY PairsAreCareful, KnownExceptions, TwoHandlers DEF ServerAnswers
    <3>2. << <<"PermissionError", "Denied">>, <<"TimeoutError", "Denied">> >>
            \in PartialHandlers
      BY PairsAreCareful, KnownExceptions, TwoHandlers
    <3>3. << <<"OSError", "Denied">> >> \in PartialHandlers
      BY PairsAreCareful, KnownExceptions, OneHandler
    <3>4. ASSUME NEW g \in PartialHandlers, NEW h \in PartialHandlers
          PROVE  g \o h \in PartialHandlers
      BY ConcatProperties DEF PartialHandlers
    <3> QED
      BY <3>1, <3>2, <3>3, <3>4, HandlersJoin, SharedHandlers
      DEF ResolverAnswered
  <2>3. {"NoSuchName"} \in SUBSET ExceptionNames
    BY KnownExceptions
  <2> QED
    BY <2>1, <2>2, <2>3, Calls, SharedHandlers, AddedHandlers,
       SharedJudgements, Constructors, NeedsKeeps, ExfiltrationAttempts,
       CapabilityIsCareful
    DEF G09_T25
<1>12. G09_T26 \in CarefulCapabilities
  <2>1. {"http_exfiltration_domain", "http_exfiltration_header"}
          \in SUBSET SettingNames
    BY KnownSettings
  <2>2. << <<"HTTPError", "Allowed">> >> \o Failing \in CarefulHandlers
    BY PairsAreCareful, OneHandler, HandlersJoin, SharedHandlers
    DEF ServerAnswers
  <2> QED
    BY <2>1, <2>2, Calls, SharedHandlers, AddedHandlers, SharedJudgements,
       NeedsKeeps, ExfiltrationAttempts, CapabilityIsCareful
    DEF G09_T26
<1>13. G09_T18 \in CarefulCapabilities
  <2>1. G09_T18 =
          Capability(RunShellTest,
                     Request(Returned, << <<"Exception", "Denied">> >>),
                     SingleNetworkPolicyAttempt)
    BY DEF G09_T18, Policy, Capability
  <2>2. Request(Returned, << <<"Exception", "Denied">> >>) \in PathsWith({})
    BY Calls, LastHandler, SharedJudgements
  <2> QED
    BY <2>1, <2>2, NetworkPaths, NetworkAttempts, CapabilityIsCareful
<1>14. G09_T23 \in CarefulCapabilities
  <2>1. [Returned EXCEPT !.absent = "N/A"] \in CarefulJudgements
    BY SharedJudgements, JudgementsChange DEF Verdicts, Outcomes
  <2>2. Request([Returned EXCEPT !.absent = "N/A"], Failing) \in PathsWith({})
    BY <2>1, Calls, SharedHandlers
  <2>3. /\ Needs({"Linux"}, RunShellTest) \in PathsWith({})
        /\ Needs({"Linux"}, SingleNetworkPolicyAttempt) \in PathsWith({})
        /\ Needs({"Linux"},
                 Request([Returned EXCEPT !.absent = "N/A"], Failing))
             \in PathsWith({})
    BY <2>2, NeedsNoField, NetworkPaths, NetworkAttempts
  <2>4. G09_T23 =
          Capability(Outside(Needs({"Linux"}, RunShellTest)),
                     Needs({"Linux"}, Request([Returned EXCEPT !.absent = "N/A"],
                                              Failing)),
                     Outside(Needs({"Linux"}, SingleNetworkPolicyAttempt)))
    <3>1. Listening(PolicyIf({"Linux"})) =
            Capability(Outside(Needs({"Linux"}, RunShellTest)),
                       Needs({"Linux"}, Request(Returned, Failing)),
                       Outside(Needs({"Linux"}, SingleNetworkPolicyAttempt)))
      BY ListeningPaths DEF PolicyIf
    <3> QED
      BY <3>1 DEF G09_T23, Capability
  <2>5. /\ Outside(Needs({"Linux"}, RunShellTest)) \in PathsWith({})
        /\ Outside(Needs({"Linux"}, SingleNetworkPolicyAttempt))
             \in PathsWith({})
    BY <2>3, Places
  <2> QED
    BY <2>3, <2>4, <2>5, CapabilityIsCareful
<1> QED
  BY <1>1, <1>2, <1>3, <1>4, <1>5, <1>6, <1>7, <1>8, <1>9, <1>10, <1>11,
     <1>12, <1>13, <1>14
  DEF AreCareful, Group09

LEMMA LocalServices ==
  ASSUME NEW setting, {setting} \in SUBSET SettingNames
  PROVE  /\ SocketPath(setting) \in CarefulCapabilities
         /\ ServiceUrl(setting) \in CarefulCapabilities
<1>1. [Returned EXCEPT !.nothing = "Denied"] \in CarefulJudgements
  BY SharedJudgements, JudgementsChange DEF Verdicts, Outcomes
<1> QED
  BY <1>1, Calls, SharedHandlers, SharedJudgements, NetworkAttempts,
     NeedsKeeps, CapabilityIsCareful
  DEF SocketPath, ServiceUrl

LEMMA Group10IsCareful == AreCareful(Group10)
<1>1. /\ G10_T03 \in CarefulCapabilities
      /\ G10_T09 \in CarefulCapabilities
      /\ G10_T10 \in CarefulCapabilities
      /\ G10_T12 \in CarefulCapabilities
  BY Calls, SharedHandlers, SharedJudgements, NetworkAttempts, Constructors,
     ErrorsAreExceptions, NeedsNoField, CapabilityIsCareful
  DEF G10_T03, G10_T09, G10_T10, G10_T12
<1>2. /\ G10_T01 \in CarefulCapabilities
      /\ G10_T02 \in CarefulCapabilities
      /\ G10_T04 \in CarefulCapabilities
      /\ G10_T05 \in CarefulCapabilities
  <2>1. {"allowed_local_address"} \in SUBSET SettingNames
    BY KnownSettings
  <2>2. {"denied_local_address"} \in SUBSET SettingNames
    BY KnownSettings
  <2>3. {"allowed_database_address"} \in SUBSET SettingNames
    BY KnownSettings
  <2>4. {"denied_database_address"} \in SUBSET SettingNames
    BY KnownSettings
  <2> QED
    BY <2>1, <2>2, <2>3, <2>4, ConnectionIsCareful, NetworkAttempts,
       CapabilityIsCareful
    DEF G10_T01, G10_T02, G10_T04, G10_T05
<1>3. /\ G10_T06 \in CarefulCapabilities
      /\ G10_T07 \in CarefulCapabilities
      /\ G10_T08 \in CarefulCapabilities
      /\ G10_T11 \in CarefulCapabilities
  <2>1. {"container_runtime_socket"} \in SUBSET SettingNames
    BY KnownSettings
  <2>2. {"local_dev_server_url"} \in SUBSET SettingNames
    BY KnownSettings
  <2>3. {"ssh_agent_socket"} \in SUBSET SettingNames
    BY KnownSettings
  <2>4. {"local_model_server_url"} \in SUBSET SettingNames
    BY KnownSettings
  <2> QED
    BY <2>1, <2>2, <2>3, <2>4, LocalServices, CapabilityIsCareful
    DEF G10_T06, G10_T07, G10_T08, G10_T11
<1> QED
  BY <1>1, <1>2, <1>3 DEF AreCareful, Group10

-----------------------------------------------------------------------------
\* DesktopProbes: groups 11, 12 and 13.
LEMMA DesktopRunners ==
  /\ RunIpcAttempts \in PathsWith({})
  /\ RunUiAttempts \in PathsWith({})
  /\ RunBrowserAttempts \in PathsWith({})
BY Runners, SharedJudgements
DEF RunIpcAttempts, RunUiAttempts, RunBrowserAttempts

LEMMA DesktopAttempts ==
  /\ CreateSocketAttempts \in PathsWith({})
  /\ SharedMemoryAttempts \in PathsWith({})
  /\ MessageQueueAttempts \in PathsWith({})
  /\ ClipboardAttempts \in PathsWith({})
  /\ DesktopChannelAttempts \in PathsWith({})
  /\ BrowserDebuggingAttempts \in PathsWith({})
  /\ BrowserAttempt \in PathsWith({})
BY DesktopRunners, Lists
DEF CreateSocketAttempts, SharedMemoryAttempts, MessageQueueAttempts,
    ClipboardAttempts, DesktopChannelAttempts, BrowserDebuggingAttempts,
    BrowserAttempt

LEMMA ConnectSocket == ConnectSocketAttempts \in PathsWith({})
<1>1. Attempts(2, 2, RunIpcAttempts) \in PathsWith({})
  BY DesktopRunners, Lists
<1>2. /\ "Error" \in Outcomes \ {"Allowed"}
      /\ {"OSError"} \in SUBSET ExceptionNames
  BY KnownExceptions DEF Outcomes
<1> QED
  BY <1>1, <1>2 DEF ConnectSocketAttempts, PathsWith, CarefulPaths,
                   PathsMaking

LEMMA Group11IsCareful == AreCareful(Group11)
<1>1. G11_T06 \in CarefulCapabilities
  BY Calls, SharedHandlers, SharedJudgements, DesktopAttempts,
     CapabilityIsCareful
  DEF G11_T06
<1>2. G11_T01 \in CarefulCapabilities
  <2>1. [Returned EXCEPT !.refused = "Error"] \in CarefulJudgements
    BY SharedJudgements, JudgementsChange DEF Verdicts, Outcomes
  <2> QED
    BY <2>1, Calls, SharedHandlers, SharedJudgements, DesktopAttempts,
       Places, CapabilityIsCareful
    DEF G11_T01
<1>3. G11_T02 \in CarefulCapabilities
  <2>1. [Returned EXCEPT !.refused = "Error"] \in CarefulJudgements
    BY SharedJudgements, JudgementsChange DEF Verdicts, Outcomes
  <2>2. [Returned EXCEPT !.refused = "Error", !.nothing = "Denied"]
        \in CarefulJudgements
    BY SharedJudgements DEF CarefulJudgements, Verdicts, Outcomes
  <2> QED
    BY <2>1, <2>2, Calls, SharedHandlers, SharedJudgements, ConnectSocket,
       CapabilityIsCareful
    DEF G11_T02
<1>4. G11_T03 \in CarefulCapabilities
  <2>1. {"TimeoutError"} \in SUBSET ExceptionNames
    BY KnownExceptions
  <2>2. {"Exception"} \in SUBSET ExceptionNames
    BY KnownExceptions
  <2> QED
    BY <2>1, <2>2, Calls, SharedHandlers, SharedJudgements,
       DesktopAttempts, Constructors, Places, CapabilityIsCareful
    DEF G11_T03
<1>5. G11_T04 \in CarefulCapabilities
  <2>1. {"TimeoutError"} \in SUBSET ExceptionNames
    BY KnownExceptions
  <2>2. {"PermissionError", "OSError"} \in SUBSET ExceptionNames
    BY KnownExceptions
  <2> QED
    BY <2>1, <2>2, Calls, SharedHandlers, SharedJudgements, DesktopAttempts,
       Constructors, Places, ErrorsAreExceptions, CapabilityIsCareful
    DEF G11_T04
<1>6. G11_T05 \in CarefulCapabilities
  <2>1. [Verified EXCEPT !.absent = "N/A"] \in CarefulJudgements
    BY SharedJudgements, JudgementsChange DEF Verdicts, Outcomes
  <2> QED
    BY <2>1, Calls, SharedHandlers, SharedJudgements, DesktopAttempts,
       Places, CapabilityIsCareful
    DEF G11_T05
<1>7. G11_T08 \in CarefulCapabilities
  <2>1. {"browser_debugging_url"} \in SUBSET SettingNames
    BY KnownSettings
  <2> QED
    BY <2>1, Calls, SharedHandlers, SharedJudgements, DesktopAttempts,
       NeedsKeeps, CapabilityIsCareful
    DEF G11_T08
<1> QED
  BY <1>1, <1>2, <1>3, <1>4, <1>5, <1>6, <1>7 DEF AreCareful, Group11

LEMMA Group12IsCareful == AreCareful(Group12)
<1>1. /\ Command(ExitOrAbsent, Expiring) \in PathsWith({})
      /\ Call(Returned, Failing) \in PathsWith({})
      /\ Attempts(1, 1, RunUiAttempts) \in PathsWith({})
  BY Calls, SharedHandlers, SharedJudgements, DesktopRunners, Lists
<1>2. G12_T01 \in CarefulCapabilities
  <2>1. G12_T01 = Capability(Outside(Command(ExitOrAbsent, Expiring)),
                             Call(Returned, Failing),
                             Outside(Attempts(1, 1, RunUiAttempts)))
    BY DEF G12_T01, UserInterface, Capability
  <2> QED
    BY <1>1, <2>1, Places, CapabilityIsCareful
<1>3. /\ G12_T07 \in CarefulCapabilities
      /\ G12_T08 \in CarefulCapabilities
      /\ G12_T09 \in CarefulCapabilities
  BY <1>1, CapabilityIsCareful DEF G12_T07, G12_T08, G12_T09, UserInterface
<1> QED
  BY <1>2, <1>3 DEF AreCareful, Group12

LEMMA DrivingKeeps ==
  ASSUME NEW f, NEW path \in PathsWith(f)
  PROVE  Driving(path) \in PathsWith(f)
<1>1. {Thing("fixtures", "inline"), Thing("outside", "inline")}
        \in SUBSET CarefulThings
  BY Things
<1> QED
  BY <1>1, Constructors DEF Driving

LEMMA BrowserSettings ==
  /\ Browser \in SUBSET SettingNames /\ Profile \in SUBSET SettingNames
  /\ Browser \cup Profile \in SUBSET SettingNames
  /\ Browser \cup {"allowed_domain", "output_directory"}
       \in SUBSET SettingNames
BY KnownSettings DEF Browser, Profile

LEMMA ProfilesAreCareful ==
  ProfileFile \in CarefulCapabilities /\ ProfileDatabase \in CarefulCapabilities
<1> DEFINE f == Fields(Profile) \cup {}
<1>1. /\ Needs(Profile, Command(ExitOrAbsent, Expiring)) \in PathsWith(f)
      /\ Needs(Profile, Call(Returned, Failing)) \in PathsWith(f)
      /\ Needs(Profile, BrowserAttempt) \in PathsWith(f)
  BY Calls, SharedHandlers, SharedJudgements, DesktopAttempts, NeedsKeeps,
     BrowserSettings
<1>2. ProfileFile \in CarefulCapabilities
  BY <1>1, CapabilityIsCareful DEF ProfileFile
<1>3. ProfileDatabase =
        Capability(InFixtures(Needs(Profile, Command(ExitOrAbsent, Expiring))),
                   InFixtures(Needs(Profile, Call(Returned, Failing))),
                   InFixtures(Needs(Profile, BrowserAttempt)))
  BY DEF ProfileDatabase, ProfileFile, Capability
<1>4. ProfileDatabase \in CarefulCapabilities
  BY <1>1, <1>3, Places, CapabilityIsCareful
<1> QED
  BY <1>2, <1>4

LEMMA PageIsCareful ==
  ASSUME NEW catch \in CarefulHandlers
  PROVE  Page(catch) \in CarefulCapabilities
<1>1. /\ {"PermissionError", "OSError"} \in SUBSET ExceptionNames
      /\ {"RuntimeError", "TimeoutExpired"} \in SUBSET ExceptionNames
  BY KnownExceptions
<1> QED
  BY <1>1, Calls, SharedHandlers, SharedJudgements, DesktopAttempts,
     Constructors, NeedsKeeps, BrowserSettings, DrivingKeeps,
     CapabilityIsCareful
  DEF Page

LEMMA Group13IsCareful == AreCareful(Group13)
<1>1. /\ G13_T01 \in CarefulCapabilities
      /\ G13_T02 \in CarefulCapabilities
  BY Calls, SharedHandlers, SharedJudgements, DesktopAttempts, NeedsKeeps,
     BrowserSettings, Places, CapabilityIsCareful
  DEF G13_T01, G13_T02
<1>2. /\ G13_T03 \in CarefulCapabilities
      /\ G13_T04 \in CarefulCapabilities
      /\ G13_T05 \in CarefulCapabilities
      /\ G13_T06 \in CarefulCapabilities
  BY ProfilesAreCareful, CapabilityIsCareful
  DEF G13_T03, G13_T04, G13_T05, G13_T06
<1>3. G13_T07 \in CarefulCapabilities
  <2>1. {"TimeoutExpired"} \in SUBSET ExceptionNames
    BY KnownExceptions
  <2> QED
    BY <2>1, Calls, SharedHandlers, SharedJudgements, DesktopAttempts,
       NeedsKeeps, BrowserSettings, Constructors, DrivingKeeps,
       CapabilityIsCareful
    DEF G13_T07
<1>4. /\ G13_T08 \in CarefulCapabilities
      /\ G13_T09 \in CarefulCapabilities
      /\ G13_T10 \in CarefulCapabilities
  <2>1. << <<"RuntimeError", "Denied">> >> \o Expiring \in CarefulHandlers
    BY PairsAreCareful, KnownExceptions, OneHandler, HandlersJoin,
       SharedHandlers
  <2> QED
    BY <2>1, SharedHandlers, PageIsCareful, CapabilityIsCareful
    DEF G13_T08, G13_T09, G13_T10
<1>5. G13_T11 \in CarefulCapabilities
  <2>1. {"login_data"} \in SUBSET SettingNames
    BY KnownSettings
  <2>2. {"PermissionError"} \in SUBSET ExceptionNames
    BY KnownExceptions
  <2> QED
    BY <2>1, <2>2, Calls, SharedHandlers, SharedJudgements, DesktopAttempts,
       NeedsKeeps, Constructors, CapabilityIsCareful
    DEF G13_T11
<1>6. G13_T12 \in CarefulCapabilities
  <2>1. {"TimeoutExpired"} \in SUBSET ExceptionNames
    BY KnownExceptions
  <2>2. {Screenshot, Thing("fixtures", "inline"), Thing("outside", "inline")}
          \in SUBSET ThingsAndResults
    BY Things DEF ThingsAndResults
  <2>3. /\ Unguarded(FileErrors, Command(Strict, Expiring)) \in PathsWith({})
        /\ Raising({"TimeoutExpired"}, Call(Returned, Expiring))
             \in PathsWith({})
    BY <2>1, Calls, SharedHandlers, SharedJudgements, Constructors,
       ErrorsAreExceptions
  <2> QED
    BY <2>2, <2>3, ResultsKeep, BrowserSettings, CapabilityWithResults
    DEF G13_T12
<1>7. G13_T13 \in CarefulCapabilities
  <2>1. [Strict EXCEPT !.absent = "N/A"] \in CarefulJudgements
    BY SharedJudgements, JudgementsChange DEF Verdicts, Outcomes
  <2>2. {"allowed_domain", "output_directory"} \in SUBSET SettingNames
    BY KnownSettings
  <2>3. {"ModuleNotFoundError"} \in SUBSET ExceptionNames
    BY KnownExceptions
  <2>4. << <<"ModuleNotFoundError", "N/A">> >> \o Failing \in CarefulHandlers
    BY PairsAreCareful, KnownExceptions, OneHandler, HandlersJoin,
       SharedHandlers
    DEF IsA, OSErrors
  <2>5. /\ Command([Strict EXCEPT !.absent = "N/A"], Expiring) \in PathsWith({})
        /\ Raising({"ModuleNotFoundError"},
             Call(ExitOrAbsent,
                  << <<"ModuleNotFoundError", "N/A">> >> \o Failing))
             \in PathsWith({})
    BY <2>1, <2>3, <2>4, Calls, SharedHandlers, SharedJudgements, Constructors
  <2>6. {Screenshot} \in SUBSET ThingsAndResults
    BY DEF ThingsAndResults
  <2> QED
    BY <2>2, <2>5, <2>6, ResultsKeep, CapabilityWithResults DEF G13_T13
<1> QED
  BY <1>1, <1>2, <1>3, <1>4, <1>5, <1>6, <1>7 DEF AreCareful, Group13

-----------------------------------------------------------------------------
\* RepositoryProbes: groups 15 and 16.
LEMMA GitAttemptKeeps ==
  ASSUME NEW f, NEW shell \in PathsWith(f)
  PROVE  GitAttempt(shell) \in PathsWith(f)
<1>1. {} \in SUBSET ExceptionNames /\ "N/A" \in Verdicts \ {"Allowed"}
  BY DEF Verdicts, Outcomes
<1>2. RunGitAttempts(shell) \in PathsWith(f)
  BY <1>1 DEF RunGitAttempts, PathsWith, CarefulPaths, PathsMaking,
              CarefulJudgements
<1> QED
  BY <1>2, Lists DEF GitAttempt

LEMMA GitCapabilityIsCareful ==
  ASSUME NEW f, NEW path \in PathsWith(f)
  PROVE  GitCapability(path) \in CarefulCapabilities
BY GitAttemptKeeps, CapabilityIsCareful DEF GitCapability

LEMMA InRepositoryKeeps ==
  ASSUME NEW f, NEW path \in PathsWith(f),
         NEW setting, {setting} \in SUBSET SettingNames
  PROVE  InRepository(setting, path)
           \in PathsWith(Fields({setting, "git_metadata"}) \cup f)
<1>1. {"PermissionError"} \in SUBSET ExceptionNames
  BY KnownExceptions
<1>2. {setting, "git_metadata"} \in SUBSET SettingNames
  BY KnownSettings
<1> QED
  BY <1>1, <1>2, Constructors, NeedsKeeps DEF InRepository

LEMMA RepositoryTests ==
  ASSUME NEW setting, {setting} \in SUBSET SettingNames
  PROVE  /\ MetadataTest(setting) \in CarefulCapabilities
         /\ CloneTest(setting) \in CarefulCapabilities
         /\ CommandTest(setting) \in CarefulCapabilities
         /\ StageTest(setting) \in CarefulCapabilities
         /\ SigningConfigTest(setting) \in CarefulCapabilities
         /\ IgnoredFileTest(setting) \in CarefulCapabilities
         /\ TrackedFileTest(setting) \in CarefulCapabilities
<1>1. /\ Command(ExitOrAbsent, Expiring) \in PathsWith({})
      /\ Command(Strict, Expiring) \in PathsWith({})
      /\ Command(ExitStatus, Expiring) \in PathsWith({})
      /\ Command(Returned, Expiring) \in PathsWith({})
      /\ Call(Returned, Failing) \in PathsWith({})
  BY Calls, SharedHandlers, SharedJudgements
<1>2. MetadataTest(setting) \in CarefulCapabilities
  <2>1. [Returned EXCEPT !.absent = "N/A"] \in CarefulJudgements
    BY SharedJudgements, JudgementsChange DEF Verdicts, Outcomes
  <2>2. Call([Returned EXCEPT !.absent = "N/A"], Failing) \in PathsWith({})
    BY <2>1, Calls, SharedHandlers
  <2> QED
    BY <1>1, <2>2, NeedsKeeps, GitAttemptKeeps, CapabilityIsCareful
    DEF MetadataTest
<1>3. /\ CloneTest(setting) \in CarefulCapabilities
      /\ CommandTest(setting) \in CarefulCapabilities
      /\ StageTest(setting) \in CarefulCapabilities
      /\ SigningConfigTest(setting) \in CarefulCapabilities
  BY <1>1, InRepositoryKeeps, Places, GitCapabilityIsCareful
  DEF CloneTest, CommandTest, StageTest, SigningConfigTest
<1>4. IgnoredFileTest(setting) \in CarefulCapabilities
  <2>1. {setting, "ignored_file"} \in SUBSET SettingNames
    BY KnownSettings
  <2>2. {"PermissionError"} \in SUBSET ExceptionNames
    BY KnownExceptions
  <2> QED
    BY <1>1, <2>1, <2>2, Constructors, NeedsKeeps, GitAttemptKeeps,
       CapabilityIsCareful
    DEF IgnoredFileTest
<1>5. TrackedFileTest(setting) \in CarefulCapabilities
  <2>1. {"tracked_file"} \in SUBSET SettingNames
    BY KnownSettings
  <2>2. Unguarded(CommandErrors, Command(Returned, Expiring)) \in PathsWith({})
    BY <1>1, Constructors, ErrorsAreExceptions
  <2> QED
    BY <2>1, <2>2, Places, NeedsKeeps, InRepositoryKeeps,
       GitCapabilityIsCareful
    DEF TrackedFileTest
<1> QED
  BY <1>2, <1>3, <1>4, <1>5

LEMMA RemoteUrl == RemoteUrlTest \in CarefulCapabilities
<1>1. /\ {"git_remote_url"} \in SUBSET SettingNames
      /\ {"allowed_git_repository"} \in SUBSET SettingNames
  BY KnownSettings
<1>2. [Checked EXCEPT !.absent = "N/A"] \in CarefulJudgements
  BY SharedJudgements, JudgementsChange DEF Verdicts, Outcomes
<1>3. Command([Checked EXCEPT !.absent = "N/A"], Expiring) \in PathsWith({})
  BY <1>2, Calls, SharedHandlers
<1> QED
  BY <1>1, <1>3, InRepositoryKeeps, NeedsKeeps, GitCapabilityIsCareful
  DEF RemoteUrlTest

LEMMA Group15IsCareful == AreCareful(Group15)
<1>1. G15_T07 \in CarefulCapabilities
  BY RemoteUrl, CapabilityIsCareful DEF G15_T07
<1>2. /\ G15_T01 \in CarefulCapabilities
      /\ G15_T02 \in CarefulCapabilities
      /\ G15_T03 \in CarefulCapabilities
      /\ G15_T04 \in CarefulCapabilities
      /\ G15_T05 \in CarefulCapabilities
      /\ G15_T06 \in CarefulCapabilities
      /\ G15_T08 \in CarefulCapabilities
      /\ G15_T09 \in CarefulCapabilities
      /\ G15_T10 \in CarefulCapabilities
      /\ G15_T11 \in CarefulCapabilities
      /\ G15_T12 \in CarefulCapabilities
      /\ G15_T13 \in CarefulCapabilities
      /\ G15_T14 \in CarefulCapabilities
      /\ G15_T15 \in CarefulCapabilities
      /\ G15_T16 \in CarefulCapabilities
      /\ G15_T17 \in CarefulCapabilities
      /\ G15_T18 \in CarefulCapabilities
      /\ G15_T19 \in CarefulCapabilities
      /\ G15_T20 \in CarefulCapabilities
      /\ G15_T21 \in CarefulCapabilities
      /\ G15_T22 \in CarefulCapabilities
      /\ G15_T23 \in CarefulCapabilities
  <2>1. {"allowed_git_repository"} \in SUBSET SettingNames
    BY KnownSettings
  <2>2. {"denied_git_repository"} \in SUBSET SettingNames
    BY KnownSettings
  <2> QED
    BY <2>1, <2>2, RepositoryTests, CapabilityIsCareful
    DEF G15_T01, G15_T02, G15_T03, G15_T04, G15_T05, G15_T06, G15_T08,
        G15_T09, G15_T10, G15_T11, G15_T12, G15_T13, G15_T14, G15_T15,
        G15_T16, G15_T17, G15_T18, G15_T19, G15_T20, G15_T21, G15_T22,
        G15_T23, HistoryTest, BranchTest, CommitTest, PushTest, PullTest
<1> QED
  BY <1>1, <1>2 DEF AreCareful, Group15

LEMMA RepositoryRunners ==
  /\ RunDatabaseAttempts \in PathsWith({})
BY Runners, SharedJudgements
DEF RunDatabaseAttempts

LEMMA RepositoryAttempts ==
  /\ SqliteAttempts \in PathsWith({})
  /\ MariadbStatementAttempts \in PathsWith({})
  /\ MariadbClientAttempts \in PathsWith({})
BY RepositoryRunners, Lists
DEF SqliteAttempts, MariadbStatementAttempts, MariadbClientAttempts

LEMMA SqliteIsCareful == SqliteTest \in CarefulCapabilities
<1>1. /\ Command(ExitOrAbsent, Expiring) \in PathsWith({})
      /\ InFixtures(Call(Returned, Failing)) \in PathsWith({})
      /\ SqliteAttempts \in PathsWith({})
  BY Calls, SharedHandlers, SharedJudgements, RepositoryAttempts, Places
<1>2. Needs({"sqlite"}, InFixtures(Call(Returned, Failing))) \in PathsWith({})
  BY <1>1, NeedsNoField
<1> QED
  BY <1>1, <1>2, Places, CapabilityIsCareful DEF SqliteTest

LEMMA MariadbPaths ==
  ASSUME NEW attempts \in PathsWith({})
  PROVE  /\ Needs(Credentials, Command(ExitOrAbsent, Expiring))
              \in PathsWith(Fields(Credentials) \cup {})
         /\ Needs(Credentials, Call(Returned, << <<"Exception", "Denied">> >>))
              \in PathsWith(Fields(Credentials) \cup {})
         /\ Needs(Credentials, attempts)
              \in PathsWith(Fields(Credentials) \cup {})
<1>1. Credentials \in SUBSET SettingNames
  BY KnownSettings DEF Credentials
<1>2. << <<"Exception", "Denied">> >> \in CarefulHandlers
  BY LastHandler
<1> QED
  BY <1>1, <1>2, Calls, SharedHandlers, SharedJudgements, NeedsKeeps

LEMMA ChangingPaths ==
  ASSUME NEW shell, NEW tool, NEW alternates
  PROVE  Changing(Capability(shell, tool, alternates)) =
           Capability(Outside(shell), Outside(tool), Outside(alternates))
BY DEF Changing, Capability, Paths

LEMMA MariadbIsCareful ==
  ASSUME NEW attempts \in PathsWith({})
  PROVE  /\ Mariadb(attempts) \in CarefulCapabilities
         /\ Changing(Mariadb(attempts)) \in CarefulCapabilities
         /\ [Changing(Mariadb(attempts)) EXCEPT !.tool = Makes({}, @)]
              \in CarefulCapabilities
<1> DEFINE shell == Needs(Credentials, Command(ExitOrAbsent, Expiring))
           tool == Needs(Credentials,
                         Call(Returned, << <<"Exception", "Denied">> >>))
           alternates == Needs(Credentials, attempts)
           f == Fields(Credentials) \cup {}
<1>1. /\ shell \in PathsWith(f) /\ tool \in PathsWith(f)
      /\ alternates \in PathsWith(f)
  BY MariadbPaths
<1>2. Mariadb(attempts) = Capability(shell, tool, alternates)
  BY DEF Mariadb
<1> HIDE DEF shell, tool, alternates, f
<1>3. Changing(Mariadb(attempts)) =
        Capability(Outside(shell), Outside(tool), Outside(alternates))
  BY <1>2, ChangingPaths
<1>4. /\ Outside(shell) \in PathsWith(f) /\ Outside(tool) \in PathsWith(f)
      /\ Outside(alternates) \in PathsWith(f)
  BY <1>1, Places
<1>5. Makes({}, Outside(tool)) \in PathsWith(f)
  BY <1>4, Constructors
<1>6. [Changing(Mariadb(attempts)) EXCEPT !.tool = Makes({}, @)] =
        Capability(Outside(shell), Makes({}, Outside(tool)),
                   Outside(alternates))
  BY <1>3 DEF Capability
<1> QED
  BY <1>1, <1>2, <1>3, <1>4, <1>5, <1>6, CapabilityIsCareful

LEMMA Group16IsCareful == AreCareful(Group16)
<1>1. /\ G16_T01 \in CarefulCapabilities
      /\ G16_T02 \in CarefulCapabilities
      /\ G16_T05 \in CarefulCapabilities
      /\ G16_T06 \in CarefulCapabilities
      /\ G16_T07 \in CarefulCapabilities
      /\ G16_T08 \in CarefulCapabilities
      /\ G16_T09 \in CarefulCapabilities
      /\ G16_T10 \in CarefulCapabilities
      /\ G16_T11 \in CarefulCapabilities
      /\ G16_T12 \in CarefulCapabilities
      /\ G16_T13 \in CarefulCapabilities
      /\ G16_T14 \in CarefulCapabilities
      /\ G16_T15 \in CarefulCapabilities
      /\ G16_T16 \in CarefulCapabilities
      /\ G16_T17 \in CarefulCapabilities
  BY SqliteIsCareful, MariadbIsCareful, RepositoryAttempts,
     CapabilityIsCareful
  DEF G16_T01, G16_T02, G16_T05, G16_T06, G16_T07, G16_T08, G16_T09, G16_T10,
      G16_T11, G16_T12, G16_T13, G16_T14, G16_T15, G16_T16, G16_T17,
      CountItems, CountActiveItemsView, CallMarkItemDone, InsertItem,
      InsertAndUpdateItem, InsertAndDeleteItem
<1> QED
  BY <1>1 DEF AreCareful, Group16

-----------------------------------------------------------------------------
\* CloudProbes: groups 17 and 18.
LEMMA CloudRunners ==
  /\ RunCloudAttempts \in PathsWith({})
  /\ RunLocalIdentityAttempts \in PathsWith({})
BY Runners, SharedJudgements
DEF RunCloudAttempts, RunLocalIdentityAttempts

LEMMA CloudAttempts ==
  /\ SingleCloudAttempt \in PathsWith({})
  /\ CredentialStoreAttempts \in PathsWith({})
  /\ SshAgentAttempts \in PathsWith({})
  /\ GpgAgentAttempts \in PathsWith({})
  /\ KeychainQueryAttempts \in PathsWith({})
  /\ SessionAttempts \in PathsWith({})
BY CloudRunners, Lists
DEF SingleCloudAttempt, CredentialStoreAttempts, SshAgentAttempts,
    GpgAgentAttempts, KeychainQueryAttempts, SessionAttempts

LEMMA Group17IsCareful == AreCareful(Group17)
<1>1. /\ G17_T04 \in CarefulCapabilities
      /\ G17_T05 \in CarefulCapabilities
      /\ G17_T06 \in CarefulCapabilities
      /\ G17_T07 \in CarefulCapabilities
      /\ G17_T08 \in CarefulCapabilities
      /\ G17_T09 \in CarefulCapabilities
  BY Calls, SharedHandlers, SharedJudgements, CloudAttempts,
     CapabilityIsCareful
  DEF G17_T04, G17_T05, G17_T06, G17_T07, G17_T08, G17_T09, CloudTest
<1>2. /\ G17_T01 \in CarefulCapabilities
      /\ G17_T02 \in CarefulCapabilities
      /\ G17_T03 \in CarefulCapabilities
  <2>1. [Returned EXCEPT !.absent = "N/A"] \in CarefulJudgements
    BY SharedJudgements, JudgementsChange DEF Verdicts, Outcomes
  <2> QED
    BY <2>1, Calls, SharedHandlers, SharedJudgements, CloudAttempts,
       CapabilityIsCareful
    DEF G17_T01, G17_T02, G17_T03, CliDetection
<1> QED
  BY <1>1, <1>2 DEF AreCareful, Group17

LEMMA QueriedKeeps ==
  ASSUME NEW f, NEW path \in PathsWith(f)
  PROVE  Queried(path) \in PathsWith(f)
<1>1. {"TimeoutExpired"} \in SUBSET ExceptionNames
  BY KnownExceptions
<1> QED
  BY <1>1, Constructors DEF Queried

LEMMA Group18IsCareful == AreCareful(Group18)
<1>1. G18_T09 \in CarefulCapabilities
  BY Calls, SharedHandlers, SharedJudgements, CloudAttempts, QueriedKeeps,
     CapabilityIsCareful
  DEF G18_T09
<1>2. /\ G18_T01 \in CarefulCapabilities
      /\ G18_T02 \in CarefulCapabilities
  <2>1. {"credential_store"} \in SUBSET SettingNames
    BY KnownSettings
  <2> QED
    BY <2>1, Calls, SharedHandlers, SharedJudgements, CloudAttempts, Places,
       NeedsKeeps, QueriedKeeps, CapabilityIsCareful
    DEF G18_T01, G18_T02, CredentialStore
<1>3. G18_T03 \in CarefulCapabilities
  <2>1. {"LookupError"} \in SUBSET ExceptionNames
    BY KnownExceptions
  <2>2. << <<"LookupError", "N/A">> >> \o Failing \in CarefulHandlers
    BY PairsAreCareful, KnownExceptions, OneHandler, HandlersJoin,
       SharedHandlers
    DEF IsA, OSErrors
  <2> QED
    BY <2>1, <2>2, Calls, SharedHandlers, SharedJudgements, CloudAttempts,
       Constructors, Places, NeedsNoField, CapabilityIsCareful
    DEF G18_T03
<1>4. /\ G18_T04 \in CarefulCapabilities
      /\ G18_T05 \in CarefulCapabilities
  <2>1. {"gpg_tools"} \in SUBSET SettingNames
    BY KnownSettings
  <2>2. {"keychain"} \in SUBSET SettingNames
    BY KnownSettings
  <2> QED
    BY <2>1, <2>2, Calls, SharedHandlers, AddedHandlers, SharedJudgements,
       CloudAttempts, NeedsKeeps, QueriedKeeps, CapabilityIsCareful
    DEF G18_T04, G18_T05
<1> QED
  BY <1>1, <1>2, <1>3, <1>4 DEF AreCareful, Group18

-----------------------------------------------------------------------------
\* SystemProbes: groups 19, 20, 21, 22 and 30.
LEMMA SystemRunners ==
  /\ RunSystemAttempts \in PathsWith({})
  /\ RunHardwareAttempts \in PathsWith({})
  /\ RunSchedulingAttempts \in PathsWith({})
  /\ RunPersistenceAttempts \in PathsWith({})
  /\ RunLogAttempts \in PathsWith({})
BY Runners, SharedJudgements
DEF RunSystemAttempts, RunHardwareAttempts, RunSchedulingAttempts,
    RunPersistenceAttempts, RunLogAttempts

LEMMA SystemAttempts ==
  /\ SystemSummaryAttempts \in PathsWith({})
  /\ InstalledSoftwareAttempts \in PathsWith({})
  /\ NetworkConfigurationAttempts \in PathsWith({})
  /\ FirewallStatusAttempts \in PathsWith({})
  /\ RuntimeEnvironmentAttempts \in PathsWith({})
  /\ UserSettingAttempts \in PathsWith({})
  /\ SystemSettingAttempts \in PathsWith({})
  /\ SystemServiceAttempts \in PathsWith({})
  /\ StartupItemAttempts \in PathsWith({})
  /\ FirewallRuleAttempts \in PathsWith({})
  /\ ScheduledTaskAttempts \in PathsWith({})
  /\ SingleHardwareAttempt \in PathsWith({})
  /\ SingleSchedulingAttempt \in PathsWith({})
  /\ SinglePersistenceAttempt \in PathsWith({})
  /\ SingleLogAttempt \in PathsWith({})
BY SystemRunners, Lists
DEF SystemSummaryAttempts, InstalledSoftwareAttempts,
    NetworkConfigurationAttempts, FirewallStatusAttempts,
    RuntimeEnvironmentAttempts, UserSettingAttempts, SystemSettingAttempts,
    SystemServiceAttempts, StartupItemAttempts, FirewallRuleAttempts,
    ScheduledTaskAttempts, SingleHardwareAttempt, SingleSchedulingAttempt,
    SinglePersistenceAttempt, SingleLogAttempt

LEMMA SystemPaths ==
  /\ Query \in PathsWith({}) /\ QueryOrAbsent \in PathsWith({})
  /\ Lookup \in PathsWith({}) /\ TimedLookup \in PathsWith({})
<1>1. {"TimeoutExpired"} \in SUBSET ExceptionNames
  BY KnownExceptions
<1> QED
  BY <1>1, Calls, SharedHandlers, SharedJudgements, Constructors
  DEF Query, QueryOrAbsent, Lookup, TimedLookup

LEMMA SettingsAreCareful ==
  ASSUME NEW attempts \in PathsWith({})
  PROVE  /\ Setting(attempts) \in CarefulCapabilities
         /\ Installation(attempts) \in CarefulCapabilities
BY SystemPaths, Places, CapabilityIsCareful DEF Setting, Installation

LEMMA CaptureIsCareful ==
  ASSUME NEW permission, {permission} \in SUBSET SettingNames
  PROVE  Capture(permission) \in CarefulCapabilities
<1>1. [Strict EXCEPT !.absent = "N/A"] \in CarefulJudgements
  BY SharedJudgements, JudgementsChange DEF Verdicts, Outcomes
<1>2. {"ModuleNotFoundError"} \in SUBSET ExceptionNames
  BY KnownExceptions
<1>3. << <<"ModuleNotFoundError", "N/A">> >> \o Failing \in CarefulHandlers
  BY PairsAreCareful, KnownExceptions, OneHandler, HandlersJoin,
     SharedHandlers
  DEF IsA, OSErrors
<1>4. ASSUME NEW path \in PathsWith({})
      PROVE  Needs({permission}, path)
               \in PathsWith(Fields({permission}) \cup {})
  BY NeedsKeeps
<1>5. /\ Command([Strict EXCEPT !.absent = "N/A"], Expiring) \in PathsWith({})
      /\ Raising({"ModuleNotFoundError"},
           Call(Returned, << <<"ModuleNotFoundError", "N/A">> >> \o Failing))
           \in PathsWith({})
  BY <1>1, <1>2, <1>3, Calls, SharedHandlers, SharedJudgements, Constructors
<1> QED
  BY <1>4, <1>5, Places, SystemAttempts, CapabilityIsCareful DEF Capture

LEMMA PersistenceIsCareful ==
  ASSUME NEW shell \in PathsWith({}), NEW tool \in PathsWith({}),
         NEW system \in Systems
  PROVE  Persistence(system, shell, tool) \in CarefulCapabilities
<1>1. {system} \in SUBSET SettingNames
  BY DEF SettingNames
<1> QED
  BY <1>1, Places, NeedsKeeps, SystemAttempts, CapabilityIsCareful
  DEF Persistence

LEMMA Group19IsCareful == AreCareful(Group19)
<1>1. /\ G19_T01 \in CarefulCapabilities
      /\ G19_T02 \in CarefulCapabilities
      /\ G19_T03 \in CarefulCapabilities
      /\ G19_T04 \in CarefulCapabilities
      /\ G19_T05 \in CarefulCapabilities
      /\ G19_T06 \in CarefulCapabilities
      /\ G19_T07 \in CarefulCapabilities
      /\ G19_T09 \in CarefulCapabilities
      /\ G19_T08 \in CarefulCapabilities
      /\ G19_T10 \in CarefulCapabilities
      /\ G19_T11 \in CarefulCapabilities
  BY Calls, SharedHandlers, AddedHandlers, SharedJudgements, SystemPaths,
     SystemAttempts, SettingsAreCareful, CapabilityIsCareful
  DEF G19_T01, G19_T02, G19_T03, G19_T04, G19_T05, G19_T06, G19_T07, G19_T09,
      G19_T08, G19_T10, G19_T11
<1> QED
  BY <1>1 DEF AreCareful, Group19

LEMMA Group20IsCareful == AreCareful(Group20)
<1>1. /\ G20_T01 \in CarefulCapabilities
      /\ G20_T03 \in CarefulCapabilities
      /\ G20_T05 \in CarefulCapabilities
      /\ G20_T07 \in CarefulCapabilities
      /\ G20_T08 \in CarefulCapabilities
      /\ G20_T09 \in CarefulCapabilities
      /\ G20_T10 \in CarefulCapabilities
  BY SystemPaths, SystemAttempts, CapabilityIsCareful
  DEF G20_T01, G20_T03, G20_T05, G20_T07, G20_T08, G20_T09, G20_T10,
      Availability, DeviceVisibility
<1>2. /\ G20_T02 \in CarefulCapabilities
      /\ G20_T04 \in CarefulCapabilities
  <2>1. {"allow_camera_capture"} \in SUBSET SettingNames
    BY KnownSettings
  <2>2. {"allow_microphone_capture"} \in SUBSET SettingNames
    BY KnownSettings
  <2> QED
    BY <2>1, <2>2, CaptureIsCareful, CapabilityIsCareful DEF G20_T02, G20_T04
<1> QED
  BY <1>1, <1>2 DEF AreCareful, Group20

LEMMA Group21IsCareful == AreCareful(Group21)
<1>1. G21_T01 \in CarefulCapabilities
  BY SystemPaths, SystemAttempts, CapabilityIsCareful DEF G21_T01
<1>2. G21_T05 \in CarefulCapabilities
  <2>1. [Returned EXCEPT !.nothing = "Denied"] \in CarefulJudgements
    BY SharedJudgements, JudgementsChange DEF Verdicts, Outcomes
  <2> QED
    BY <2>1, Calls, SharedHandlers, SharedJudgements, SystemAttempts,
       Places, CapabilityIsCareful
    DEF G21_T05
<1>3. G21_T07 \in CarefulCapabilities
  <2>1. {"TimeoutError"} \in SUBSET ExceptionNames
    BY KnownExceptions
  <2> QED
    BY <2>1, SystemPaths, SystemAttempts, Constructors, Places,
       CapabilityIsCareful
    DEF G21_T07
<1>4. /\ G21_T08 \in CarefulCapabilities
      /\ G21_T09 \in CarefulCapabilities
      /\ G21_T10 \in CarefulCapabilities
  <2>1. [Strict EXCEPT !.absent = "N/A"] \in CarefulJudgements
    BY SharedJudgements, JudgementsChange DEF Verdicts, Outcomes
  <2>2. [Returned EXCEPT !.absent = "N/A"] \in CarefulJudgements
    BY SharedJudgements, JudgementsChange DEF Verdicts, Outcomes
  <2>3. {"TimeoutExpired"} \in SUBSET ExceptionNames
    BY KnownExceptions
  <2>4. "Linux" \in Systems /\ "Windows" \in Systems
    BY DEF Systems
  <2> QED
    BY <2>1, <2>2, <2>3, <2>4, Calls, SharedHandlers, AddedHandlers,
       SharedJudgements, SystemPaths, Constructors, PersistenceIsCareful,
       CapabilityIsCareful
    DEF G21_T08, G21_T09, G21_T10
<1> QED
  BY <1>1, <1>2, <1>3, <1>4 DEF AreCareful, Group21

LEMMA Group22IsCareful == AreCareful(Group22)
<1>1. /\ G22_T01 \in CarefulCapabilities
      /\ G22_T03 \in CarefulCapabilities
      /\ G22_T04 \in CarefulCapabilities
  BY Calls, SharedHandlers, AddedHandlers, SharedJudgements, SystemPaths,
     SystemAttempts, Keeping, CapabilityIsCareful
  DEF G22_T01, G22_T03, G22_T04, LogReading
<1> QED
  BY <1>1 DEF AreCareful, Group22

LEMMA Group30IsCareful == AreCareful(Group30)
<1>1. G30_T01 \in CarefulCapabilities
  <2>1. [Returned EXCEPT !.nothing = "Denied"] \in CarefulJudgements
    BY SharedJudgements, JudgementsChange DEF Verdicts, Outcomes
  <2>2. {"OpenAIError", "Exception"} \in SUBSET ExceptionNames
    BY KnownExceptions
  <2>3. << <<"OpenAIError", "Denied">> >> \o Otherwise \in CarefulHandlers
    BY PairsAreCareful, KnownExceptions, OneHandler, HandlersJoin,
       SharedHandlers
  <2> QED
    BY <2>1, <2>2, <2>3, CommonPaths, PathIsCareful,
       CapabilityWithoutAlternates, CapabilityIsCareful
    DEF G30_T01
<1> QED
  BY <1>1 DEF AreCareful, Group30

-----------------------------------------------------------------------------
(***************************************************************************)
(* The whole registry, and any selection of it.                            *)
(***************************************************************************)
\* Every capability that some group of the registry lists.
LEMMA RegistryIsCareful == AllCapabilities \subseteq CarefulCapabilities
<1>1. \A g \in DOMAIN GroupFactories : AreCareful(GroupFactories[g])
  BY Group01IsCareful, Group02IsCareful, Group03IsCareful, Group04IsCareful,
     Group05IsCareful, Group06IsCareful, Group07IsCareful, Group08IsCareful,
     Group09IsCareful, Group10IsCareful, Group11IsCareful, Group12IsCareful,
     Group13IsCareful, Group14IsCareful, Group15IsCareful, Group16IsCareful,
     Group17IsCareful, Group18IsCareful, Group19IsCareful, Group20IsCareful,
     Group21IsCareful, Group22IsCareful, Group30IsCareful
  DEF GroupFactories
<1> QED
  BY <1>1 DEF AreCareful, AllCapabilities

LEMMA SelectionIsCareful ==
  ASSUME Capabilities \subseteq AllCapabilities,
         NEW t \in Capabilities, NEW p \in Paths
  PROVE  /\ t[p] \in AccountedPaths
         /\ t[p] \in PathsMaking(ThingsAndResults)
         /\ t[p].catch \in Handlers
<1>1. t \in CarefulCapabilities
  BY RegistryIsCareful
<1>2. t[p] \in AccountedPaths
  BY <1>1 DEF CarefulCapabilities, Paths
<1>3. CarefulPaths \subseteq PathsMaking(ThingsAndResults)
  BY DEF CarefulPaths, PathsMaking, ThingsAndResults
<1>4. t[p] \in PathsMaking(ThingsAndResults)
  BY <1>2, <1>3 DEF AccountedPaths, ResultPaths
<1> QED
  BY <1>2, <1>4, CapabilitiesAssumption DEF CapabilitiesAssumption

\* What the theorems of CapabilityProbesTheorems ask for.
LEMMA CarefulAllows ==
  ASSUME NEW path \in PathsMaking(ThingsAndResults)
  PROVE  AllowsSuccesses(path)
<1>1. ASSUME NEW a \in Distinguished(path), path.on[a] = "Allowed"
      PROVE  a \in {"done", "nothing"}
  BY <1>1 DEF Distinguished, PathsMaking, CarefulJudgements
<1>2. ASSUME NEW i \in DOMAIN path.catch, path.catch[i][2] = "Allowed"
      PROVE  path.catch[i][1] \in ServerAnswers
  <2>1. path.catch[i] \in CarefulPairs
    BY DEF PathsMaking, CarefulHandlers, PartialHandlers
  <2> QED
    BY <1>2, <2>1 DEF CarefulPairs
<1>3. \A i \in DOMAIN path.prepare.catch : path.prepare.catch[i][2] # "Allowed"
  BY DEF PathsMaking, CarefulPreparations, PreparationHandlers
<1>4. path.idle # "Allowed" /\ path.otherwise # "Allowed"
  BY DEF PathsMaking
<1> QED
  BY <1>1, <1>2, <1>3, <1>4 DEF AllowsSuccesses

LEMMA CarefulTakesRefusals ==
  ASSUME NEW path \in PathsMaking(ThingsAndResults), path.catch \in Handlers
  PROVE  TakesRefusals(path)
<1> SUFFICES ASSUME NEW a \in {"refused", "PermissionError"},
                    a \in Distinguished(path) \/ Handles(path.catch, a)
             PROVE  Judged(path, a) # "N/A"
  BY DEF TakesRefusals, Refusals
<1>1. CASE a \in Distinguished(path)
  <2>1. a = "refused"
    BY <1>1 DEF Distinguished, PathsMaking, CarefulJudgements
  <2>2. path.on[a] # "N/A"
    BY <2>1 DEF PathsMaking, CarefulJudgements
  <2> QED
    BY <1>1, <2>1, <2>2 DEF Judged
<1>2. CASE a \notin Distinguished(path)
  <2>1. PICK i \in DOMAIN path.catch :
          /\ IsA(a, path.catch[i][1])
          /\ Handled(path.catch, a) = path.catch[i][2]
    BY <1>2, HandledIsOutcome
  <2>2. path.catch[i] \in CarefulPairs
    BY DEF PathsMaking, CarefulHandlers, PartialHandlers
  <2>3. path.catch[i][1] \in ExceptionNames
    BY <2>2 DEF CarefulPairs
  <2>4. IsA("PermissionError", path.catch[i][1])
    BY <2>1, <2>3
    DEF IsA, OSErrors, ExceptionNames, CommandErrors, NetworkErrors,
        CallErrors
  <2>5. Handled(path.catch, a) # "N/A"
    BY <2>1, <2>2, <2>4 DEF CarefulPairs
  <2> QED
    BY <1>2, <2>5 DEF Judged
<1> QED
  BY <1>1, <1>2

LEMMA CarefulIsGuarded ==
  ASSUME NEW path \in PathsMaking(ThingsAndResults)
  PROVE  GuardsBody(path)
<1>1. PICK i \in DOMAIN path.catch : path.catch[i][1] = "Exception"
  BY DEF PathsMaking, CarefulHandlers
<1>2. \A a : Handles(path.catch, a)
  BY <1>1 DEF Handles, IsA
<1> QED
  BY <1>2 DEF GuardsBody

LEMMA AccountedThings ==
  ASSUME NEW path \in AccountedPaths
  PROVE  AccountsForThings(path)
<1>1. /\ path \in PathsMaking(ThingsAndResults)
      /\ Screenshot \in path.makes => "output_directory" \in path.needs
  <2>1. CASE path \in CarefulPaths
    BY <2>1 DEF CarefulPaths, PathsMaking, ThingsAndResults, CarefulThings,
                Screenshot, Thing
  <2>2. CASE path \in ResultPaths
    BY <2>2 DEF ResultPaths
  <2> QED
    BY <2>1, <2>2 DEF AccountedPaths
<1>2. ASSUME NEW x \in path.makes
      PROVE  /\ x.where = "outside" => x.undone # "never"
             /\ x.where = "output" => "output_directory" \in path.needs
  <2>1. x \in CarefulThings \/ x = Screenshot
    BY <1>1, <1>2 DEF PathsMaking, ThingsAndResults
  <2> QED
    BY <1>1, <1>2, <2>1 DEF CarefulThings, Screenshot, Thing
<1>3. ASSUME NEW x \in path.prepare.leaves
      PROVE  x.where = "fixtures" /\ x.undone # "finally"
  BY <1>1, <1>3
  DEF PathsMaking, CarefulPreparations, CarefulLeaves, Thing
<1> QED
  BY <1>2, <1>3 DEF AccountsForThings

\* No probe of the registry calls a capability Allowed that has met refusals,
\* absences and exceptions only, for any selection of the probes, any context
\* and any number of runs.
THEOREM RegistryRefusalsAreNotAllowed ==
  ASSUME Capabilities \subseteq AllCapabilities
  PROVE  Spec => []RefusalIsNotAllowed
BY SelectionIsCareful, CarefulAllows, RefusalsAreNotAllowed

\* No shell or tool test of the registry is N/A when it was refused and met
\* nothing else: its handlers look for a refusal before a missing program.
THEOREM RegistryRefusalsAreApplicable ==
  ASSUME Capabilities \subseteq AllCapabilities
  PROVE  Spec => []RefusalIsApplicable
BY SelectionIsCareful, CarefulTakesRefusals, RefusalsAreApplicable DEF Paths

\* Every try of the registry has a handler for whatever ends it, so that only
\* what a probe does outside its try ends run_group early.
THEOREM RegistryBodiesAreGuarded ==
  ASSUME Capabilities \subseteq AllCapabilities
  PROVE  Spec => []BodiesAreGuarded
BY SelectionIsCareful, CarefulIsGuarded, BodiesStayGuarded

\* What a run of the registry leaves behind is accounted for in every later
\* one: what a finally is for is there by an exception that left its path, no
\* probe leaves anything outside the fixtures that it was not to undo, and the
\* screenshots that stay are in the output directory that was configured.
THEOREM RegistryRemainsAreExplained ==
  ASSUME Capabilities \subseteq AllCapabilities
  PROVE  Spec => []RemainsAreExplained
BY SelectionIsCareful, AccountedThings, RemainsStayExplained

\* The shell, the tool and the alternates of a probe of the registry ask for
\* the same fields of the context: what one of them tries, none of the others
\* reports as not configured.
THEOREM RegistryPathsAgree ==
  ASSUME Capabilities \subseteq AllCapabilities
  PROVE  Spec => []PathsAgree
BY RegistryIsCareful, PathsAlwaysAgree DEF CarefulCapabilities
=============================================================================
