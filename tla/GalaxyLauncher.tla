--------------------------- MODULE GalaxyLauncher ---------------------------
(* The launcher of the Galaxy deployment (scripts/galaxy-start.js): it writes   *)
(* config.yaml or replaces the example keys of a configuration kept in a GitHub *)
(* repository, installs the released binary and its configuration template once,*)
(* starts the binary and forwards requests to it.  The host restarts it after   *)
(* every exit or crash, and files keep what was written: a file written in      *)
(* place is torn if the launcher dies meanwhile.                                *)
EXTENDS LauncherConfig

CONSTANTS
  Envs,       \* settings of the environment (a subset of AnyEnv)
  Docs,       \* configurations that may be found on disk or given by the environment
  GitKeys,    \* lists of API keys that may be found in the repository
  MaxPort,    \* 65535
  AppPort,    \* 8317, the port the application listens on by default
  MaxBoots,   \* bound: starts of the launcher
  MaxEdits    \* bound: commits of others to the configuration in the repository

AnyEnv == [keys : BOOLEAN, allow : {"unset", "on", "off"}, password : BOOLEAN,
           given : Docs \cup {<<>>}, store : {"file", "git"}, token : BOOLEAN, force : BOOLEAN,
           route : {"off", "on", "only"}, public : 1..MaxPort, internal : 0..MaxPort]

ASSUME PortAssumption == MaxPort \in Nat /\ AppPort \in 1..MaxPort
ASSUME EnvAssumption == Envs \subseteq AnyEnv
ASSUME DocAssumption == Docs \subseteq Seq(STRING)

VARIABLES
  env,        \* the environment's settings, changed only between boots
  pc,         \* where the launcher stands
  boots,
  config,     \* lines of config.yaml, <<>> when there is no file
  binary,     \* "absent", "torn" or "whole"
  template,   \* config.example.yaml, likewise
  git,        \* the configuration in the repository: sha and keys (sha 0: none)
  read,       \* what ensureGitStoreAPIKeys has read
  child,      \* the application: "none", "up" or "gone"
  request,    \* one request to the front proxy
  cut         \* observation: the binary torn over an earlier installation, the
              \* template torn by a crash in its write

files == <<config, binary, template>>
launcherVars == <<env, pc, boots, files, git, read, child, request, cut>>

NoRead == [sha |-> 0, keys |-> <<>>]
NoRequest == [kind |-> "none", head |-> FALSE]

\* runtimePorts: internal = 0 stands for CLIPROXY_INTERNAL_PORT not being set.
DefaultInternal(public) == IF public = MaxPort THEN AppPort ELSE public + 1

RuntimePorts(e) ==
  LET app == IF e.route = "off" THEN e.public
             ELSE IF e.internal # 0 THEN e.internal ELSE DefaultInternal(e.public)
  IN  [public |-> e.public, app |-> app]

\* Mutant of PortsClash: the internal port is taken as it is set
NeverClash(e) == FALSE

PortsClash(e) == e.route # "off" /\ RuntimePorts(e).app = e.public

LauncherInit ==
  /\ env \in Envs
  /\ pc = "stopped"
  /\ boots = 0
  /\ config \in IF env.store = "file" THEN Docs \cup {<<>>} ELSE {<<>>}
  /\ binary = "absent"
  /\ template = "absent"
  /\ git \in IF env.store = "git" THEN {NoRead} \cup [sha : {1}, keys : GitKeys] ELSE {NoRead}
  /\ read = NoRead
  /\ child = "none"
  /\ request = NoRequest
  /\ cut = {}

-----------------------------------------------------------------------------
Exit ==
  /\ pc' = "stopped"
  /\ child' = "none"
  /\ request' = NoRequest
  /\ read' = NoRead

\* main: CLIPROXY_FORCE_DOWNLOAD is meant to be set once; ports are checked first.
Boot ==
  /\ pc = "stopped"
  /\ boots < MaxBoots
  /\ boots' = boots + 1
  /\ \E f \in BOOLEAN : env' = [env EXCEPT !.force = f]
  /\ pc' = IF PortsClash(env) THEN "stopped"
           ELSE IF env.store = "git" THEN "prepared" ELSE "config"
  /\ UNCHANGED <<files, git, read, child, request, cut>>

\* ensureConfig: the configuration the environment gives (CLIPROXY_CONFIG_BASE64 or
\* CLIPROXY_CONFIG_YAML) goes before the file, on every boot.
Source(doc) == IF env.given # <<>> THEN env.given
               ELSE IF doc = <<>> THEN Generated(env.keys, AllowRemote(env)) ELSE doc

\* It is edited and written in place; the crash below may keep any beginning of
\* what was being written.
NewConfig == Edited(Source(config), env)

WriteConfig ==
  /\ pc = "config"
  /\ config' = NewConfig
  /\ pc' = "prepared"
  /\ UNCHANGED <<env, boots, binary, template, git, read, child, request, cut>>

CrashInConfig ==
  /\ pc = "config"
  /\ \E n \in 0..Len(NewConfig) - 1 :
       config' = IF n = 0 THEN <<Blank>> ELSE SubSeq(NewConfig, 1, n)
  /\ Exit
  /\ UNCHANGED <<env, boots, binary, template, git, cut>>

-----------------------------------------------------------------------------
(* ensureGitStoreAPIKeys, and ensureBinary in file mode *)
Prepared ==
  /\ pc = "prepared"
  /\ pc' = IF env.route = "only" THEN "serving"
           ELSE IF env.store = "git" /\ env.token THEN "git" ELSE "install"
  /\ UNCHANGED <<env, boots, files, git, read, child, request, cut>>

ReadGit ==
  /\ pc = "git"
  /\ IF git.sha = 0 \/ ReplaceExamples(git.keys) = git.keys
     THEN pc' = "install" /\ UNCHANGED read
     ELSE pc' = "commit" /\ read' = git
  /\ UNCHANGED <<env, boots, files, git, child, request, cut>>

\* Mutant of Conflict: the content is put without the sha it was read at
NoShaSent == FALSE

\* GitHub takes the content only for the sha it was read at; otherwise the
\* request fails and the launcher exits.
Conflict == git.sha # read.sha

CommitKeys ==
  /\ pc = "commit"
  /\ ~Conflict
  /\ git' = [sha |-> git.sha + 1, keys |-> ReplaceExamples(read.keys)]
  /\ pc' = "install"
  /\ read' = NoRead
  /\ UNCHANGED <<env, boots, files, child, request, cut>>

CommitConflicts ==
  /\ pc = "commit"
  /\ Conflict
  /\ Exit
  /\ UNCHANGED <<env, boots, files, git, cut>>

\* Another launcher, the application elsewhere or the user commits.
OtherCommits ==
  /\ env.store = "git"
  /\ git.sha < MaxEdits
  /\ \E ks \in GitKeys \cup {<<"theirs">>} : git' = [sha |-> git.sha + 1, keys |-> ks]
  /\ UNCHANGED <<env, pc, boots, files, read, child, request, cut>>

\* Mutant of Installed: the template is not looked for
BinaryInstalled == binary # "absent"

\* ensureBinary
Installed == binary # "absent" /\ template # "absent"

CheckInstalled ==
  /\ pc = "install"
  /\ pc' = IF Installed /\ ~env.force THEN "start" ELSE "download"
  /\ UNCHANGED <<env, boots, files, git, read, child, request, cut>>

\* The archive goes to a new temporary directory; then the copy begins.
Download ==
  /\ pc = "download"
  /\ binary' = "torn"
  /\ pc' = "copying"
  /\ UNCHANGED <<env, boots, config, template, git, read, child, request, cut>>

Copied ==
  /\ pc = "copying"
  /\ binary' = "whole"
  /\ template' = "torn"
  /\ cut' = cut \ {"binary"}
  /\ pc' = "template"
  /\ UNCHANGED <<env, boots, config, git, read, child, request>>

TemplateWritten ==
  /\ pc = "template"
  /\ template' = "whole"
  /\ cut' = cut \ {"template"}
  /\ pc' = "start"
  /\ UNCHANGED <<env, boots, config, binary, git, read, child, request>>

\* The release has no template: the binary is in place, the launcher exits.
TemplateMissing ==
  /\ pc = "copying"
  /\ binary' = "whole"
  /\ cut' = cut \ {"binary"}
  /\ Exit
  /\ UNCHANGED <<env, boots, config, template, git>>

\* A failed request or extraction, a signal or a lost container.
LauncherCrash ==
  /\ pc \notin {"stopped", "config"}
  /\ Exit
  /\ cut' = cut \cup (IF pc = "copying" /\ Installed THEN {"binary"} ELSE {})
                \cup (IF pc = "template" THEN {"template"} ELSE {})
  /\ UNCHANGED <<env, boots, files, git>>

-----------------------------------------------------------------------------
(* startBinary and the front proxy *)
StartBinary ==
  /\ pc = "start"
  /\ child' = "up"
  /\ pc' = "serving"
  /\ UNCHANGED <<env, boots, files, git, read, request, cut>>

ChildExits ==
  /\ child = "up"
  /\ child' = "gone"
  /\ UNCHANGED <<env, pc, boots, files, git, read, request, cut>>

\* The exit handler ends the launcher with the child's status.
ChildExitSeen ==
  /\ child = "gone"
  /\ Exit
  /\ UNCHANGED <<env, boots, files, git, cut>>

Receive ==
  /\ pc = "serving"
  /\ env.route # "off"
  /\ request = NoRequest
  /\ \E kind \in {"lookup"} \cup (IF env.route = "on" THEN {"proxied"} ELSE {}) :
       request' = [kind |-> kind, head |-> FALSE]
  /\ UNCHANGED <<env, pc, boots, files, git, read, child, cut>>

\* handleMyIp: an answer, an error or the abort after ten seconds, all answered.
LookupAnswered ==
  /\ request.kind = "lookup"
  /\ request' = NoRequest
  /\ UNCHANGED <<env, pc, boots, files, git, read, child, cut>>

\* proxyRequest: the head of the answer, then its end, or an error before (502)
\* or after it (the connection is destroyed).
ProxyHead ==
  /\ request = [kind |-> "proxied", head |-> FALSE]
  /\ child = "up"
  /\ request' = [request EXCEPT !.head = TRUE]
  /\ UNCHANGED <<env, pc, boots, files, git, read, child, cut>>

ProxyEnds ==
  /\ request.kind = "proxied"
  /\ request.head \/ child = "gone"
  /\ request' = NoRequest
  /\ UNCHANGED <<env, pc, boots, files, git, read, child, cut>>

-----------------------------------------------------------------------------
LauncherNext ==
  \/ Boot \/ WriteConfig \/ CrashInConfig
  \/ Prepared \/ ReadGit \/ CommitKeys \/ CommitConflicts \/ OtherCommits
  \/ CheckInstalled \/ Download \/ Copied \/ TemplateWritten \/ TemplateMissing \/ LauncherCrash
  \/ StartBinary \/ ChildExits \/ ChildExitSeen
  \/ Receive \/ LookupAnswered \/ ProxyHead \/ ProxyEnds

LauncherSpec == LauncherInit /\ [][LauncherNext]_launcherVars

-----------------------------------------------------------------------------
(* Whatever file an earlier boot, a torn write or the user left, the running     *)
(* application finds a configuration that names the port the front proxy         *)
(* forwards to, which is not the proxy's own, the statistics switched on, the    *)
(* panel's repository, and the API keys of the environment.                      *)
ManagedSettings ==
  child = "up" =>
    /\ RuntimePorts(env).app \in 1..MaxPort
    /\ env.route # "off" => RuntimePorts(env).app # env.public
    /\ env.store = "file" =>
         /\ Cardinality({i \in DOMAIN config : config[i] \in Ports}) > 0
         /\ config[IndexIn(config, Ports)] = Port
         /\ config[IndexIn(config, Usages)] = Usage
         /\ \E i, j \in DOMAIN config :
              i < j /\ config[i] = Remote /\ config[j] = PanelPro /\ j < EndOf(config, i, Indented \cup {Blank})
         /\ env.keys => \E i \in 1..Len(config) - 1 :
                          config[i] = KeysHeader /\ config[i + 1] = NewKey

(* A boot rewrites the configuration without losing a line it does not manage,   *)
(* and finds nothing left to change in what it wrote itself: restarts do not     *)
(* move, repeat or eat settings.  The exception is Misplaced: that edit loses a   *)
(* line and leaves the panel's old one, and the boots after it come to rest with  *)
(* the third.                                                                    *)
RewriteSettles ==
  pc = "config" =>
    LET second == Edited(Source(NewConfig), env)
        third == Edited(Source(second), env)
    IN  IF Misplaced(Source(config), env)
        THEN Edited(Source(third), env) = third
        ELSE ForeignLines(NewConfig) = ForeignLines(Source(config)) /\ second = NewConfig

(* What a crash left of an installation is not taken for a whole one: the binary  *)
(* is torn at a start only if it was being replaced by a forced download, since    *)
(* that of a first installation has no template beside it and is copied again.    *)
(* The template is torn only if the crash came in its own write: that file, of a   *)
(* first installation or not, passes for installed.                               *)
StartsWholeFiles ==
  pc = "start" =>
    /\ binary = "whole" \/ "binary" \in cut
    /\ template = "whole" \/ "template" \in cut

(* The launcher replaces example keys only: keys that another launcher or the    *)
(* user has committed meanwhile are never replaced by its own.                   *)
OnlyExamplesReplaced ==
  [][git'.keys # git.keys /\ read.sha > 0 /\ pc' = "install"
       => git.keys = read.keys /\ Head(git.keys) = "example"]_launcherVars
=============================================================================
