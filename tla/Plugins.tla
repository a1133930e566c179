------------------------------ MODULE Plugins ------------------------------
(***************************************************************************)
(* The computer-use plugins of a user (domain/plugins, the commands        *)
(* "plugin" and "doctor"): npm packages, generated MCP configurations, and *)
(* the file installed.json that says which agent may use which plugin.     *)
(* Commands of several terminals interleave: each reads installed.json and *)
(* writes all of it later, so updates are lost.  A run installs nothing    *)
(* and asks which plugin is active for its agent.                          *)
(*                                                                         *)
(* Packages are installed and removed by these commands only.  Versions,   *)
(* consent and OS permissions are left out.                                *)
(***************************************************************************)
EXTENDS Integers, Sequences, FiniteSets, SequencesExt

CONSTANTS
  Community,     \* COMMUNITY_PLUGINS in the order of PLUGIN_PRIORITY
  PluginAgents,  \* the agents they support, one of them "codex"
  Terminals,
  MaxCommands    \* bound: commands

ASSUME PluginsAssumption ==
  /\ Community \in Seq(STRING)
  /\ {"codex-computer-use", "none"} \cap ToSet(Community) = {}
  /\ "codex" \in PluginAgents
  /\ MaxCommands \in Nat

VARIABLES
  packages,    \* global npm packages
  codexGui,    \* what Codex says of its own plugin: "absent", "disabled", "ready"
  installed,   \* installed.json: plugin -> agents, {} for no entry
  mcpFiles,    \* generated configurations, <<plugin, agent>>
  command,     \* the command that runs in a terminal
  commands,
  doubtful     \* history: plugins whose last commands overlapped or died

pluginVars == <<packages, codexGui, installed, mcpFiles, command, commands, doubtful>>

Gui == "codex-computer-use"
PluginIds == ToSet(Community) \cup {Gui}
NoCommand == [does |-> "nothing", plugin |-> Gui, agents |-> {}, todo |-> {},
              at |-> "idle", read |-> <<>>, alone |-> TRUE]

\* Mutant of ConfigThere: an entry is enough.
ConfigRecorded(p, a) == a \in installed[p]

\* The entry names the agent, and the configuration it names is a file.
ConfigThere(p, a) == a \in installed[p] /\ <<p, a>> \in mcpFiles

\* active_plugin_for_agent: the first of PLUGIN_PRIORITY that is usable.
ActivePlugin(a) ==
  LET usable == {i \in DOMAIN Community : ConfigThere(Community[i], a)}
      first == CHOOSE i \in usable : \A j \in usable : i <= j
  IN  CASE a = "codex" /\ codexGui = "ready" -> Gui
        [] ~(a = "codex" /\ codexGui = "ready") /\ usable # {} -> Community[first]
        [] OTHER -> "none"

\* computer_use_server_names_for_agent: what is added to the allowlists of
\* the maker and the checker; the plugin of Codex has no MCP server.
AllowedServers(a) == {ActivePlugin(a)} \cap ToSet(Community)

-----------------------------------------------------------------------------
PluginsInit ==
  /\ packages = {}
  /\ codexGui = "absent"
  /\ installed = [p \in PluginIds |-> {}]
  /\ mcpFiles = {}
  /\ command = [c \in Terminals |-> NoCommand]
  /\ commands = 0
  /\ doubtful = {}

OthersOn(c, p) == {d \in Terminals \ {c} : command[d].does # "nothing" /\ command[d].plugin = p}

\* _cmd_plugin
StartCommand(c, does, p, agents) ==
  /\ command[c].does = "nothing"
  /\ commands < MaxCommands
  /\ commands' = commands + 1
  /\ command' = [d \in Terminals |->
       CASE d = c -> [does |-> does, plugin |-> p, agents |-> agents, todo |-> agents,
                      at |-> "query", read |-> <<>>, alone |-> OthersOn(c, p) = {}]
         [] d \in OthersOn(c, p) -> [command[d] EXCEPT !.alone = FALSE]
         [] OTHER -> command[d]]
  /\ UNCHANGED <<packages, codexGui, installed, mcpFiles, doubtful>>

StartAny(c) ==
  \/ \E p \in ToSet(Community), agents \in SUBSET PluginAgents \ {{}} :
       StartCommand(c, "install", p, agents)
  \/ \E p \in ToSet(Community) : StartCommand(c, "uninstall", p, {})
  \/ StartCommand(c, "install", Gui, {"codex"})
  \/ StartCommand(c, "uninstall", Gui, {})

\* The next step of a command.
CommandAt(c, does, at) == command[c].does = does /\ command[c].at = at
GoOn(c, at) == command' = [command EXCEPT ![c].at = at]

\* What a command that ran alone leaves is in no doubt.
Finished(c) ==
  /\ command' = [command EXCEPT ![c] = NoCommand]
  /\ doubtful' = IF command[c].alone THEN doubtful \ {command[c].plugin}
                 ELSE doubtful \cup {command[c].plugin}

\* An error or a kill at any point.
CommandDies(c) ==
  /\ command[c].does # "nothing"
  /\ command' = [command EXCEPT ![c] = NoCommand]
  /\ doubtful' = doubtful \cup {command[c].plugin}
  /\ UNCHANGED <<packages, codexGui, installed, mcpFiles, commands>>

\* install_community_plugin: npm, unless the package is there.
InstallPackage(c) ==
  /\ CommandAt(c, "install", "query") /\ command[c].plugin # Gui
  /\ packages' = packages \cup {command[c].plugin}
  /\ GoOn(c, "configs")
  /\ UNCHANGED <<codexGui, installed, mcpFiles, commands, doubtful>>

WriteMcpConfig(c) ==
  /\ CommandAt(c, "install", "configs")
  /\ \E a \in command[c].todo :
       /\ mcpFiles' = mcpFiles \cup {<<command[c].plugin, a>>}
       /\ command' = [command EXCEPT ![c].todo = @ \ {a},
                                     ![c].at = IF command[c].todo = {a} THEN "load" ELSE @]
  /\ UNCHANGED <<packages, codexGui, installed, commands, doubtful>>

\* record_install and forget_install read the file ...
LoadInstalled(c) ==
  /\ command[c].at = "load"
  /\ command' = [command EXCEPT ![c].read = installed, ![c].at = "save"]
  /\ UNCHANGED <<packages, codexGui, installed, mcpFiles, commands, doubtful>>

\* ... and replace it.
RecordInstall(c) ==
  /\ CommandAt(c, "install", "save")
  /\ installed' = [command[c].read EXCEPT ![command[c].plugin] = @ \cup command[c].agents]
  /\ Finished(c)
  /\ UNCHANGED <<packages, codexGui, mcpFiles, commands>>

\* uninstall_community_plugin
RemovePackage(c) ==
  /\ CommandAt(c, "uninstall", "query") /\ command[c].plugin # Gui
  /\ packages' = packages \ {command[c].plugin}
  /\ GoOn(c, "load")
  /\ UNCHANGED <<codexGui, installed, mcpFiles, commands, doubtful>>

ForgetInstall(c) ==
  /\ CommandAt(c, "uninstall", "save")
  /\ installed' = IF command[c].read[command[c].plugin] = {} THEN installed
                  ELSE [command[c].read EXCEPT ![command[c].plugin] = {}]
  /\ IF command[c].plugin = Gui THEN Finished(c)
     ELSE GoOn(c, "rmtree") /\ UNCHANGED doubtful
  /\ UNCHANGED <<packages, codexGui, mcpFiles, commands>>

RemoveConfigs(c) ==
  /\ CommandAt(c, "uninstall", "rmtree")
  /\ mcpFiles' = {f \in mcpFiles : f[1] # command[c].plugin}
  /\ Finished(c)
  /\ UNCHANGED <<packages, codexGui, installed, commands>>

\* install_computer_use_plugin: a plugin that is ready is not recorded.
InstallGui(c) ==
  /\ CommandAt(c, "install", "query") /\ command[c].plugin = Gui
  /\ \/ codexGui = "ready" /\ Finished(c) /\ UNCHANGED codexGui
     \/ codexGui = "absent" /\ codexGui' \in {"disabled", "ready"}
        /\ GoOn(c, IF codexGui' = "ready" THEN "load" ELSE "query") /\ UNCHANGED doubtful
     \/ codexGui = "disabled" /\ codexGui' = "ready" /\ GoOn(c, "load") /\ UNCHANGED doubtful
  /\ UNCHANGED <<packages, installed, mcpFiles, commands>>

\* uninstall_computer_use_plugin: one that is not installed is not forgotten.
UninstallGui(c) ==
  /\ CommandAt(c, "uninstall", "query") /\ command[c].plugin = Gui
  /\ codexGui' = "absent"
  /\ IF codexGui = "absent" THEN Finished(c) ELSE GoOn(c, "load") /\ UNCHANGED doubtful
  /\ UNCHANGED <<packages, installed, mcpFiles, commands>>

PluginsNext ==
  \E c \in Terminals :
    \/ StartAny(c) \/ CommandDies(c) \/ InstallPackage(c) \/ WriteMcpConfig(c)
    \/ LoadInstalled(c) \/ RecordInstall(c) \/ RemovePackage(c) \/ ForgetInstall(c)
    \/ RemoveConfigs(c) \/ InstallGui(c) \/ UninstallGui(c)

PluginsSpec == PluginsInit /\ [][PluginsNext]_pluginVars

-----------------------------------------------------------------------------
PluginsTypeOK ==
  /\ packages \subseteq ToSet(Community)
  /\ codexGui \in {"absent", "disabled", "ready"}
  /\ installed \in [PluginIds -> SUBSET PluginAgents]
  /\ mcpFiles \subseteq ToSet(Community) \X PluginAgents
  /\ commands \in 0..MaxCommands
  /\ doubtful \subseteq PluginIds
  /\ \A c \in Terminals :
       /\ command[c].at \in {"idle", "query", "configs", "load", "save", "rmtree"}
       /\ command[c].does \in {"nothing", "install", "uninstall"}

\* A server that a run may reach belongs to a package that is there, also
\* when commands about other plugins lose or bring back entries of
\* installed.json.  Commands about the same plugin that overlapped, and one
\* that died, may leave it otherwise; the next one that runs alone mends it.
AllowedHavePackages ==
  \A a \in PluginAgents : \A p \in AllowedServers(a) \ doubtful :
    \/ p \in packages
    \/ \E c \in Terminals : command[c].plugin = p /\ command[c].does # "nothing"
=============================================================================
