---------------------------- MODULE Capabilities ----------------------------
(***************************************************************************)
(* The capabilities of a session (capabilities.rs, manifest.rs, venv.rs,   *)
(* hotseat.rs and their arms of main.rs).  `gila cap config` asks, of each *)
(* installed capability, where it is exposed, and writes the manifest;     *)
(* `gila code` mounts, on top of the operator's servers, those exposed to  *)
(* the agent; `gila hotseat` adds its floor and the modulex proxy.  Each   *)
(* writes a configuration of its own and hands it to the inherited TUI.    *)
(*                                                                         *)
(* The manifest is one file, read and written without a lock by processes  *)
(* that may die: fs::write truncates and then writes from the start.  Any  *)
(* text that does not parse is as good as none.  A server is the name of   *)
(* what it serves and the venv it runs in; the processes run once.         *)
(***************************************************************************)
EXTENDS Naturals, Sequences, FiniteSets, SequencesExt

CONSTANTS
    Sessions,      \* the processes
    Uses,          \* what each runs: "config", "code" or "hotseat"
    Exposures,     \* answers given: "cli", "agent", "both", "off"
    Installed,     \* capabilities, in the order `gilacap list` gives them
    Handwritten,   \* the manifests the operator may have written
    Torn,          \* a text that does not parse
    NoVenv, Unnamed,   \* no venv named; what the environment then gives
    OwnServers,    \* mcp_servers of the operator's configuration
    Modulex        \* the server of the hotseat

\* What the operator wrote are lists.
ASSUME ListsAssumption ==
    /\ OwnServers \in Seq(ToSet(OwnServers))
    /\ \A m \in Handwritten \ {Torn} : m.entries \in Seq(ToSet(m.entries))

VARIABLES
    use, point,    \* of each process
    manifest,      \* the file: Torn or [venv, entries]
    chosen,        \* config: the entries being asked for and written
    unresolved,    \* code: capabilities whose venv is not resolved yet
    servers,       \* code and hotseat: the servers to mount
    floor,         \* hotseat: the read-only preset and mode are in it
    optedIn        \* every server the operator's answers and edits allow

capVars == <<use, point, manifest, chosen, unresolved, servers, floor, optedIn>>

Nothing == [venv |-> NoVenv, entries |-> <<>>]

\* Manifest::load, unwrap_or_default.
Loaded == IF manifest = Torn THEN Nothing ELSE manifest

IsAgent(entry) == entry.expose \in {"agent", "both"}
AgentExposed(m) ==
    LET kept[n \in 0 .. Len(m.entries)] ==
            IF n = 0 THEN <<>>
            ELSE IF IsAgent(m.entries[n]) THEN Append(kept[n - 1], m.entries[n])
            ELSE kept[n - 1]
    IN  kept[Len(m.entries)]

\* Manifest::venv_for, of the first entry of the name, and venv::resolve: an
\* override or what the environment gives.
VenvOf(m, name) ==
    LET first == SelectInSeq(m.entries, LAMBDA e : e.name = name)
        own == IF first = 0 THEN NoVenv ELSE m.entries[first].venv
        v == IF own # NoVenv THEN own ELSE m.venv
    IN  IF v = NoVenv THEN Unnamed ELSE v

\* The servers a manifest lets a session mount.
Allows(m) ==
    LET exposed == {i \in DOMAIN m.entries : IsAgent(m.entries[i])}
        Ways(name) == {[name |-> name, venv |-> v] : v \in {VenvOf(m, name), Unnamed}}
    IN  UNION {Ways(m.entries[i].name) : i \in exposed}

CapInit ==
    /\ use \in Uses /\ point = [s \in Sessions |-> "start"]
    /\ manifest \in Handwritten
    /\ chosen = [s \in Sessions |-> <<>>] /\ unresolved = [s \in Sessions |-> <<>>]
    /\ servers = [s \in Sessions |-> <<>>] /\ floor = [s \in Sessions |-> FALSE]
    /\ optedIn = Allows(Loaded)

Goto(s, where) == point' = [point EXCEPT ![s] = where]

-----------------------------------------------------------------------------
(* gila cap config.                                                        *)

\* select_manifest: an answer per capability; at the end of the input what
\* was answered is kept.
Answer(s) ==
    /\ use[s] = "config" /\ point[s] = "start" /\ Len(chosen[s]) < Len(Installed)
    /\ \E e \in Exposures :
         chosen' = [chosen EXCEPT ![s] = Append(@,
             [name |-> Installed[Len(@) + 1], expose |-> e, venv |-> NoVenv])]
    /\ UNCHANGED <<use, point, manifest, unresolved, servers, floor, optedIn>>

\* write_manifest.
TruncateManifest(s) ==
    /\ use[s] = "config" /\ point[s] = "start"
    /\ Goto(s, "write") /\ manifest' = Nothing
    /\ optedIn' = optedIn \cup Allows([venv |-> NoVenv, entries |-> chosen[s]])
    /\ UNCHANGED <<use, chosen, unresolved, servers, floor>>

\* What is in the file once `list` is written over the start of it: of a
\* longer text that another process wrote meanwhile the rest stays.
Over(list) ==
    LET old == Loaded.entries
    IN  [venv |-> NoVenv, entries |-> list \o SubSeq(old, Len(list) + 1, Len(old))]

\* Where a rest stays and the two do not meet between entries, the text does
\* not parse.
WriteManifest(s) ==
    /\ point[s] = "write"
    /\ Goto(s, "end")
    /\ \/ manifest' = Over(chosen[s])
       \/ /\ manifest = Torn \/ Len(Loaded.entries) > Len(chosen[s])
          /\ manifest' = Torn
    /\ UNCHANGED <<use, chosen, unresolved, servers, floor, optedIn>>

\* Slip: an entry that does not say is exposed to the agent.
UnsaidForAgent == "agent"

\* What an entry is when it does not say, or was cut before it did.
Unsaid == "cli"

\* The process dies within the write: the first entries are there, and behind
\* them the rest of an older text (the same names in the same order, so an
\* entry begun over another is the one or the other) or an entry that lost
\* its exposure; or the text does not parse.
DieWriting(s) ==
    /\ point[s] = "write" /\ chosen[s] # <<>>
    /\ Goto(s, "dead")
    /\ \/ manifest' = Torn
       \/ \E n \in 0 .. Len(chosen[s]) : manifest' = Over(SubSeq(chosen[s], 1, n))
       \/ \E n \in 1 .. Len(chosen[s]) :
             /\ n >= Len(Loaded.entries)
             /\ manifest' = Over([SubSeq(chosen[s], 1, n) EXCEPT ![n].expose = Unsaid])
    /\ UNCHANGED <<use, chosen, unresolved, servers, floor, optedIn>>

-----------------------------------------------------------------------------
(* gila code, gila hotseat.                                                *)

\* agent_mcp_entries reads the manifest for the list ...
ListExposed(s) ==
    /\ use[s] = "code" /\ point[s] = "start"
    /\ unresolved' = [unresolved EXCEPT ![s] = AgentExposed(Loaded)]
    /\ Goto(s, IF AgentExposed(Loaded) = <<>> THEN "plain" ELSE "resolve")
    /\ servers' = [servers EXCEPT ![s] = OwnServers]
    /\ UNCHANGED <<use, manifest, chosen, floor, optedIn>>

\* Slip: a server of the same name is mounted once more.
MountAgain(list, server) == Append(list, server)

\* compose_agent_mcp, compose_hotseat_config: what is there wins.
Mount(list, server) ==
    IF \E i \in DOMAIN list : list[i].name = server.name THEN list
    ELSE Append(list, server)

\* ... and again for the venv of each (gilacap_for).
ResolveVenv(s) ==
    /\ point[s] = "resolve" /\ unresolved[s] # <<>>
    /\ LET name == Head(unresolved[s]).name
       IN  servers' = [servers EXCEPT ![s] =
               Mount(@, [name |-> name, venv |-> VenvOf(Loaded, name)])]
    /\ unresolved' = [unresolved EXCEPT ![s] = Tail(@)]
    /\ UNCHANGED <<use, point, manifest, chosen, floor, optedIn>>

\* The composed configuration is written and handed over, or the command
\* fails; with nothing exposed there is nothing to compose.
HandOver(s) ==
    /\ point[s] = "resolve" /\ unresolved[s] = <<>>
    /\ Goto(s, "tui") \/ Goto(s, "failed")
    /\ UNCHANGED <<use, manifest, chosen, unresolved, servers, floor, optedIn>>

\* compose_hotseat_config: the preset and the mode, and the proxy.
Composed == [floor |-> TRUE, servers |-> Mount(OwnServers, Modulex)]

Hotseat(s) ==
    /\ use[s] = "hotseat" /\ point[s] = "start"
    /\ floor' = [floor EXCEPT ![s] = Composed.floor]
    /\ servers' = [servers EXCEPT ![s] = Composed.servers]
    /\ Goto(s, "tui") \/ Goto(s, "failed")
    /\ UNCHANGED <<use, manifest, chosen, unresolved, optedIn>>

CapNext ==
    \E s \in Sessions :
        \/ Answer(s) \/ TruncateManifest(s) \/ WriteManifest(s) \/ DieWriting(s)
        \/ ListExposed(s) \/ ResolveVenv(s) \/ HandOver(s) \/ Hotseat(s)

CapSpec == CapInit /\ [][CapNext]_capVars

-----------------------------------------------------------------------------
(* Properties.                                                             *)

\* "Agent exposure is opt-in": however the writers of the manifest overlap or
\* die, a session mounts the operator's servers, untouched and first, and
\* beyond them only capabilities that some answer or edit of the operator's
\* exposes to the agent, in the venv it names or the default one, each under
\* a name that nothing else has; a hotseat session adds the proxy and nothing
\* else.
MountedIsOptedIn ==
    \A s \in Sessions : point[s] \in {"tui", "plain"} =>
        /\ \A i \in DOMAIN OwnServers : servers[s][i] = OwnServers[i]
        /\ \A i \in Len(OwnServers) + 1 .. Len(servers[s]), j \in DOMAIN servers[s] :
             servers[s][i].name = servers[s][j].name => i = j
        /\ \A i \in Len(OwnServers) + 1 .. Len(servers[s]) :
             IF use[s] = "hotseat" THEN floor[s] /\ servers[s][i] = Modulex
             ELSE servers[s][i] \in optedIn

=============================================================================
