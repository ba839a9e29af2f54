--------------------------- MODULE JupyterCommand ---------------------------
(***************************************************************************)
(* The command line and the environment `gila jupyter start` gives its     *)
(* child: parse_extra_args and start_server of gila_jupyter.rs, and how a  *)
(* child reads them, as the repository's own stand-in for Jupyter does     *)
(* (bin/gila-jupyter-fixture.rs): the last value of an option wins.        *)
(*                                                                         *)
(* An argument is a name; Joined says which of them are an option and its  *)
(* value in one, and Routes which values are a default_url, and the form   *)
(* they are normalised to.                                                 *)
(***************************************************************************)
EXTENDS Naturals, Sequences

Seqs == INSTANCE SequencesExt

CONSTANTS
    Extras,       \* the arguments an operator may write after --extra
    RouteFlag,    \* "--ServerApp.default_url"
    Joined,       \* argument "flag=value" -> [flag, value]
    Routes,       \* value -> what normalize_expected_default_url makes of it
    Switches,     \* flags of the stand-in without a value
    Valued,       \* and with one
    Founds,       \* what may be found in the working directory
    Callers,      \* the environments of the caller: sets of names
    Allowed       \* CHILD_ENV_ALLOWLIST

VARIABLES
    standIn,      \* built with the feature jupyter-test-fixture
    extra, browser, workdir, caller,   \* what a start is asked for, and where
    index, route, forwarded,         \* parse_extra_args
    step,         \* "parse", "launch", "spawned", "refused"
    line, env     \* what the child is given

lineVars ==
    <<standIn, extra, browser, workdir, caller, index, route, forwarded, step, line, env>>
askedFor == <<standIn, extra, browser, workdir, caller>>

NoRoute == "none"

LineInit ==
    /\ standIn \in BOOLEAN /\ browser \in BOOLEAN
    /\ extra \in Extras /\ workdir \in Founds /\ caller \in Callers
    /\ index = 1 /\ route = NoRoute /\ forwarded = <<>>
    /\ step = "parse" /\ line = <<>> /\ env = <<>>

-----------------------------------------------------------------------------
(* parse_extra_args.                                                       *)

\* The value of the option at the index, and where the next one is; an option
\* at the end has none.
Argument == extra[index]
IsJoined(flags) == Argument \in DOMAIN Joined /\ Joined[Argument].flag \in flags
IsOption(flags) == Argument \in flags \/ IsJoined(flags)
HasValue == IsJoined({Joined[a].flag : a \in DOMAIN Joined}) \/ index < Len(extra)
Value == IF Argument \in DOMAIN Joined THEN Joined[Argument].value ELSE extra[index + 1]
Flag  == IF Argument \in DOMAIN Joined THEN Joined[Argument].flag ELSE Argument
Skip  == index' = index + (IF Argument \in DOMAIN Joined THEN 1 ELSE 2)

RefuseLine == step' = "refused" /\ UNCHANGED <<index, route, forwarded>>

\* Slip: a second default_url replaces the first.
TakeLastRoute ==
    IF HasValue /\ Value \in DOMAIN Routes
    THEN route' = Routes[Value] /\ Skip /\ UNCHANGED <<forwarded, step>>
    ELSE RefuseLine

\* default_url, at most once, and only a path.
TakeRoute ==
    IF HasValue /\ route = NoRoute /\ Value \in DOMAIN Routes
    THEN route' = Routes[Value] /\ Skip /\ UNCHANGED <<forwarded, step>>
    ELSE RefuseLine

\* What only the stand-in understands is handed on, split from its flag.
TakeFixture ==
    IF Argument \in Switches
    THEN /\ forwarded' = Append(forwarded, Argument) /\ index' = index + 1
         /\ UNCHANGED <<route, step>>
    ELSE IF HasValue /\ (Argument \in DOMAIN Joined => Value # "")
    THEN forwarded' = forwarded \o <<Flag, Value>> /\ Skip /\ UNCHANGED <<route, step>>
    ELSE RefuseLine

\* Slip: options Gila does not set itself are handed on.
ParseDenied ==
    /\ step = "parse" /\ index <= Len(extra)
    /\ IF IsOption({RouteFlag}) THEN TakeRoute
       ELSE IF IsOption(Valued \cup {"--port", "--ip"}) \/ Argument \in Switches
       THEN TakeFixture
       ELSE RefuseLine
    /\ UNCHANGED <<askedFor, line, env>>

\* Everything else is refused, before anything is spawned.
ParseArgument ==
    /\ step = "parse" /\ index <= Len(extra)
    /\ IF IsOption({RouteFlag}) THEN TakeRoute
       ELSE IF standIn /\ (IsOption(Valued) \/ Argument \in Switches) THEN TakeFixture
       ELSE RefuseLine
    /\ UNCHANGED <<askedFor, line, env>>

Parsed ==
    /\ step = "parse" /\ index > Len(extra)
    /\ step' = "launch"
    /\ UNCHANGED <<askedFor, index, route, forwarded, line, env>>

-----------------------------------------------------------------------------
(* The command.                                                            *)

\* The first environment manager found in the working directory.
Managers ==
    <<[file |-> "pixi.toml", run |-> <<"pixi", "run", "--executable", "jupyter">>],
      [file |-> "pyproject.toml with tool.uv", run |-> <<"uv", "run", "jupyter">>],
      [file |-> "environment.yml",
       run |-> <<"conda", "run", "--file", "environment.yml", "jupyter">>],
      [file |-> ".venv/bin/jupyter", run |-> <<".venv/bin/jupyter">>]>>
Launcher ==
    LET here == {i \in DOMAIN Managers : Managers[i].file \in workdir} IN
    IF here = {} THEN <<"jupyter">> ELSE Managers[CHOOSE i \in here : \A j \in here : i <= j].run

Asked == IF route = NoRoute THEN "/tree" ELSE route
Controlled ==
    <<"--config", "own config",
      "--NotebookApp.default_url", Asked, "--ServerApp.default_url", Asked,
      "--JupyterNotebookApp.default_url", Asked, "--port", "own port", "--ip", "own ip">>

Line ==
    Launcher \o <<"notebook">> \o forwarded
        \o (IF browser THEN <<>> ELSE <<"--no-browser">>) \o Controlled

\* The caller's environment, cut to the names that are passed back, and the
\* two files of this instance.
OwnFiles == {"JUPYTER_TOKEN_FILE", "JUPYTER_RUNTIME_DIR"}
Environment ==
    [name \in (caller \cap Allowed) \cup OwnFiles |->
        IF name \in OwnFiles THEN "own" ELSE "caller"]

Launch ==
    /\ step = "launch"
    /\ line' = Line /\ env' = Environment
    /\ step' = "spawned"
    /\ UNCHANGED <<askedFor, index, route, forwarded>>

LineNext == ParseArgument \/ Parsed \/ Launch

LineSpec == LineInit /\ [][LineNext]_lineVars

-----------------------------------------------------------------------------
(* The child: each option takes what follows it, the last one counts.      *)

Options == {"--config", "--ServerApp.default_url", "--port", "--ip"}

\* What Gila writes itself and the child does not read as an option of these.
OwnWords ==
    {"pixi", "uv", "conda", "run", "--executable", "--file", "environment.yml",
     ".venv/bin/jupyter", "jupyter", "notebook", "--no-browser",
     "--NotebookApp.default_url", "--JupyterNotebookApp.default_url", "/tree"}

\* An argument is one kind of thing, an option of the stand-in is not a word
\* of Gila's, and a default page is a path.
ASSUME FlagsAssumption ==
    /\ DOMAIN Joined \cap ({RouteFlag} \cup Switches \cup Valued) = {}
    /\ RouteFlag \notin Switches \cup Valued
    /\ Switches \cap (Valued \cup Options) = {}
    /\ Valued \cap OwnWords = {}
    /\ \A v \in DOMAIN Routes : Routes[v] \notin Options \cup Valued \cup {NoRoute}
    /\ \A words \in Extras : words \in Seq(Seqs!ToSet(words))

\* An argument is read as an option unless the option before it takes it.
Understood(option) ==
    LET read[i \in 1 .. Len(line)] ==
            i = 1 \/ ~(read[i - 1] /\ line[i - 1] \in Options \cup Valued)
        places == {i \in 1 .. Len(line) - 1 : line[i] = option /\ read[i]}
    IN line[(CHOOSE i \in places : \A j \in places : j <= i) + 1]

-----------------------------------------------------------------------------
(* Properties                                                              *)

\* What may be written after --extra: options with their values, one default_url
\* at most, and of the stand-in's only in its build.
OptionGroups(flags, values) ==
    {<<f, v>> : f \in flags, v \in values}
        \cup {<<a>> : a \in {a \in DOMAIN Joined :
                                Joined[a].flag \in flags /\ Joined[a].value \in values}}
RouteGroups == OptionGroups({RouteFlag}, DOMAIN Routes)
FixtureGroups ==
    {g \in OptionGroups(Valued, Seqs!ToSet(extra) \cup {Joined[a].value : a \in DOMAIN Joined})
              : Len(g) = 1 => Joined[g[1]].value # ""}
        \cup {<<f>> : f \in Switches}
Acceptable ==
    \E groups \in UNION {[1 .. n -> RouteGroups \cup (IF standIn THEN FixtureGroups ELSE {})]
                            : n \in 0 .. Len(extra)} :
        /\ extra = Seqs!FlattenSeq(groups)
        /\ \A i, j \in DOMAIN groups :
              {groups[i], groups[j]} \subseteq RouteGroups => i = j

\* Whatever is written after --extra, the child listens where Gila looks for it,
\* with Gila's configuration, secrets and default page; and only what is on the
\* exact list gets a start as far as a child (parse_extra_args, "a denylist or
\* 'Gila flags come last' is not a security boundary").
ChildIsControlled ==
    /\ step = "spawned" =>
          /\ Acceptable
          /\ Understood("--config") = "own config"
          /\ Understood("--port") = "own port"
          /\ Understood("--ip") = "own ip"
          /\ Understood("--ServerApp.default_url") = Asked
          /\ \A name \in DOMAIN env : name \in OwnFiles <=> env[name] = "own"
    /\ step = "refused" => ~Acceptable
=============================================================================
