------------------------------ MODULE Delegate ------------------------------
(***************************************************************************)
(* The shell delegate (delegate.rs, run_delegate of main.rs): a subcommand *)
(* gila does not have is handed to the other `gila`, the Python one, which *)
(* has the same name on PATH.  What is found there may be this binary, an  *)
(* alias of it, another installation of it, or a wrapper that runs one of  *)
(* them; every Rust hop passes on, in GILA_DELEGATE_SKIP, the candidates   *)
(* that were gone through.                                                 *)
(*                                                                         *)
(* A path names a file, which Real resolves; a wrapper is a script outside *)
(* of src/ that runs any Rust installation with the environment it got.    *)
(***************************************************************************)
EXTENDS Naturals, Sequences

CONSTANTS
    Paths,
    SearchPaths,   \* the values of PATH: sequences of candidates, dir/gila
    Explicits,     \* the values of GILABOT_BIN, or None
    None,
    Real,          \* canonicalize: the file of each path that exists
    Rust, Python, Wrappers,   \* what the files are
    Unjoinable     \* paths that a PATH-style list cannot hold

\* Real is a canonicalization of the installations.
ASSUME FilesAssumption ==
    /\ None \notin DOMAIN Real
    /\ Python \notin Rust
    /\ \A path \in Rust \cap DOMAIN Real : Real[path] = path
    /\ SearchPaths \subseteq Seq(Paths)

VARIABLES
    search, explicit,   \* the environment
    own,                \* the running Rust binary; current_exe may fail
    knowsOwn,
    excluded,           \* GILA_DELEGATE_SKIP, as the process got it
    at,                 \* resolve, running, python, missing, refused
    target,             \* the path being run
    tried               \* the files run so far

delegateVars == <<search, explicit, own, knowsOwn, excluded, at, target, tried>>

DelegateInit ==
    /\ search \in SearchPaths /\ explicit \in Explicits
    /\ own \in Rust /\ knowsOwn \in BOOLEAN
    /\ excluded = {} /\ at = "resolve" /\ target = None /\ tried = <<>>

IsFile(path) == path \in DOMAIN Real

\* The binary itself, or a file an earlier hop went through.
Traversed(path) ==
    \/ knowsOwn /\ Real[path] = own
    \/ \E item \in excluded : IsFile(item) /\ Real[item] = Real[path]

\* What this hop runs, if anything: resolve_gilabot takes the first of PATH
\* that is neither us nor traversed; an explicit path is the only candidate.
Admissible(path) == IsFile(path) /\ ~Traversed(path)
Resolved ==
    IF explicit # None
    THEN IF Admissible(explicit) THEN explicit ELSE None
    ELSE IF \E i \in DOMAIN search : Admissible(search[i])
    THEN search[CHOOSE i \in DOMAIN search :
                  /\ Admissible(search[i])
                  /\ \A j \in 1 .. i - 1 : ~Admissible(search[j])]
    ELSE None

\* Slip: a hop passes on only what it got.
PassedOnly(path) == excluded

\* The list for the next hop: what we got, ourselves, and what we run.
Passed(path) == excluded \cup {path} \cup (IF knowsOwn THEN {own} ELSE {})

\* run_delegate.
Resolve ==
    /\ at = "resolve"
    /\ IF Resolved = None
       THEN /\ at' = IF explicit = None THEN "missing" ELSE "refused"
            /\ UNCHANGED <<excluded, target, tried>>
       ELSE IF Passed(Resolved) \cap Unjoinable # {}
       THEN at' = "refused" /\ UNCHANGED <<excluded, target, tried>>
       ELSE /\ target' = Resolved /\ at' = "running"
            /\ tried' = Append(tried, Real[Resolved])
            /\ excluded' = Passed(Resolved)
    /\ UNCHANGED <<search, explicit, own, knowsOwn>>

\* The program that was run: Python answers, a Rust gila starts over, a
\* wrapper starts one.
Run ==
    /\ at = "running"
    /\ \/ Real[target] = Python /\ at' = "python" /\ UNCHANGED <<own, knowsOwn>>
       \/ /\ at' = "resolve" /\ own' \in Rust /\ knowsOwn' \in BOOLEAN
          /\ Real[target] \in Wrappers \/ Real[target] = own'
          /\ Real[target] # Python
    /\ UNCHANGED <<search, explicit, excluded, target, tried>>

DelegateNext == Resolve \/ Run

DelegateSpec == DelegateInit /\ [][DelegateNext]_delegateVars

-----------------------------------------------------------------------------
(* Properties.                                                             *)

\* "A subsequent hop searches past them instead of bouncing forever": no file
\* is run twice however the wrappers lead, and where Python is on PATH and
\* nothing else was demanded, the chain does not end without it.
HopsSearchPast ==
    /\ \A i, j \in DOMAIN tried : tried[i] = tried[j] => i = j
    /\ at = "missing" => \A i \in DOMAIN search :
                           IsFile(search[i]) => Real[search[i]] # Python

=============================================================================
