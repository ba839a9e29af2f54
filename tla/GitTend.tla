------------------------------- MODULE GitTend -------------------------------
(***************************************************************************)
(* `gila git tend` (gila_git.rs, run_git of main.rs): the repositories of  *)
(* git-tend.yaml in turn, the steps of each repository's profiles in turn, *)
(* and the conflict strategy when a step fails.                            *)
(*                                                                         *)
(* A repository holds one piece of work of its operator's, which is in the *)
(* working tree, committed, pushed, stashed or lost; its remote may move   *)
(* ahead, and the operator may go on editing while it is tended.  git is   *)
(* outside of src/: a step does what the command does to that piece of     *)
(* work, and any of them may fail.  Without an upstream there is nothing   *)
(* to reset to.                                                            *)
(*                                                                         *)
(* Bound: the operator returns to the work MaxEdits times.                 *)
(***************************************************************************)
EXTENDS Naturals, Sequences, SequencesExt

CONSTANTS
    Repos,       \* repos: sequence of [profiles, strategy], either may be Default
    Known,       \* profiles: the steps of each profile
    Default,     \* what a repository does not say
    DefaultProfiles, DefaultStrategies,
    MaxEdits

VARIABLES
    strategy,   \* defaults.on_conflict
    dry,        \* --dry-run
    wanted,     \* --profile, or Default
    repo,       \* the repository being tended
    next,       \* its next step
    doing,      \* the loop: begin, step, conflict, reset, over
    stopped,    \* the repositories whose report says failed
    reached,    \* the repositories whose steps were gone through
    work,       \* where the work of each repository is
    behind,     \* the remote has commits the repository has not
    tracks,     \* the branch has an upstream
    edits       \* edits so far

setup == <<strategy, dry, wanted, tracks>>
tendVars == <<setup, repo, next, doing, stopped, reached, work, behind, edits>>

Index == 1 .. Len(Repos)

GitInit ==
    /\ strategy \in DefaultStrategies
    /\ dry \in BOOLEAN
    /\ wanted \in {Default} \cup DOMAIN Known
    /\ repo = 1 /\ next = 1 /\ doing = "begin"
    /\ stopped = {} /\ reached = {}
    /\ work = [r \in Index |-> "tree"]
    /\ behind = [r \in Index |-> FALSE]
    /\ tracks \in [Index -> BOOLEAN]
    /\ edits = 0

\* RepoConfig::profiles and conflict_strategy.
ProfilesOf(r) ==
    IF Repos[r].profiles = Default THEN DefaultProfiles ELSE Repos[r].profiles
StrategyOf(r) ==
    IF Repos[r].strategy = Default THEN strategy ELSE Repos[r].strategy

\* The YAML gives lists: of repositories, of names and of steps.
ASSUME ReposAssumption ==
    /\ Len(Repos) \in Nat
    /\ \A r \in Index : ProfilesOf(r) \in Seq(STRING)
    /\ \A name \in DOMAIN Known : Known[name] \in Seq(STRING)

\* The steps of a repository; a profile that is not defined has none.
StepsOf(r) ==
    FlattenSeq([i \in 1 .. Len(ProfilesOf(r)) |->
                  IF ProfilesOf(r)[i] \in DOMAIN Known THEN Known[ProfilesOf(r)[i]]
                  ELSE <<>>])

-----------------------------------------------------------------------------
(* Around the command.                                                     *)

Edit(r) ==
    /\ edits < MaxEdits /\ edits' = edits + 1
    /\ work[r] \notin {"tree", "lost"}
    /\ work' = [work EXCEPT ![r] = "tree"]
    /\ UNCHANGED <<setup, repo, next, doing, stopped, reached, behind>>

RemoteMoves(r) ==
    /\ ~behind[r]
    /\ behind' = [behind EXCEPT ![r] = TRUE]
    /\ UNCHANGED <<setup, repo, next, doing, stopped, reached, work, edits>>

-----------------------------------------------------------------------------
(* What git does.                                                          *)

\* commit takes the tree; with nothing to commit it is Skipped.  pull brings
\* the remote's commits where it need not touch the tree; push wants them.
Works(r, step) ==
    CASE step = "commit" -> TRUE
      [] step = "pull"   -> tracks[r] /\ (behind[r] => work[r] # "tree")
      [] step = "push"   -> tracks[r] /\ ~behind[r]
Effect(r, step) ==
    /\ work' = [work EXCEPT ![r] =
         CASE step = "commit" /\ @ = "tree"      -> "committed"
           [] step = "push"   /\ @ = "committed" -> "pushed"
           [] OTHER -> @]
    /\ behind' = [behind EXCEPT ![r] = @ /\ step # "pull"]

-----------------------------------------------------------------------------
(* tend_repo.                                                              *)

\* --profile leaves out the repositories that do not have it.
BeginRepo ==
    /\ doing = "begin"
    /\ IF repo > Len(Repos) THEN doing' = "over" /\ UNCHANGED <<repo, reached>>
       ELSE IF wanted # Default /\ ~Contains(ProfilesOf(repo), wanted)
       THEN repo' = repo + 1 /\ UNCHANGED <<doing, reached>>
       ELSE doing' = "step" /\ reached' = reached \cup {repo} /\ UNCHANGED repo
    /\ next' = 1
    /\ UNCHANGED <<setup, stopped, work, behind, edits>>

NextRepo == repo' = repo + 1 /\ doing' = "begin"

\* Slip: a preview runs its steps.
RunStepDry ==
    /\ doing = "step" /\ next <= Len(StepsOf(repo))
    /\ \E fails \in BOOLEAN :
         IF ~fails /\ Works(repo, StepsOf(repo)[next])
         THEN Effect(repo, StepsOf(repo)[next]) /\ next' = next + 1 /\ UNCHANGED doing
         ELSE doing' = "conflict" /\ UNCHANGED <<next, work, behind>>
    /\ UNCHANGED <<setup, repo, stopped, reached, edits>>

\* run_step: a preview is Ok and runs nothing.
RunStep ==
    /\ doing = "step" /\ next <= Len(StepsOf(repo))
    /\ \E fails \in BOOLEAN :
         IF dry THEN next' = next + 1 /\ UNCHANGED <<doing, work, behind>>
         ELSE IF ~fails /\ Works(repo, StepsOf(repo)[next])
         THEN Effect(repo, StepsOf(repo)[next]) /\ next' = next + 1 /\ UNCHANGED doing
         ELSE doing' = "conflict" /\ UNCHANGED <<next, work, behind>>
    /\ UNCHANGED <<setup, repo, stopped, reached, edits>>

StepsDone ==
    /\ doing = "step" /\ next > Len(StepsOf(repo))
    /\ NextRepo
    /\ UNCHANGED <<setup, next, stopped, reached, work, behind, edits>>

GoOn == doing' = "step" /\ next' = next + 1 /\ UNCHANGED <<repo, stopped>>

\* Slip: the first repository that fails ends the command.
StopTheCommand ==
    stopped' = stopped \cup {repo} /\ doing' = "over" /\ UNCHANGED <<repo, next>>

Stop == stopped' = stopped \cup {repo} /\ NextRepo /\ UNCHANGED next

Stash ==
    /\ StrategyOf(repo) = "Stash"
    /\ \/ Stop /\ UNCHANGED work
       \/ GoOn /\ work' = [work EXCEPT ![repo] = IF @ = "tree" THEN "stashed" ELSE @]

\* handle_conflict; a branch that was made keeps what is committed, and the
\* steps go on.  Overwrite fetches, if there is an upstream to reset to.
Conflict ==
    /\ doing = "conflict"
    /\ \/ StrategyOf(repo) = "Halt" /\ Stop /\ UNCHANGED <<work, behind>>
       \/ StrategyOf(repo) = "Skip" /\ GoOn /\ UNCHANGED <<work, behind>>
       \/ Stash /\ UNCHANGED behind
       \/ StrategyOf(repo) = "Branch" /\ (Stop \/ GoOn) /\ UNCHANGED <<work, behind>>
       \/ /\ StrategyOf(repo) = "Overwrite"
          /\ \/ Stop
             \/ tracks[repo] /\ doing' = "reset" /\ UNCHANGED <<repo, next, stopped>>
          /\ UNCHANGED <<work, behind>>
    /\ UNCHANGED <<setup, reached, edits>>

\* reset --hard to the branch that was fetched: what is not pushed is gone.
Reset ==
    /\ doing = "reset"
    /\ \/ Stop /\ UNCHANGED <<work, behind>>
       \/ /\ GoOn
          /\ work' = [work EXCEPT ![repo] = IF @ \in {"tree", "committed"} THEN "lost" ELSE @]
          /\ behind' = [behind EXCEPT ![repo] = FALSE]
    /\ UNCHANGED <<setup, reached, edits>>

TendStep == BeginRepo \/ RunStep \/ StepsDone \/ Conflict \/ Reset

GitNext == TendStep \/ \E r \in Index : Edit(r) \/ RemoteMoves(r)

GitSpec == GitInit /\ [][GitNext]_tendVars

-----------------------------------------------------------------------------
(* Properties.                                                             *)

Selected(r) == wanted = Default \/ Contains(ProfilesOf(r), wanted)

\* One repository's trouble is its own: when the command is over every
\* selected repository was gone through; and "ok" means something: under Halt
\* a repository that is not reported failed has had its work carried to the
\* remote by steps that commit and push.
EveryRepoIsTended ==
    doing = "over" =>
        /\ reached = {r \in Index : Selected(r)}
        /\ \A r \in reached \ stopped :
             StrategyOf(r) = "Halt" /\ ~dry /\ edits = 0
                 /\ IsSuffix(<<"commit", "pull", "push">>, StepsOf(r))
             => work[r] = "pushed"

\* Only Overwrite may discard work, and only of a repository it was set for;
\* a preview changes nothing at all.
WorkIsKept ==
    \A r \in Index :
        /\ work[r] = "lost" => StrategyOf(r) = "Overwrite" /\ r \in reached
        /\ dry => work[r] = "tree" /\ stopped = {}

\* Every repository is tended, and none at the price of work in it.
ReposAreTended == EveryRepoIsTended /\ WorkIsKept

=============================================================================
