---------------------------- MODULE JupyterProofs ----------------------------
(***************************************************************************)
(* Proofs about the parts of `gila jupyter` that keep no state from one    *)
(* command to the next: the private directories, the list, the start and   *)
(* its log, and a notebook run, for any number of commands, workers,       *)
(* records, handles and cells.                                             *)
(***************************************************************************)
EXTENDS PrivateState, JupyterCommand, JupyterStatus, JupyterStartup, NotebookRun,
        JupyterLog,
        FiniteSetTheorems, SequenceTheorems, WellFoundedInduction, TLAPS

-----------------------------------------------------------------------------
(* However many commands make the private directories at the same time,    *)
(* what one of them uses is private and stays so, and none is refused but  *)
(* for what is not the user's doing.                                       *)
(*                                                                         *)
(* The reason is that a path only ever gets better: once something is      *)
(* there its kind stays, what is private stays private, and what belongs   *)
(* to somebody else stays theirs (Steady).  With what each command knows   *)
(* of the path it is at (Fine), that makes the property inductive.         *)
PrivateAt(p) ==
    there[p].kind = KindOf(p) /\ (there[p].owner = "user" \/ privileged) /\ there[p].closed

InTheWay(p) ==
    there[p].kind \notin {"absent", KindOf(p)} \/ ~Yields(p)

\* What a command knows of the path it is at, of those behind it, and of why
\* it was refused.
Fine(c) ==
    /\ phase[c] = "make" /\ PathOf(c) # "root" =>
         there[PathOf(c)].kind \in {"absent", KindOf(PathOf(c))}
    /\ phase[c] = "again" => PathOf(c) # "lock" /\ there[PathOf(c)].kind # "absent"
    /\ phase[c] = "secure" => there[PathOf(c)].kind = KindOf(PathOf(c))
    /\ phase[c] = "ready" => nth[c] = 4
    /\ \A i \in Behind(c) : PrivateAt(Errands[i])
    /\ phase[c] = "refused" => home # "absolute" \/ \E p \in Paths : InTheWay(p)

PInv == PrivateTypeOK /\ \A c \in Cmds : Fine(c)

\* How a path may change in a step.
Steady ==
    /\ windows' = windows /\ privileged' = privileged /\ home' = home
    /\ \A p \in Paths :
         /\ there[p].kind # "absent" => there'[p].kind = there[p].kind
         /\ p # "root" => there'[p].kind \in {there[p].kind, KindOf(p)}
         /\ PrivateAt(p) => PrivateAt(p)'
         /\ there[p].owner \notin Own => there'[p].owner = there[p].owner

LEMMA ErrandPaths ==
    /\ Errands = <<"root", "lock", "root", "logs">>
    /\ \A i \in 1 .. 4 : Errands[i] \in Paths
    /\ Len(Errands) = 4
BY DEF Errands, Paths

(* What is there is an absence, or a thing of one of three kinds.          *)
LEMMA ThingTypes ==
    ASSUME PrivateTypeOK
    PROVE  /\ DOMAIN there = Paths
           /\ \A p \in Paths :
                there[p] = [kind |-> there[p].kind, owner |-> there[p].owner,
                            closed |-> there[p].closed]
BY DEF PrivateTypeOK, Things, Absent

(* Nothing that is there is taken away, changed in kind or given away.     *)
LEMMA StepsAreSteady ==
    ASSUME PInv, PrivateNext
    PROVE  Steady
<1> USE ErrandPaths DEF PrivateTypeOK
<1>1. ASSUME UNCHANGED <<windows, privileged, home, there>>
      PROVE  Steady
  BY <1>1 DEF Steady, PrivateAt
<1>2. ASSUME NEW p \in Paths, Created(p), there[p].kind = "absent",
             UNCHANGED <<windows, privileged, home>>
      PROVE  Steady
  <2>1. /\ there'[p] = Private(p)
        /\ \A q \in Paths \ {p} : there'[q] = there[q]
    BY <1>2, ThingTypes DEF Created, PInv
  <2>2. there[p].owner \in Own
    BY <1>2 DEF PInv, Things, Absent, Own
  <2> QED
    BY <1>2, <2>1, <2>2 DEF Steady, PrivateAt, Private, Own
<1>3. ASSUME NEW c \in Cmds, Resolve(c) \/ Look(c) \/ Again(c) \/ Die(c)
      PROVE  Steady
  BY <1>1, <1>3 DEF Resolve, Look, Again, Die
<1>4. ASSUME NEW c \in Cmds, MakeRoot(c)
      PROVE  Steady
  BY <1>1, <1>2, <1>4 DEF MakeRoot, Refuse, Paths
<1>5. ASSUME NEW c \in Cmds, MakeLogs(c)
      PROVE  Steady
  BY <1>1, <1>2, <1>5 DEF MakeLogs, Paths
<1>6. ASSUME NEW c \in Cmds, OpenLock(c)
      PROVE  Steady
  <2>1. CASE there["lock"].kind = "absent" /\ windows
    <3>1. PICK o \in Own : there' = [there EXCEPT !["lock"] =
                             [kind |-> "file", owner |-> o, closed |-> FALSE]]
      BY <1>6, <2>1 DEF OpenLock
    <3>2. /\ there'["lock"].kind = "file"
          /\ \A q \in Paths \ {"lock"} : there'[q] = there[q]
          /\ windows' = windows /\ privileged' = privileged /\ home' = home
      BY <1>6, <3>1, ThingTypes DEF OpenLock, PInv, Paths
    <3>3. there["lock"].owner \in Own
      BY <2>1 DEF PInv, Things, Absent, Own, Paths
    <3> QED
      BY <2>1, <3>2, <3>3 DEF Steady, PrivateAt, KindOf, Paths
  <2>2. CASE there["lock"].kind = "absent" /\ ~windows
    BY <1>2, <1>6, <2>2 DEF OpenLock, Paths, PInv
  <2>3. CASE there["lock"].kind # "absent"
    BY <1>1, <1>6, <2>3 DEF OpenLock, Refuse
  <2> QED
    BY <2>1, <2>2, <2>3 DEF PInv
<1>7. ASSUME NEW c \in Cmds, Secure(c)
      PROVE  Steady
  <2>1. CASE ~(RightKind(PathOf(c)) /\ Yields(PathOf(c)))
    BY <1>1, <1>7, <2>1 DEF Secure, Refuse
  <2>2. CASE RightKind(PathOf(c)) /\ Yields(PathOf(c))
    <3> DEFINE p == PathOf(c)
    <3>1. p \in Paths
      BY DEF PathOf, PInv
    <3>2. /\ there'[p].kind = there[p].kind
          /\ there'[p].owner = IF windows THEN "user" ELSE there[p].owner
          /\ there'[p].closed
          /\ \A q \in Paths \ {p} : there'[q] = there[q]
          /\ windows' = windows /\ privileged' = privileged /\ home' = home
      BY <1>7, <2>2, <3>1, ThingTypes DEF Secure, Closed, PInv
    <3>3. there[p].owner \notin Own => there'[p].owner = there[p].owner
      BY <2>2, <3>2 DEF Yields, PInv
    <3>4. ASSUME NEW r \in Paths, r = p, PrivateAt(r)
          PROVE  PrivateAt(r)'
      BY <3>2, <3>4 DEF PrivateAt, KindOf
    <3> HIDE DEF p
    <3> QED
      BY <3>1, <3>2, <3>3, <3>4 DEF Steady, PrivateAt
  <2> QED
    BY <2>1, <2>2
<1>8. CASE NameTaken
  <2>1. /\ there["root"].kind = "absent"
        /\ \A q \in Paths \ {"root"} : there'[q] = there[q]
        /\ windows' = windows /\ privileged' = privileged /\ home' = home
    BY <1>8, ThingTypes DEF NameTaken, PInv
  <2>2. there["root"].owner \in Own
    BY <2>1 DEF PInv, Things, Absent, Own, Paths
  <2> QED
    BY <2>1, <2>2 DEF Steady, PrivateAt, KindOf
<1> QED
  BY <1>3, <1>4, <1>5, <1>6, <1>7, <1>8 DEF PrivateNext

(* A command that does not move in a steady step stays fine.               *)
LEMMA OthersStayFine ==
    ASSUME PInv, Steady, NEW c \in Cmds,
           phase'[c] = phase[c], nth'[c] = nth[c]
    PROVE  Fine(c)'
<1>1. Fine(c) /\ nth[c] \in 1 .. 4 /\ PathOf(c)' = PathOf(c) /\ PathOf(c) \in Paths
  BY ErrandPaths DEF PInv, PrivateTypeOK, PathOf
<1>2. \A i \in Behind(c)' : PrivateAt(Errands[i])'
  BY <1>1, ErrandPaths DEF Fine, Behind, Steady
<1>3. \A p \in Paths : InTheWay(p) => InTheWay(p)'
  BY DEF Steady, InTheWay, Yields, Own
<1> DEFINE p == PathOf(c)
<1>4. /\ there[p].kind # "absent" => there'[p].kind = there[p].kind
      /\ p # "root" => there'[p].kind \in {there[p].kind, KindOf(p)}
      /\ home' = home
  BY <1>1 DEF Steady
<1>5. (phase[c] = "refused" => home # "absolute" \/ \E q \in Paths : InTheWay(q))'
  BY <1>1, <1>3, <1>4 DEF Fine
<1>6. /\ phase[c] = "make" /\ p # "root" => there'[p].kind \in {"absent", KindOf(p)}
      /\ phase[c] = "again" => p # "lock" /\ there'[p].kind # "absent"
      /\ phase[c] = "secure" => there'[p].kind = KindOf(p)
  BY <1>1, <1>4 DEF Fine, KindOf
<1>7. phase'[c] = "ready" => nth'[c] = 4
  BY <1>1 DEF Fine
<1> HIDE DEF p
<1>8. PathOf(c)' = p
  BY <1>1 DEF p
<1> QED
  BY <1>2, <1>5, <1>6, <1>7, <1>8 DEF Fine

(* What is closed to everybody else is still a thing, or an absence.       *)
LEMMA ClosedIsAThing ==
    ASSUME NEW t \in Things \cup {Absent}
    PROVE  Closed(t) \in Things \cup {Absent}
<1>1. CASE t \in Things
  BY <1>1 DEF Things, Closed
<1>2. CASE t = Absent
  BY <1>2 DEF Absent, Closed
<1> QED
  BY <1>1, <1>2

LEMMA TypeIsKept ==
    ASSUME PrivateTypeOK, PrivateNext
    PROVE  PrivateTypeOK'
<1> USE ErrandPaths DEF PrivateTypeOK, Goto
<1>1. ASSUME NEW p \in Paths PROVE Private(p) \in Things
  BY DEF Private, Things, KindOf
<1>2. ASSUME NEW c \in Cmds, Resolve(c) \/ Look(c) \/ Again(c) \/ Die(c)
      PROVE  PrivateTypeOK'
  BY <1>2 DEF Resolve, Look, Again, Die
<1>3. ASSUME NEW c \in Cmds, MakeRoot(c) \/ MakeLogs(c)
      PROVE  PrivateTypeOK'
  BY <1>1, <1>3 DEF MakeRoot, MakeLogs, Refuse, Created, Paths
<1>4. ASSUME NEW c \in Cmds, OpenLock(c)
      PROVE  PrivateTypeOK'
  <2>1. \A o \in Own : [kind |-> "file", owner |-> o, closed |-> FALSE] \in Things
    BY DEF Own, Things
  <2> QED
    BY <1>1, <1>4, <2>1 DEF OpenLock, Refuse, Created, Paths
<1>5. ASSUME NEW c \in Cmds, Secure(c)
      PROVE  PrivateTypeOK'
  <2>1. PathOf(c) \in Paths
    BY DEF PathOf
  <2>2. there[PathOf(c)] \in Things \cup {Absent}
    BY <2>1
  <2>3. Closed(there[PathOf(c)]) \in Things \cup {Absent}
    BY <2>2, ClosedIsAThing
  <2>4. there' \in [Paths -> Things \cup {Absent}]
    BY <1>5, <2>1, <2>2, <2>3, ThingTypes DEF Secure, Refuse
  <2> QED
    BY <1>5, <2>4 DEF Secure, Refuse
<1>6. CASE NameTaken
  BY <1>6 DEF NameTaken, Makings
<1> QED
  BY <1>2, <1>3, <1>4, <1>5, <1>6 DEF PrivateNext

(* What a command has to show for the step it took, to be fine.            *)
LEMMA FineAgain ==
    ASSUME PInv, Steady, NEW c \in Cmds, NEW n \in 1 .. 4, n = nth[c],
           phase[c] \notin {"ready", "refused"},
           \/ nth'[c] = nth[c] /\ phase'[c] # "ready"
           \/ /\ PrivateAt(Errands[n])'
              /\ IF nth[c] = 4 THEN nth'[c] = 4 /\ phase'[c] = "ready"
                 ELSE nth'[c] = nth[c] + 1 /\ phase'[c] = "look",
           PathOf(c)' = Errands[nth'[c]],
           phase'[c] = "make" /\ PathOf(c)' # "root" =>
             there'[PathOf(c)'].kind \in {"absent", KindOf(PathOf(c)')},
           phase'[c] = "again" =>
             PathOf(c)' # "lock" /\ there'[PathOf(c)'].kind # "absent",
           phase'[c] = "secure" => there'[PathOf(c)'].kind = KindOf(PathOf(c)'),
           phase'[c] = "refused" => home # "absolute" \/ \E p \in Paths : InTheWay(p)
    PROVE  Fine(c)'
<1>1. \A p \in Paths : InTheWay(p) => InTheWay(p)'
  BY DEF Steady, InTheWay, Yields, Own
<1>2. (phase[c] = "refused" => home # "absolute" \/ \E q \in Paths : InTheWay(q))'
  BY <1>1 DEF Steady
<1>3. nth[c] \in 1 .. 4 /\ nth'[c] \in 1 .. 4
  BY DEF PInv, PrivateTypeOK
<1>4. \A i \in 1 .. 4 : i < nth[c] => PrivateAt(Errands[i])'
  BY ErrandPaths DEF PInv, Fine, Behind, Steady
<1>5. \A i \in Behind(c)' : PrivateAt(Errands[i])'
  <2>1. CASE nth'[c] = nth[c] /\ phase'[c] # "ready"
    BY <1>4, <2>1 DEF Behind
  <2>2. CASE ~(nth'[c] = nth[c] /\ phase'[c] # "ready")
    <3>1. PrivateAt(Errands[n])'
      BY <2>2
    <3>2. \A i \in Behind(c)' : i \in 1 .. 4 /\ (i < nth[c] \/ i = n)
      BY <1>3, <2>2 DEF Behind
    <3> QED
      BY <1>4, <3>1, <3>2
  <2> QED
    BY <2>1, <2>2
<1>6. phase'[c] = "ready" => nth'[c] = 4
  BY DEF PInv
<1> QED
  BY <1>2, <1>5, <1>6 DEF Fine

(* The command that takes a step knows what it needs of the next path.     *)
LEMMA ActorStaysFine ==
    ASSUME PInv, Steady, PrivateTypeOK', NEW c \in Cmds,
           \/ Resolve(c) \/ Look(c) \/ MakeRoot(c) \/ MakeLogs(c) \/ OpenLock(c)
           \/ Again(c) \/ Secure(c) \/ Die(c)
    PROVE  Fine(c)'
<1> USE ErrandPaths DEF PrivateTypeOK, Goto
<1> DEFINE p == PathOf(c)
<1>1. /\ p \in Paths /\ nth[c] \in 1 .. 4 /\ nth'[c] \in 1 .. 4
      /\ PathOf(c)' = Errands[nth'[c]]
      /\ p = Errands[nth[c]]
  BY DEF PathOf, PInv
<1>2. InTheWay(p) => \E q \in Paths : InTheWay(q)
  BY <1>1
<1>3. CASE Resolve(c)
  BY <1>1, <1>3, FineAgain DEF Resolve, PInv
<1>4. CASE Look(c)
  <2>1. nth'[c] = nth[c] /\ PathOf(c)' = p /\ there' = there
        /\ phase[c] = "look"
        /\ phase'[c] \in {"refused", "again", "make"}
    BY <1>1, <1>4 DEF Look, PInv
  <2>2. phase'[c] = "refused" => InTheWay(p)
    BY <1>1, <1>4 DEF Look, InTheWay, PInv
  <2>3. phase'[c] = "again" => p # "lock" /\ there[p].kind = "dir"
    BY <1>1, <1>4 DEF Look, PInv
  <2>4. phase'[c] = "make" => there[p].kind \in {"absent", KindOf(p)}
    BY <1>1, <1>4 DEF Look, PInv
  <2> HIDE DEF p
  <2> QED
    BY <1>1, <1>2, <2>1, <2>2, <2>3, <2>4, FineAgain
<1>5. CASE MakeRoot(c)
  <2>1. nth'[c] = nth[c] /\ PathOf(c)' = p /\ p = "root"
        /\ phase[c] = "make" /\ phase'[c] \in {"refused", "again"}
    BY <1>1, <1>5 DEF MakeRoot, Refuse, PInv
  <2>2. phase'[c] = "refused" => InTheWay(p)
    BY <1>1, <1>5 DEF MakeRoot, Refuse, InTheWay, KindOf, PInv
  <2>3. phase'[c] = "again" => there'[p].kind # "absent"
    BY <1>1, <1>5 DEF MakeRoot, Refuse, Created, Private, KindOf, PInv
  <2> HIDE DEF p
  <2> QED
    BY <1>1, <1>2, <2>1, <2>2, <2>3, FineAgain
<1>6. CASE MakeLogs(c)
  <2>1. nth'[c] = nth[c] /\ PathOf(c)' = p /\ p = "logs"
        /\ phase[c] = "make" /\ phase'[c] = "again"
    BY <1>1, <1>6 DEF MakeLogs, PInv
  <2>2. there'[p].kind # "absent"
    BY <1>1, <1>6 DEF MakeLogs, Created, Private, KindOf, PInv
  <2> HIDE DEF p
  <2> QED
    BY <1>1, <2>1, <2>2, FineAgain
<1>7. CASE OpenLock(c)
  <2>1. nth'[c] = nth[c] /\ PathOf(c)' = p /\ p = "lock"
        /\ phase[c] = "make" /\ phase'[c] \in {"refused", "secure"}
    BY <1>1, <1>7 DEF OpenLock, Refuse, PInv
  <2>2. there[p].kind \in {"absent", "file"} /\ KindOf(p) = "file"
    BY <2>1 DEF PInv, Fine, KindOf
  <2>3. phase'[c] = "refused" => InTheWay(p)
    BY <1>1, <1>7 DEF OpenLock, Refuse, InTheWay, Yields, Own, PInv
  <2>4. phase'[c] = "secure" => there'[p].kind = "file"
    BY <1>1, <1>7, <2>2 DEF OpenLock, Refuse, Created, Private, PInv
  <2> HIDE DEF p
  <2> QED
    BY <1>1, <1>2, <2>1, <2>2, <2>3, <2>4, FineAgain
<1>8. CASE Again(c)
  <2>1. nth'[c] = nth[c] /\ PathOf(c)' = p /\ there' = there
        /\ phase[c] = "again" /\ phase'[c] \in {"refused", "secure"}
    BY <1>1, <1>8 DEF Again, PInv
  <2>2. there[p].kind # "absent" /\ (phase'[c] = "secure" <=> there[p].kind = "dir")
    BY <1>1, <1>8, <2>1 DEF Again, PInv, Fine
  <2>3. p # "lock" /\ KindOf(p) = "dir"
    BY <2>1 DEF PInv, Fine, KindOf
  <2> HIDE DEF p
  <2> QED
    BY <1>1, <1>2, <2>1, <2>2, <2>3, FineAgain DEF InTheWay
<1>9. CASE Secure(c)
  <2>1. phase[c] = "secure" /\ there[p].kind = KindOf(p)
    BY <1>9 DEF Secure, PInv, Fine
  <2>2. CASE ~(RightKind(p) /\ Yields(p))
    <3>1. nth'[c] = nth[c] /\ PathOf(c)' = p /\ phase'[c] = "refused"
      BY <1>1, <1>9, <2>2 DEF Secure, Refuse, PInv
    <3>2. InTheWay(p)
      BY <2>1, <2>2 DEF RightKind, InTheWay
    <3> HIDE DEF p
    <3> QED
      BY <1>1, <1>2, <2>1, <3>1, <3>2, FineAgain
  <2>3. CASE RightKind(p) /\ Yields(p)
    <3>1. there'[p] = Closed(there[p])
      BY <1>1, <1>9, <2>3 DEF Secure, PInv
    <3>2. IF nth[c] = 4 THEN nth'[c] = 4 /\ phase'[c] = "ready"
          ELSE nth'[c] = nth[c] + 1 /\ phase'[c] = "look"
      BY <1>1, <1>9, <2>3 DEF Secure, PInv
    <3>3. PICK n \in 1 .. 4 : n = nth[c]
      BY <1>1
    <3>4. PrivateAt(Errands[n])'
      BY <1>1, <2>1, <2>3, <3>1, <3>3 DEF PrivateAt, Closed, Yields, Own, Steady
    <3> HIDE DEF p
    <3> QED
      BY <1>1, <2>1, <3>2, <3>3, <3>4, FineAgain
  <2> QED
    BY <2>2, <2>3
<1>10. CASE Die(c)
  BY <1>1, <1>10, FineAgain DEF Die, PInv
<1> QED
  BY <1>3, <1>4, <1>5, <1>6, <1>7, <1>8, <1>9, <1>10

(* PInv holds in the first state, survives every step, and is enough.      *)
LEMMA FirstIsPrivate == PrivateInit => PInv
BY ErrandPaths DEF PrivateInit, Makings, PInv, PrivateTypeOK, Fine, Behind

LEMMA StepsKeepPrivate ==
    ASSUME PInv, [PrivateNext]_privateVars
    PROVE  PInv'
<1>1. CASE UNCHANGED privateVars
  BY <1>1 DEF privateVars, PInv, PrivateTypeOK, Fine, Behind, PrivateAt, InTheWay,
              PathOf, Yields, Own
<1>2. CASE PrivateNext
  <2>1. PrivateTypeOK' /\ Steady
    BY <1>2, TypeIsKept, StepsAreSteady DEF PInv
  <2>2. ASSUME NEW c \in Cmds PROVE Fine(c)'
    <3>1. CASE phase'[c] = phase[c] /\ nth'[c] = nth[c]
      BY <2>1, <3>1, OthersStayFine
    <3>2. CASE ~(phase'[c] = phase[c] /\ nth'[c] = nth[c])
      <4>1. PICK d \in Cmds :
              \/ Resolve(d) \/ Look(d) \/ MakeRoot(d) \/ MakeLogs(d)
              \/ OpenLock(d) \/ Again(d) \/ Secure(d) \/ Die(d)
        BY <1>2, <3>2 DEF PrivateNext, NameTaken
      <4>2. \A e \in Cmds \ {d} : phase'[e] = phase[e] /\ nth'[e] = nth[e]
        BY <4>1 DEF PInv, PrivateTypeOK, Resolve, Look, MakeRoot, MakeLogs,
                    OpenLock, Again, Secure, Die, Refuse, Goto
      <4>3. c = d
        BY <3>2, <4>2
      <4> QED
        BY <2>1, <4>1, <4>3, ActorStaysFine
    <3> QED
      BY <3>1, <3>2
  <2> QED
    BY <2>1, <2>2 DEF PInv
<1> QED
  BY <1>1, <1>2

LEMMA PrivateIsEnough == PInv => StateIsPrivate
BY ErrandPaths DEF PInv, PrivateTypeOK, Fine, Behind, StateIsPrivate, UsedIsPrivate,
                   RefusedForAReason, PrivateAt, InTheWay

(* The states of the private paths stay what the model says they are.      *)
THEOREM PrivateTypesHold == PrivateSpec => []PrivateTypeOK
<1>1. PInv => PrivateTypeOK
  BY DEF PInv
<1> QED
  BY <1>1, FirstIsPrivate, StepsKeepPrivate, PTL DEF PrivateSpec

(* However many commands make root, lock and logs at the same time, and    *)
(* whatever takes the name of the root, what one uses is the user's, or a  *)
(* privileged user's to change, and closed to everybody else, and none is  *)
(* refused without a reason                                                *)
(* (initialize_registry_root, open_lock_file, ensure_private_directory).   *)
THEOREM StateStaysPrivate == PrivateSpec => []StateIsPrivate
BY FirstIsPrivate, StepsKeepPrivate, PrivateIsEnough, PTL DEF PrivateSpec

-----------------------------------------------------------------------------
(* For any number of records and workers, `gila jupyter list` summarises   *)
(* every record and calls none running that did not answer.                *)
(*                                                                         *)
(* What has left the queue and is not summarised is held by a worker       *)
(* (Claimed) and a worker that has gone holds nothing (Held): the three    *)
(* places a record can be in, between which it is handed over without a    *)
(* gap.                                                                    *)
Held ==
    \A w \in Workers :
        IF worker[w] \in {"verify", "request"}
        THEN holds[w] \in Index /\ holds[w] < front
        ELSE holds[w] = 0
Claimed ==
    \A i \in Index :
        i < front => results[i] # "none" \/ \E w \in Workers : holds[w] = i
Scoped == stage # "probing" => \A w \in Workers : worker[w] = "gone"
Bound == \A w \in Workers : worker[w] = "request" => holds[w] \notin Legacy \cup Broken

SInv == StatusTypeOK /\ Held /\ Claimed /\ Scoped /\ Bound /\ ListIsTrue

LEMMA FirstIsSound == StatusInit => SInv
<1> SUFFICES ASSUME StatusInit PROVE SInv
  OBVIOUS
<1> USE ListAssumption DEF StatusInit
<1>1. StatusTypeOK
  <2>1. front \in 1 .. N + 1 /\ holds \in [Workers -> 0 .. N]
    OBVIOUS
  <2>2. worker \in [Workers -> Places] /\ results \in [Index -> Summary]
    BY DEF Places, Summary
  <2> QED
    BY <2>1, <2>2 DEF StatusTypeOK
<1>2. Held /\ Claimed /\ Scoped /\ Bound
  BY DEF Held, Claimed, Scoped, Bound, Index
<1>3. ListIsTrue
  BY DEF ListIsTrue, EveryRecordSummarised, RunningAnswered
<1> QED
  BY <1>1, <1>2, <1>3 DEF SInv

(* A worker that only goes on with what it holds, or holds nothing.        *)
LEMMA MovingIsSound ==
    ASSUME SInv, NEW w \in Workers, NEW where \in Places, To(w, where),
           worker[w] # "gone",
           UNCHANGED <<stage, front, holds, results, world, overdue, served>>,
           (where \in {"verify", "request"}) <=> (worker[w] \in {"verify", "request"}),
           where = "request" => holds[w] \notin Legacy \cup Broken
    PROVE  SInv'
<1> USE DEF SInv, StatusTypeOK, To
<1>1. /\ worker' \in [Workers -> Places]
      /\ worker'[w] = where
      /\ \A v \in Workers \ {w} : worker'[v] = worker[v]
  OBVIOUS
<1>2. Held'
  BY <1>1 DEF Held, Index
<1>3. Claimed'
  BY DEF Claimed, Index
<1>4. Scoped' /\ Bound'
  BY <1>1 DEF Scoped, Bound
<1>5. ListIsTrue'
  BY DEF ListIsTrue, EveryRecordSummarised, RunningAnswered, Index
<1> QED
  BY <1>1, <1>2, <1>3, <1>4, <1>5 DEF Index

(* A worker that puts down what it held, summarised.                       *)
LEMMA SummarisingIsSound ==
    ASSUME SInv, NEW w \in Workers, NEW summary \in {"running", "unreachable"},
           worker[w] \in {"verify", "request"},
           Summarise(w, summary),
           UNCHANGED <<stage, front, world, overdue>>,
           served' \subseteq Index, served \subseteq served',
           summary = "running" => holds[w] \in served' \ (Legacy \cup Broken)
    PROVE  SInv'
<1> USE DEF SInv, StatusTypeOK, To, Summarise
<1>1. /\ holds[w] \in Index /\ holds[w] < front
      /\ worker' \in [Workers -> Places] /\ worker'[w] = "clock"
      /\ \A v \in Workers \ {w} : worker'[v] = worker[v]
      /\ holds' \in [Workers -> 0 .. N] /\ holds'[w] = 0
      /\ \A v \in Workers \ {w} : holds'[v] = holds[v]
      /\ results' \in [Index -> Summary] /\ results'[holds[w]] = summary
      /\ \A i \in Index \ {holds[w]} : results'[i] = results[i]
  BY ListAssumption DEF Held, Places, Summary
<1>2. Held'
  BY <1>1 DEF Held, Index
<1>3. Claimed'
  <2> SUFFICES ASSUME NEW i \in Index, i < front
               PROVE  results'[i] # "none" \/ \E v \in Workers : holds'[v] = i
    BY DEF Claimed, Index
  <2>1. CASE i = holds[w]
    BY <1>1, <2>1
  <2>2. CASE i # holds[w]
    BY <1>1, <2>2 DEF Claimed
  <2> QED
    BY <2>1, <2>2
<1>4. Scoped' /\ Bound'
  BY <1>1 DEF Scoped, Bound
<1>5. ListIsTrue'
  BY <1>1 DEF ListIsTrue, EveryRecordSummarised, RunningAnswered, Index
<1> QED
  BY <1>1, <1>2, <1>3, <1>4, <1>5 DEF Index

LEMMA TakingIsSound ==
    ASSUME SInv, NEW w \in Workers, Take(w), front =< N
    PROVE  SInv'
<1> USE DEF SInv, StatusTypeOK, To, Take
<1>1. /\ front \in Index /\ front' = front + 1 /\ front' \in 1 .. N + 1
      /\ worker' \in [Workers -> Places] /\ worker'[w] = "verify"
      /\ \A v \in Workers \ {w} : worker'[v] = worker[v]
      /\ holds' \in [Workers -> 0 .. N] /\ holds'[w] = front
      /\ \A v \in Workers \ {w} : holds'[v] = holds[v]
      /\ holds[w] = 0 /\ worker[w] = "take"
  <2>1. front \in Index /\ front \in 0 .. N /\ front' = front + 1 /\ front' \in 1 .. N + 1
    BY ListAssumption DEF Index
  <2>2. /\ worker' \in [Workers -> Places] /\ worker'[w] = "verify"
        /\ \A v \in Workers \ {w} : worker'[v] = worker[v]
    BY DEF Places
  <2>3. /\ holds' \in [Workers -> 0 .. N] /\ holds'[w] = front
        /\ \A v \in Workers \ {w} : holds'[v] = holds[v]
    BY <2>1
  <2>4. holds[w] = 0 /\ worker[w] = "take"
    BY DEF Held
  <2> QED
    BY <2>1, <2>2, <2>3, <2>4
<1>2. Held'
  BY <1>1 DEF Held, Index
<1>3. Claimed'
  <2> SUFFICES ASSUME NEW i \in Index, i < front + 1
               PROVE  results[i] # "none" \/ \E v \in Workers : holds'[v] = i
    BY <1>1 DEF Claimed, Index
  <2>1. CASE i = front
    BY <1>1, <2>1
  <2>2. CASE i < front
    <3>1. \A v \in Workers : holds[v] = i => v # w
      BY <1>1 DEF Index
    <3> QED
      BY <1>1, <2>2, <3>1 DEF Claimed
  <2> QED
    BY <1>1, <2>1, <2>2 DEF Index
<1>4. Scoped' /\ Bound'
  BY <1>1 DEF Scoped, Bound
<1>5. ListIsTrue'
  BY <1>1 DEF ListIsTrue, EveryRecordSummarised, RunningAnswered, Index
<1> QED
  BY <1>1, <1>2, <1>3, <1>4, <1>5 DEF Index

(* When the workers have gone, nothing is held: all that is not in the     *)
(* queue is summarised.                                                    *)
LEMMA RestIsSound ==
    ASSUME SInv, SummariseRest
    PROVE  SInv'
<1> USE DEF SInv, StatusTypeOK, SummariseRest
<1>1. \A w \in Workers : worker[w] = "gone" /\ holds[w] = 0
  BY DEF Scoped, Held
<1>2. \A i \in Index : results'[i] # "none" /\ (results'[i] = "running" => results[i] = "running")
  BY <1>1 DEF Claimed, Index
<1>3. stage' = "listed" /\ results' \in [Index -> Summary]
  BY <1>2 DEF Summary
<1>4. Held' /\ Claimed' /\ Scoped' /\ Bound'
  BY <1>1, <1>2 DEF Held, Claimed, Scoped, Bound, Index
<1>5. ListIsTrue'
  BY <1>2, <1>3 DEF ListIsTrue, EveryRecordSummarised, RunningAnswered, Index
<1> QED
  BY <1>3, <1>4, <1>5 DEF Index

LEMMA StepsAreSound ==
    ASSUME SInv, [StatusNext]_statusVars
    PROVE  SInv'
<1>1. CASE UNCHANGED <<stage, front, worker, holds, results, served>>
            /\ world' \in [Index -> Worlds] /\ overdue' \in BOOLEAN
  BY <1>1 DEF SInv, StatusTypeOK, Held, Claimed, Scoped, Bound, ListIsTrue,
              EveryRecordSummarised, RunningAnswered, Index
<1>2. CASE UNCHANGED statusVars
  BY <1>1, <1>2 DEF statusVars, SInv, StatusTypeOK
<1>3. CASE TimeRunsOut
  BY <1>1, <1>3 DEF TimeRunsOut, SInv, StatusTypeOK
<1>4. ASSUME NEW i \in Index, WorldChanges(i) PROVE SInv'
  <2>1. world' \in [Index -> Worlds]
    BY <1>4 DEF WorldChanges, SInv, StatusTypeOK
  <2> QED
    BY <1>1, <1>4, <2>1 DEF WorldChanges, SInv, StatusTypeOK
<1>5. ASSUME NEW w \in Workers, MakeClient(w) \/ LookAtClock(w) PROVE SInv'
  <2>1. worker[w] \in {"client", "clock"}
    BY <1>5 DEF MakeClient, LookAtClock
  <2>2. PICK where \in {"clock", "take", "gone"} : To(w, where)
    BY <1>5 DEF MakeClient, LookAtClock
  <2> QED
    BY <1>5, <2>1, <2>2, MovingIsSound DEF MakeClient, LookAtClock, Places
<1>6. ASSUME NEW w \in Workers, Take(w) PROVE SInv'
  <2>1. CASE front =< N
    BY <1>6, <2>1, TakingIsSound
  <2>2. CASE ~(front =< N)
    BY <1>6, <2>2, MovingIsSound DEF Take, Places
  <2> QED
    BY <2>1, <2>2
<1>7. ASSUME NEW w \in Workers, Verify(w) PROVE SInv'
  <2>1. CASE Verified(holds[w])
    BY <1>7, <2>1, MovingIsSound DEF Verify, Verified, Places
  <2>2. CASE ~Verified(holds[w])
    BY <1>7, <2>2, SummarisingIsSound DEF Verify, SInv, StatusTypeOK
  <2> QED
    BY <2>1, <2>2
<1>8. ASSUME NEW w \in Workers, Request(w) PROVE SInv'
  <2>1. holds[w] \in Index /\ holds[w] \notin Legacy \cup Broken
        /\ worker[w] = "request"
    BY <1>8 DEF Request, SInv, Held, Bound
  <2>2. served' \subseteq Index /\ served \subseteq served'
    BY <1>8, <2>1 DEF Request, SInv, StatusTypeOK
  <2>3. CASE Healthy(holds[w]) /\ Summarise(w, "running")
    <3>1. holds[w] \in served' \ (Legacy \cup Broken)
      BY <1>8, <2>1, <2>3 DEF Request, Healthy
    <3> QED
      BY <1>8, <2>1, <2>2, <2>3, <3>1, SummarisingIsSound DEF Request
  <2>4. CASE Summarise(w, "unreachable")
    BY <1>8, <2>1, <2>2, <2>4, SummarisingIsSound DEF Request
  <2> QED
    BY <1>8, <2>3, <2>4 DEF Request
<1>9. CASE Join
  BY <1>9 DEF Join, SInv, StatusTypeOK, Held, Claimed, Scoped, Bound, ListIsTrue,
              EveryRecordSummarised, RunningAnswered, Index
<1>10. CASE SummariseRest
  BY <1>10, RestIsSound
<1> QED
  BY <1>2, <1>3, <1>4, <1>5, <1>6, <1>7, <1>8, <1>9, <1>10 DEF StatusNext, WorkerStep

(* The variables of list_servers keep their shapes.                        *)
THEOREM StatusTypesHold == StatusSpec => []StatusTypeOK
<1>1. SInv => StatusTypeOK
  BY DEF SInv
<1> QED
  BY <1>1, FirstIsSound, StepsAreSound, PTL DEF StatusSpec

(* For any number of records and of workers, whichever of them leave when  *)
(* and whatever becomes of the servers meanwhile: the `expect` in          *)
(* list_servers never panics, and what it lists as running answered.       *)
THEOREM ListStaysTrue == StatusSpec => []ListIsTrue
<1>1. SInv => ListIsTrue
  BY DEF SInv
<1> QED
  BY <1>1, FirstIsSound, StepsAreSound, PTL DEF StatusSpec

-----------------------------------------------------------------------------
(* A start.  It fails in two places: a wait that returned has reaped its   *)
(* child, and a guard that gave up has said so; and nothing comes after.   *)
(* A kill that was accepted has reached all of the tree, and what was      *)
(* killed starts nothing: that is why waiting for the leader is enough.    *)
StartInv ==
    /\ NothingLeftUnreported
    /\ dispatched => leader # "up" /\ rest # "up"
    /\ at = "wait" => dispatched
    /\ at \in {"new", "spawn"} => ~dispatched

LEMMA OutcomeStays == StartInv /\ [StartupNext]_startupVars => StartInv'
<1> SUFFICES ASSUME StartInv, [StartupNext]_startupVars
             PROVE  StartInv'
  OBVIOUS
<1> USE DEF StartInv, NothingLeftUnreported, tree, guard
<1>1. CASE Validate \/ Spawn
  BY <1>1 DEF Validate, Spawn
<1>2. CASE Poll \/ Discover \/ ReadInfo \/ Probe \/ KillSent
  BY <1>2 DEF Poll, Discover, ReadInfo, Probe, KillSent, Go
<1>3. CASE Check
  BY <1>3 DEF Check
<1>4. CASE Kill \/ WaitFails
  BY <1>4 DEF Kill, WaitFails, GiveUp, Doomed
<1>5. CASE Wait
  BY <1>5 DEF Wait
<1>6. CASE Announce \/ Withdraw \/ Answer \/ DeadlinePasses
  BY <1>6 DEF Announce, Withdraw, Answer, DeadlinePasses
<1>7. CASE Fork \/ ChildExits \/ RestExits
  BY <1>7 DEF Fork, ChildExits, RestExits
<1>8. CASE UNCHANGED startupVars
  BY <1>8 DEF startupVars
<1> QED
  BY <1>1, <1>2, <1>3, <1>4, <1>5, <1>6, <1>7, <1>8 DEF StartupNext, StartStep

(* Unless its error says so, a start that failed has reaped its child and  *)
(* left nothing of its process group running, however the child, what it   *)
(* had started, its server file and the clock behaved.                     *)
THEOREM FailuresAreReported == StartupSpec => []NothingLeftUnreported
<1>1. StartupInit => StartInv
  BY DEF StartupInit, StartInv, NothingLeftUnreported
<1>2. StartInv => NothingLeftUnreported
  BY DEF StartInv
<1> QED
  BY <1>1, <1>2, OutcomeStays, PTL DEF StartupSpec

-----------------------------------------------------------------------------
(* A notebook run.  What nbconvert went past has no error that is not      *)
(* allowed (Passed), the cell that stopped it has one (Blamed), and the    *)
(* file it saved holds what it has, as long as it can be read (InFile).    *)
Passed(i) == IsCode(i) /\ HasError(cells[i].outputs) => cells[i].allowed
Blamed(i) == i \in DOMAIN cells /\ IsCode(i) /\ HasError(cells[i].outputs)
InFile == saved = [i \in DOMAIN cells |-> cells[i].outputs]

Cells == [type : {"code", "markdown", "raw"}, allowed : BOOLEAN,
          outputs : Seq({"text", "error"})]

RunInv ==
    /\ cells \in Seq(Cells) /\ cell \in Nat \ {0}
    /\ success \in BOOLEAN /\ readable \in BOOLEAN /\ saves \in BOOLEAN
    /\ runPhase \in {"resolve", "convert", "parse", "done", "error"}
    /\ runPhase = "resolve" => cell = 1
    /\ runPhase \in {"resolve", "convert"} => raised = 0 /\ ~success
    /\ runPhase \in {"resolve", "convert"} =>
          \A i \in DOMAIN cells : i < cell => Passed(i)
    /\ runPhase = "parse" =>
          /\ success => cell > Len(cells) /\ \A i \in DOMAIN cells : Passed(i)
          /\ raised # 0 => Blamed(raised)
          /\ saves /\ readable => InFile
    /\ ReportNamesTheFailure

LEMMA RunStarts == RunInit => RunInv
<1> SUFFICES ASSUME RunInit PROVE RunInv
  OBVIOUS
<1>1. cells \in Seq(Cells)
  BY NotebooksAssumption DEF RunInit, Cells
<1>2. ReportNamesTheFailure
  BY DEF RunInit, ReportNamesTheFailure
<1>3. \A i \in DOMAIN cells : ~ (i < 1)
  BY <1>1
<1>4. /\ saves \in BOOLEAN /\ readable \in BOOLEAN /\ cell = 1 /\ runPhase = "resolve"
      /\ success = FALSE /\ raised = 0
  BY DEF RunInit
<1>5. \A i \in DOMAIN cells : i < cell => Passed(i)
  BY <1>3, <1>4
<1>6. success \in BOOLEAN /\ ~success
  BY DEF RunInit
<1>7. cell \in Nat \ {0}
  BY <1>4
<1> QED
  BY <1>1, <1>2, <1>4, <1>5, <1>6, <1>7 DEF RunInv

\* What a cell that was executed leaves: an error comes last.
LEMMA LastTells ==
    ASSUME NEW o \in {<<>>, <<"text">>, <<"error">>, <<"text", "error">>}
    PROVE  /\ HasError(o) <=> Len(o) > 0 /\ o[Len(o)] = "error"
           /\ o \in Seq({"text", "error"})
<1>1. CASE o = <<>>
  BY <1>1 DEF HasError
<1>2. CASE o = <<"text">>
  <2>1. Len(o) = 1 /\ DOMAIN o = 1 .. 1 /\ o[1] = "text"
    BY <1>2
  <2>2. o \in Seq({"text", "error"})
    BY <1>2
  <2> QED
    BY <2>1, <2>2 DEF HasError
<1>3. CASE o = <<"error">>
  <2>1. Len(o) = 1 /\ DOMAIN o = 1 .. 1 /\ o[1] = "error"
    BY <1>3
  <2>2. o \in Seq({"text", "error"})
    BY <1>3
  <2> QED
    BY <2>1, <2>2 DEF HasError
<1>4. CASE o = <<"text", "error">>
  <2>1. Len(o) = 2 /\ DOMAIN o = 1 .. 2 /\ o[1] = "text" /\ o[2] = "error"
    BY <1>4
  <2>2. o \in Seq({"text", "error"})
    BY <1>4
  <2> QED
    BY <2>1, <2>2 DEF HasError
<1> QED
  BY <1>1, <1>2, <1>3, <1>4

LEMMA RunStays == RunInv /\ [RunNext]_runVars => RunInv'
<1> SUFFICES ASSUME RunInv, [RunNext]_runVars PROVE RunInv'
  OBVIOUS
<1>1. CASE ResolveNotebook
  <2>1. /\ runPhase = "resolve" /\ runPhase' \in {"convert", "error"}
        /\ UNCHANGED <<cells, saved, saves, readable, cell, success, raised, summaries>>
    BY <1>1 DEF ResolveNotebook
  <2>2. \A i \in DOMAIN cells : Passed(i)' = Passed(i)
    BY <2>1 DEF Passed, IsCode
  <2> QED
    BY <2>1, <2>2 DEF RunInv, ReportNamesTheFailure
<1>2. CASE ConvertCell
  <2>1. /\ runPhase = "convert" /\ readable /\ cell <= Len(cells)
        /\ UNCHANGED <<saves, success, summaries>> /\ ~success /\ raised = 0
        /\ cells \in Seq(Cells) /\ cell \in Nat \ {0} /\ saves \in BOOLEAN
    BY <1>2 DEF ConvertCell, RunInv
  <2>2. \A i \in DOMAIN cells : i < cell => Passed(i)
    BY <2>1 DEF RunInv
  <2>3. CASE ~IsCode(cell)
    <3>1. cell' = cell + 1 /\ UNCHANGED <<cells, saved, readable, runPhase, raised>>
      BY <1>2, <2>3 DEF ConvertCell
    <3>2. \A i \in DOMAIN cells : i < cell + 1 => Passed(i)
      <4> SUFFICES ASSUME NEW i \in DOMAIN cells, i < cell + 1 PROVE Passed(i)
        OBVIOUS
      <4>1. i < cell \/ i = cell
        BY <2>1
      <4> QED
        BY <2>2, <2>3, <4>1 DEF Passed
    <3>3. \A i \in DOMAIN cells : Passed(i)' = Passed(i)
      BY <3>1 DEF Passed, IsCode
    <3> QED
      BY <2>1, <3>1, <3>2, <3>3 DEF RunInv, ReportNamesTheFailure
  <2>4. CASE IsCode(cell)
    <3>1. PICK outputs \in {<<>>, <<"text">>, <<"error">>, <<"text", "error">>},
               slow \in BOOLEAN :
             LET fails == Len(outputs) > 0 /\ outputs[Len(outputs)] = "error"
                          /\ ~cells[cell].allowed
                 new == [cells EXCEPT ![cell].outputs = outputs]
             IN  /\ cells' = new
                 /\ slow => outputs \in {<<>>, <<"text">>}
                 /\ IF slow \/ fails
                    THEN /\ runPhase' = "parse" /\ Save(new) /\ UNCHANGED cell
                         /\ raised' = IF fails THEN cell ELSE 0
                    ELSE cell' = cell + 1 /\ UNCHANGED <<saved, readable, runPhase, raised>>
      BY <1>2, <2>4 DEF ConvertCell
    <3> DEFINE fails == Len(outputs) > 0 /\ outputs[Len(outputs)] = "error"
                        /\ ~cells[cell].allowed
               new == [cells EXCEPT ![cell].outputs = outputs]
    <3>2. /\ HasError(outputs) <=> Len(outputs) > 0 /\ outputs[Len(outputs)] = "error"
          /\ outputs \in Seq({"text", "error"})
      BY LastTells
    <3>3. /\ new \in Seq(Cells) /\ DOMAIN new = DOMAIN cells /\ Len(new) = Len(cells)
          /\ cell \in DOMAIN cells
          /\ new[cell].outputs = outputs /\ new[cell].type = cells[cell].type
          /\ new[cell].allowed = cells[cell].allowed
          /\ \A i \in DOMAIN cells : i # cell => new[i] = cells[i]
      <4> DEFINE c == [cells[cell] EXCEPT !.outputs = outputs]
      <4>1. cell \in DOMAIN cells /\ cells[cell] \in Cells
        BY <2>1
      <4>2. /\ c \in Cells /\ c.outputs = outputs /\ c.type = cells[cell].type
            /\ c.allowed = cells[cell].allowed
        BY <3>2, <4>1 DEF Cells
      <4>3. new = [cells EXCEPT ![cell] = c]
        OBVIOUS
      <4> HIDE DEF c, new
      <4>4. new \in Seq(Cells) /\ DOMAIN new = DOMAIN cells /\ Len(new) = Len(cells)
        BY <2>1, <4>1, <4>2, <4>3
      <4> QED
        BY <2>1, <4>1, <4>2, <4>3, <4>4
    <3> HIDE DEF new
    <3>4. cells' = new
      BY <3>1 DEF new
    <3>5. \A i \in DOMAIN cells : i < cell => Passed(i)'
      BY <2>1, <2>2, <3>3, <3>4 DEF Passed, IsCode
    <3>6. CASE slow \/ fails
      <4>1. runPhase' = "parse" /\ Save(new) /\ cell' = cell /\ raised' = IF fails THEN cell ELSE 0
        BY <3>1, <3>6 DEF new
      <4>2. readable' \in BOOLEAN /\ (saves' /\ readable' => InFile')
        BY <2>1, <3>3, <3>4, <4>1 DEF Save, InFile, RunInv
      <4>3. raised' # 0 => Blamed(raised)'
        BY <2>4, <3>2, <3>3, <3>4, <4>1 DEF Blamed, IsCode
      <4>4. ReportNamesTheFailure'
        BY <4>1 DEF ReportNamesTheFailure
      <4> QED
        BY <2>1, <3>3, <3>4, <4>1, <4>2, <4>3, <4>4 DEF RunInv
    <3>7. CASE ~ (slow \/ fails)
      <4>1. cell' = cell + 1 /\ UNCHANGED <<saved, readable, runPhase, raised>>
        BY <3>1, <3>7
      <4>2. ASSUME NEW i, i = cell PROVE Passed(i)'
        BY <3>2, <3>3, <3>4, <3>7, <4>2 DEF Passed, IsCode
      <4>3. \A i \in DOMAIN cells : i < cell + 1 => Passed(i)'
        <5> SUFFICES ASSUME NEW i \in DOMAIN cells, i < cell + 1 PROVE Passed(i)'
          OBVIOUS
        <5>1. i < cell \/ i = cell
          BY <2>1
        <5> QED
          BY <3>5, <4>2, <5>1
      <4>4. ReportNamesTheFailure'
        BY <2>1, <4>1 DEF ReportNamesTheFailure
      <4> QED
        BY <2>1, <3>3, <3>4, <4>1, <4>3, <4>4 DEF RunInv
    <3> QED
      BY <3>6, <3>7
  <2> QED
    BY <2>3, <2>4
<1>3. CASE ConversionEnds
  <2>1. /\ runPhase = "convert" /\ (~readable \/ cell > Len(cells)) /\ runPhase' = "parse"
        /\ success' = readable /\ UNCHANGED <<cells, saves, cell, raised, summaries>>
        /\ raised = 0 /\ cells \in Seq(Cells) /\ cell \in Nat \ {0} /\ saves \in BOOLEAN
        /\ readable \in BOOLEAN
    BY <1>3 DEF ConversionEnds, RunInv
  <2>2. IF readable THEN Save(cells) ELSE UNCHANGED <<saved, readable>>
    BY <1>3 DEF ConversionEnds
  <2>3. readable' \in BOOLEAN /\ (saves' /\ readable' => InFile')
    BY <2>1, <2>2 DEF Save, InFile
  <2>4. readable => \A i \in DOMAIN cells : Passed(i)
    BY <2>1 DEF RunInv
  <2>5. \A i \in DOMAIN cells : Passed(i)' = Passed(i)
    BY <2>1 DEF Passed, IsCode
  <2>6. ReportNamesTheFailure'
    BY <2>1 DEF ReportNamesTheFailure
  <2> QED
    BY <2>1, <2>3, <2>4, <2>5, <2>6 DEF RunInv
<1>4. CASE Interfere
  <2>1. /\ runPhase = "parse" /\ readable' = FALSE
        /\ UNCHANGED <<cells, saved, saves, cell, runPhase, success, raised, summaries>>
    BY <1>4 DEF Interfere
  <2>2. \A i \in DOMAIN cells : Passed(i)' = Passed(i)
    BY <2>1 DEF Passed, IsCode
  <2>3. Blamed(raised)' = Blamed(raised)
    BY <2>1 DEF Blamed, IsCode
  <2> QED
    BY <2>1, <2>2, <2>3 DEF RunInv, ReportNamesTheFailure
<1>5. CASE ParseOutputs
  <2>1. /\ runPhase = "parse" /\ runPhase' \in {"done", "error"}
        /\ UNCHANGED <<cells, saved, saves, readable, cell, success, raised>>
        /\ cells \in Seq(Cells)
        /\ success => cell > Len(cells) /\ \A i \in DOMAIN cells : Passed(i)
        /\ raised # 0 => Blamed(raised)
        /\ saves /\ readable => InFile
    BY <1>5 DEF ParseOutputs, RunInv
  <2>2. ReportNamesTheFailure'
    <3>1. CASE ~readable
      <4>1. summaries' = <<>> /\ CellsFailed' = {} /\ (runPhase' = "done" => ~success)
        BY <1>5, <3>1 DEF ParseOutputs, CellsFailed
      <4> QED
        BY <2>1, <4>1 DEF ReportNamesTheFailure
    <3>2. CASE readable
      <4>1. summaries' = [i \in DOMAIN cells |-> CellSummary(i)]
        BY <1>5, <3>2 DEF ParseOutputs
      <4>2. CellsFailed' = {i \in DOMAIN cells : IsCode(i) /\ HasError(saved[i])}
        BY <4>1 DEF CellsFailed, CellSummary
      <4>3. saves => \A i \in DOMAIN cells : saved[i] = cells[i].outputs
        BY <2>1, <3>2 DEF InFile
      <4>4. raised # 0 /\ saves => raised \in CellsFailed'
        BY <2>1, <4>2, <4>3 DEF Blamed
      <4>5. success /\ saves => \A i \in CellsFailed' : cells[i].allowed
        BY <2>1, <4>2, <4>3 DEF Passed
      <4> QED
        BY <2>1, <4>4, <4>5 DEF ReportNamesTheFailure
    <3> QED
      BY <3>1, <3>2
  <2> QED
    BY <2>1, <2>2 DEF RunInv
<1>6. CASE UNCHANGED runVars
  <2>1. UNCHANGED <<cells, saved, saves, readable, cell, runPhase, success, raised, summaries>>
    BY <1>6 DEF runVars
  <2>2. \A i \in DOMAIN cells : Passed(i)' = Passed(i)
    BY <2>1 DEF Passed, IsCode
  <2>3. Blamed(raised)' = Blamed(raised) /\ InFile' = InFile
    BY <2>1 DEF Blamed, IsCode, InFile
  <2>4. ReportNamesTheFailure' = ReportNamesTheFailure
    BY <2>1 DEF ReportNamesTheFailure, CellsFailed
  <2> QED
    BY <2>1, <2>2, <2>3, <2>4 DEF RunInv
<1> QED
  BY <1>1, <1>2, <1>3, <1>4, <1>5, <1>6 DEF RunNext

(* A run that a cell stopped names that cell, and one that is called a     *)
(* success has executed every cell: for every notebook.                    *)
THEOREM FailuresAreNamed == RunSpec => []ReportNamesTheFailure
<1>1. RunInv => ReportNamesTheFailure
  BY DEF RunInv
<1> QED
  BY <1>1, RunStarts, RunStays, PTL DEF RunSpec

-----------------------------------------------------------------------------
(* The log of a start.  A handle is only kept when it is the created       *)
(* file's.                                                                 *)
THEOREM LogIsTheCreatedFile == LogSpec => []HandlesAreOneFile
<1> DEFINE HInv == handles \in Seq({CreatedFile})
<1>1. LogInit => HInv
  BY DEF LogInit
<1>2. HInv /\ [LogNext]_logVars => HInv'
  <2> SUFFICES ASSUME HInv, [LogNext]_logVars PROVE HInv'
    OBVIOUS
  <2>1. CASE CheckOpened
    BY <2>1 DEF CheckOpened
  <2>2. CASE LogNext /\ ~CheckOpened
    BY <2>2 DEF LogNext, LogStep, ScannerStep, LogNameTaken, Create, LookBefore, Open,
       ReadFails, PathMoves, ChildWrites, Cut, PollBegins, ReadChunk, PollEnds, creation
  <2>3. CASE UNCHANGED logVars
    BY <2>3 DEF logVars, creation
  <2> QED
    BY <2>1, <2>2, <2>3
<1>3. HInv => HandlesAreOneFile
  BY DEF HandlesAreOneFile
<1> QED
  BY <1>1, <1>2, <1>3, PTL DEF LogSpec

LEMMA Climb ==
    ASSUME NEW T, 0 \in T, \A n \in Nat : n \in T => n + 1 \in T
    PROVE  Nat \subseteq T
<1> SUFFICES ASSUME Nat \ T # {} PROVE FALSE
  OBVIOUS
<1>1. PICK m \in Nat \ T : \A k \in Nat \ T : ~ (<<k, m>> \in OpToRel(<, Nat))
  <2> DEFINE U == Nat \ T
  <2>1. U \subseteq Nat /\ U # {}
    OBVIOUS
  <2> HIDE DEF U
  <2>2. \E m \in U : \A k \in U : ~ (<<k, m>> \in OpToRel(<, Nat))
    BY <2>1, NatLessThanWellFounded, WFMin
  <2> QED
    BY <2>2 DEF U
<1>2. \A k \in Nat \ T : ~ (k < m)
  BY <1>1 DEF OpToRel
<1>3. m # 0 /\ m - 1 \in Nat
  OBVIOUS
<1>4. m - 1 \in T
  BY <1>2, <1>3
<1>5. (m - 1) + 1 \in T
  BY <1>3, <1>4
<1> QED
  BY <1>5

-----------------------------------------------------------------------------
(* The log of a start: what was read of it.                                *)
LEMMA CapsAreNumbers ==
    /\ PollLines \in Nat /\ PartialCap \in Nat /\ VisibleCap \in Nat /\ OverlapCap \in Nat
    /\ RetainCap \in Nat /\ RetainCap = VisibleCap + OverlapCap
BY CapsAssumption DEF RetainCap

UpTo(B, n) == {j \in B : j <= n}

(* Finitely many places, which can be counted.                             *)
Counted(B) ==
    /\ IsFiniteSet(B) /\ B \subseteq Nat /\ Cardinality(B) \in Nat
    /\ \A k \in 1 .. Cardinality(B) : \E i \in B : Cardinality(UpTo(B, i)) = k

LEMMA CountedOneMore ==
    ASSUME NEW C, Counted(C), NEW n \in Nat, \A c \in C : c < n,
           NEW B, B = C \cup {n}
    PROVE  /\ Counted(B) /\ Cardinality(B) = Cardinality(C) + 1
           /\ UpTo(B, n) = B /\ \A i \in C : UpTo(B, i) = UpTo(C, i)
<1>1. n \notin C /\ C \subseteq Nat /\ Cardinality(C) \in Nat
  BY DEF Counted
<1>2. IsFiniteSet(B) /\ Cardinality(B) = Cardinality(C) + 1
  BY <1>1, FS_AddElement DEF Counted
<1>3. ASSUME NEW i \in C
      PROVE  UpTo(B, i) = UpTo(C, i)
  <2>1. i \in Nat /\ ~ (n <= i)
    BY <1>1
  <2> QED
    BY <2>1 DEF UpTo
<1>4. UpTo(B, n) = B
  <2>1. \A c \in B : c <= n
    BY <1>1
  <2> QED
    BY <2>1 DEF UpTo
<1>5. ASSUME NEW k \in 1 .. Cardinality(B)
      PROVE  \E i \in B : Cardinality(UpTo(B, i)) = k
  <2>1. CASE k \in 1 .. Cardinality(C)
    <3>1. PICK i \in C : Cardinality(UpTo(C, i)) = k
      BY <2>1 DEF Counted
    <3> QED
      BY <1>3, <3>1
  <2>2. CASE k = Cardinality(C) + 1
    <3>1. n \in B
      OBVIOUS
    <3> QED
      BY <1>2, <1>4, <2>2, <3>1
  <2> QED
    BY <1>1, <1>2, <2>1, <2>2
<1>6. B \subseteq Nat
  BY <1>1
<1>7. Counted(B)
  BY <1>1, <1>2, <1>5, <1>6 DEF Counted
<1> QED
  BY <1>2, <1>3, <1>4, <1>7

LEMMA PlacesAreCounted ==
    ASSUME NEW n \in Nat, NEW B \in SUBSET (1 .. n)
    PROVE  Counted(B)
<1> DEFINE T == {m \in Nat : \A C \in SUBSET (1 .. m) : Counted(C)}
<1>1. 0 \in T
  <2> SUFFICES ASSUME NEW C \in SUBSET (1 .. 0)
               PROVE  Counted(C)
    OBVIOUS
  <2>1. C = {}
    OBVIOUS
  <2>2. IsFiniteSet(C) /\ Cardinality(C) = 0 /\ C \subseteq Nat
    BY <2>1, FS_EmptySet
  <2> QED
    BY <2>2 DEF Counted
<1>2. ASSUME NEW m \in Nat, m \in T
      PROVE  m + 1 \in T
  <2> SUFFICES ASSUME NEW C \in SUBSET (1 .. m + 1)
               PROVE  Counted(C)
    OBVIOUS
  <2> DEFINE D == C \ {m + 1}
  <2>1. D \in SUBSET (1 .. m) /\ \A d \in D : d < m + 1
    OBVIOUS
  <2>2. Counted(D)
    BY <1>2, <2>1
  <2>3. C = D \/ C = D \cup {m + 1}
    OBVIOUS
  <2>4. m + 1 \in Nat
    OBVIOUS
  <2> HIDE DEF D
  <2>5. C = D \cup {m + 1} => Counted(C)
    BY <2>1, <2>2, <2>4, CountedOneMore
  <2> QED
    BY <2>2, <2>3, <2>5
<1>3. Nat \subseteq T
  <2> HIDE DEF T
  <2> QED
    BY <1>1, <1>2, Climb
<1> QED
  BY <1>3

LEMMA NthIs ==
    ASSUME NEW B, Counted(B), NEW k \in 1 .. Cardinality(B)
    PROVE  Nth(B, k) \in B /\ Cardinality(UpTo(B, Nth(B, k))) = k
<1>1. \E i \in B : Cardinality(UpTo(B, i)) = k
  BY DEF Counted
<1>2. Nth(B, k) = CHOOSE i \in B : Cardinality(UpTo(B, i)) = k
  BY DEF Nth, UpTo
<1> QED
  BY <1>1, <1>2

LEMMA NthIsOne ==
    ASSUME NEW B, Counted(B), NEW i \in B, NEW j \in B,
           Cardinality(UpTo(B, i)) = Cardinality(UpTo(B, j))
    PROVE  i = j
<1>1. ASSUME NEW x \in B, NEW y \in B, x <= y,
             Cardinality(UpTo(B, x)) = Cardinality(UpTo(B, y))
      PROVE  x = y
  <2>1. x \in Nat /\ y \in Nat /\ B \subseteq Nat
    BY DEF Counted
  <2>2. UpTo(B, x) \in SUBSET UpTo(B, y) /\ y \in UpTo(B, y)
    <3>1. \A z \in B : z <= x => z <= y
      BY <1>1, <2>1
    <3>2. y <= y
      BY <2>1
    <3> QED
      BY <3>1, <3>2, Zenon DEF UpTo
  <2>3. IsFiniteSet(UpTo(B, y))
    <3>1. UpTo(B, y) \in SUBSET B /\ IsFiniteSet(B)
      BY DEF UpTo, Counted
    <3> QED
      BY <3>1, FS_Subset
  <2>4. UpTo(B, y) = UpTo(B, x)
    BY <1>1, <2>2, <2>3, FS_Subset
  <2>5. y <= x
    BY <2>2, <2>4 DEF UpTo
  <2> QED
    BY <1>1, <2>1, <2>5
<1>2. i <= j \/ j <= i
  BY DEF Counted
<1> QED
  BY <1>1, <1>2

LEMMA NthStays ==
    ASSUME NEW B, Counted(B), NEW n \in Nat, \A b \in B : b < n,
           NEW C, C = B \cup {n}
    PROVE  /\ \A k \in 1 .. Cardinality(B) : Nth(C, k) = Nth(B, k)
           /\ Nth(C, Cardinality(B) + 1) = n
<1>1. /\ Counted(C) /\ Cardinality(C) = Cardinality(B) + 1
      /\ UpTo(C, n) = C /\ \A i \in B : UpTo(C, i) = UpTo(B, i)
      /\ Cardinality(B) \in Nat
  <2>1. Cardinality(B) \in Nat
    BY DEF Counted
  <2> QED
    BY <2>1, CountedOneMore
<1>2. ASSUME NEW k \in 1 .. Cardinality(B)
      PROVE  Nth(C, k) = Nth(B, k)
  <2>1. Nth(B, k) \in B /\ Cardinality(UpTo(B, Nth(B, k))) = k
    BY NthIs
  <2>2. UpTo(C, Nth(B, k)) = UpTo(B, Nth(B, k)) /\ Nth(B, k) \in C
    BY <1>1, <2>1
  <2>3. k \in 1 .. Cardinality(C)
    BY <1>1
  <2>4. Nth(C, k) \in C /\ Cardinality(UpTo(C, Nth(C, k))) = k
    BY <1>1, <2>3, NthIs
  <2>5. Cardinality(UpTo(C, Nth(C, k))) = Cardinality(UpTo(C, Nth(B, k)))
    BY <2>1, <2>2, <2>4
  <2> QED
    BY <1>1, <2>2, <2>4, <2>5, NthIsOne
<1>3. Nth(C, Cardinality(B) + 1) = n
  <2> DEFINE k == Cardinality(C)
  <2>1. k \in 1 .. Cardinality(C) /\ n \in C
    BY <1>1
  <2>2. Nth(C, k) \in C /\ Cardinality(UpTo(C, Nth(C, k))) = k
    BY <1>1, <2>1, NthIs
  <2>3. Cardinality(UpTo(C, Nth(C, k))) = Cardinality(UpTo(C, n))
    BY <1>1, <2>2
  <2>4. Nth(C, k) = n
    BY <1>1, <2>1, <2>2, <2>3, NthIsOne
  <2> QED
    BY <1>1, <2>4
<1> QED
  BY <1>2, <1>3

LEMMA BreaksAreCounted ==
    ASSUME NEW text \in Seq(Bytes)
    PROVE  /\ Counted(Breaks(text)) /\ Cardinality(Breaks(text)) \in Nat
           /\ Breaks(text) \subseteq 1 .. Len(text)
<1>1. Len(text) \in Nat /\ Breaks(text) \in SUBSET (1 .. Len(text))
  BY DEF Breaks
<1>2. Counted(Breaks(text))
  BY <1>1, PlacesAreCounted
<1> QED
  BY <1>1, <1>2 DEF Counted

(* What is consumed of a chunk is some of it.                              *)
LEMMA ConsumedIsSome ==
    ASSUME NEW chunk \in Seq(Bytes), chunk # <<>>, NEW budget \in Nat \ {0}
    PROVE  Consumed(chunk, budget) \in 1 .. Len(chunk)
<1>1. Len(chunk) \in Nat \ {0}
  BY EmptySeq
<1>2. CASE Cardinality(Breaks(chunk)) < budget
  BY <1>1, <1>2 DEF Consumed
<1>3. CASE ~ (Cardinality(Breaks(chunk)) < budget)
  <2>1. budget \in 1 .. Cardinality(Breaks(chunk))
    BY <1>3, BreaksAreCounted
  <2>2. Nth(Breaks(chunk), budget) \in Breaks(chunk)
    BY <2>1, NthIs, BreaksAreCounted
  <2>3. Nth(Breaks(chunk), budget) \in 1 .. Len(chunk)
    BY <2>2, BreaksAreCounted
  <2> QED
    BY <1>3, <2>3 DEF Consumed
<1> QED
  BY <1>2, <1>3

-----------------------------------------------------------------------------
(* The end of a text, and of one that grows.                               *)
LEMMA EndingIs ==
    ASSUME NEW S, NEW s \in Seq(S), NEW n \in Nat
    PROVE  /\ Ending(s, n) \in Seq(S) /\ Least(n, Len(s)) \in 0 .. Len(s)
           /\ Len(Ending(s, n)) = Least(n, Len(s))
           /\ \A i \in 1 .. Least(n, Len(s)) :
                 Ending(s, n)[i] = s[Len(s) - Least(n, Len(s)) + i]
<1> DEFINE m == Least(n, Len(s))
<1>1. Len(s) \in Nat /\ m \in 0 .. Len(s)
  BY DEF Least
<1>2. Ending(s, n) = SubSeq(s, Len(s) - m + 1, Len(s))
  BY DEF Ending
<1> HIDE DEF m
<1>3. \A i \in Len(s) - m + 1 .. Len(s) : s[i] \in S
  BY <1>1
<1>4. Len(s) - m + 1 \in Int /\ Len(s) \in Int
  BY <1>1
<1>5. /\ SubSeq(s, Len(s) - m + 1, Len(s)) \in Seq(S)
      /\ Len(SubSeq(s, Len(s) - m + 1, Len(s))) =
            IF Len(s) - m + 1 <= Len(s) THEN Len(s) - (Len(s) - m + 1) + 1 ELSE 0
      /\ \A i \in 1 .. Len(s) - (Len(s) - m + 1) + 1 :
            SubSeq(s, Len(s) - m + 1, Len(s))[i] = s[(Len(s) - m + 1) + i - 1]
  BY <1>3, <1>4, SubSeqProperties
<1>6. Len(s) - (Len(s) - m + 1) + 1 = m
  BY <1>1
<1>7. \A i \in 1 .. m : (Len(s) - m + 1) + i - 1 = Len(s) - m + i
  BY <1>1
<1>8. Len(Ending(s, n)) = m
  BY <1>1, <1>2, <1>5
<1>9. \A i \in 1 .. m : Ending(s, n)[i] = s[Len(s) - m + i]
  BY <1>2, <1>5, <1>6, <1>7
<1> QED
  BY <1>1, <1>2, <1>5, <1>8, <1>9 DEF m

LEMMA EndingGrows ==
    ASSUME NEW S, NEW s \in Seq(S), NEW t \in Seq(S), NEW n \in Nat
    PROVE  Ending(Ending(s, n) \o t, n) = Ending(s \o t, n)
<1> DEFINE e == Ending(s, n)
           m == Least(n, Len(s))
<1>1. /\ e \in Seq(S) /\ m \in 0 .. Len(s) /\ Len(e) = m
      /\ \A i \in 1 .. m : e[i] = s[Len(s) - m + i]
  BY EndingIs
<1>. Len(s) \in Nat /\ Len(t) \in Nat
  OBVIOUS
<1>2. m = Len(s) \/ (m = n /\ n <= Len(s))
  BY <1>1 DEF Least
<1> HIDE DEF e, m
<1> DEFINE a == e \o t
           b == s \o t
<1>3. /\ a \in Seq(S) /\ Len(a) = m + Len(t)
      /\ \A i \in 1 .. m + Len(t) : a[i] = IF i <= m THEN e[i] ELSE t[i - m]
  <2>1. e \in Seq(S) /\ Len(e) = m
    BY <1>1
  <2>2. /\ e \o t \in Seq(S) /\ Len(e \o t) = Len(e) + Len(t)
        /\ \A i \in 1 .. Len(e) + Len(t) : (e \o t)[i] = IF i <= Len(e) THEN e[i] ELSE t[i - Len(e)]
    BY <2>1, ConcatProperties
  <2> QED
    BY <2>1, <2>2
<1>4. /\ b \in Seq(S) /\ Len(b) = Len(s) + Len(t)
      /\ \A i \in 1 .. Len(s) + Len(t) : b[i] = IF i <= Len(s) THEN s[i] ELSE t[i - Len(s)]
  BY <1>1, ConcatProperties
<1> HIDE DEF a, b
<1> DEFINE k == Least(n, Len(a))
<1>5. k = Least(n, Len(b)) /\ k \in 0 .. Len(a) /\ k <= Len(b)
  <2>1. /\ Len(a) = m + Len(t) /\ Len(b) = Len(s) + Len(t) /\ m \in 0 .. Len(s)
        /\ Len(s) \in Nat /\ Len(t) \in Nat
    BY <1>1, <1>3, <1>4
  <2> QED
    BY <1>2, <2>1 DEF Least
<1>6. /\ Ending(a, n) \in Seq(S) /\ Len(Ending(a, n)) = k
      /\ \A i \in 1 .. k : Ending(a, n)[i] = a[Len(a) - k + i]
  BY <1>3, EndingIs
<1>7. /\ Ending(b, n) \in Seq(S) /\ Len(Ending(b, n)) = k
      /\ \A i \in 1 .. k : Ending(b, n)[i] = b[Len(b) - k + i]
  <2>1. /\ Ending(b, n) \in Seq(S) /\ Len(Ending(b, n)) = Least(n, Len(b))
        /\ \A i \in 1 .. Least(n, Len(b)) :
              Ending(b, n)[i] = b[Len(b) - Least(n, Len(b)) + i]
    BY <1>4, EndingIs
  <2> QED
    BY <1>5, <2>1
<1> HIDE DEF k
<1>8. ASSUME NEW i \in 1 .. k
      PROVE  a[Len(a) - k + i] = b[Len(b) - k + i]
  <2>1. /\ m \in Nat /\ m <= Len(s) /\ k \in Nat /\ k <= Len(a) /\ k <= Len(b)
        /\ Len(a) = m + Len(t) /\ Len(b) = Len(s) + Len(t) /\ i \in Nat /\ 1 <= i /\ i <= k
        /\ Len(s) \in Nat /\ Len(t) \in Nat
    BY <1>1, <1>3, <1>4, <1>5
  <2>2. /\ Len(a) - k + i \in 1 .. m + Len(t) /\ Len(b) - k + i \in 1 .. Len(s) + Len(t)
        /\ (Len(a) - k + i) + (Len(s) - m) = Len(b) - k + i
    BY <2>1
  <2>3. CASE Len(a) - k + i <= m
    <3>1. Len(b) - k + i <= Len(s) /\ Len(a) - k + i \in 1 .. m
      BY <2>1, <2>2, <2>3
    <3>2. Len(s) - m + (Len(a) - k + i) = Len(b) - k + i
      BY <2>1
    <3>3. a[Len(a) - k + i] = e[Len(a) - k + i] /\ b[Len(b) - k + i] = s[Len(b) - k + i]
      BY <1>3, <1>4, <2>2, <2>3, <3>1
    <3>4. e[Len(a) - k + i] = s[Len(s) - m + (Len(a) - k + i)]
      BY <1>1, <3>1
    <3> QED
      BY <3>2, <3>3, <3>4
  <2>4. CASE ~ (Len(a) - k + i <= m)
    <3>1. ~ (Len(b) - k + i <= Len(s))
      BY <2>1, <2>4
    <3>2. (Len(a) - k + i) - m = (Len(b) - k + i) - Len(s)
      BY <2>1
    <3>3. /\ a[Len(a) - k + i] = t[(Len(a) - k + i) - m]
          /\ b[Len(b) - k + i] = t[(Len(b) - k + i) - Len(s)]
      BY <1>3, <1>4, <2>2, <2>4, <3>1
    <3> QED
      BY <3>2, <3>3
  <2> QED
    BY <2>3, <2>4
<1>9. Ending(a, n) = Ending(b, n)
  BY <1>6, <1>7, <1>8, SeqEqual
<1> QED
  BY <1>9 DEF a, b, e

-----------------------------------------------------------------------------
(* A text has its lines, and behind the last newline the beginning of one. *)
LastBreak(text) ==
    IF Cardinality(Breaks(text)) = 0 THEN 0
    ELSE Nth(Breaks(text), Cardinality(Breaks(text)))
Rest(text) == SubSeq(text, LastBreak(text) + 1, Len(text))
LineFor(text) == FinishLine(Ending(text, PartialCap), Len(text) > PartialCap)
OneLine == BOOLEAN \X Seq(Bytes)

(* What a scanner that has handed out `before` knows of the text it read.  *)
HasRead(before, s, text) ==
    /\ s.partial = Ending(Rest(text), PartialCap)
    /\ s.long = (Len(Rest(text)) > PartialCap)
    /\ before \o s.lines = LinesOf(text)

LEMMA FinishedIsLine ==
    ASSUME NEW l \in Seq(Bytes), NEW cut \in BOOLEAN
    PROVE  FinishLine(l, cut) \in OneLine
<1>1. CASE l # <<>>
  <2>1. Len(l) \in Nat \ {0} /\ \A i \in 1 .. Len(l) - 1 : l[i] \in Bytes
    BY <1>1, EmptySeq
  <2>2. SubSeq(l, 1, Len(l) - 1) \in Seq(Bytes)
    BY <2>1, SubSeqProperties
  <2> QED
    BY <2>2 DEF FinishLine, OneLine
<1>2. CASE l = <<>>
  BY <1>2 DEF FinishLine, OneLine
<1> QED
  BY <1>1, <1>2

LEMMA RestIs ==
    ASSUME NEW text \in Seq(Bytes)
    PROVE  /\ LastBreak(text) \in 0 .. Len(text) /\ Rest(text) \in Seq(Bytes)
           /\ LineFor(Rest(text)) \in OneLine
<1>1. Len(text) \in Nat
  OBVIOUS
<1>2. LastBreak(text) \in 0 .. Len(text)
  <2>1. CASE Cardinality(Breaks(text)) = 0
    BY <1>1, <2>1 DEF LastBreak
  <2>2. CASE Cardinality(Breaks(text)) # 0
    <3>1. Cardinality(Breaks(text)) \in 1 .. Cardinality(Breaks(text))
      BY <2>2, BreaksAreCounted
    <3>2. Nth(Breaks(text), Cardinality(Breaks(text))) \in Breaks(text)
      BY <3>1, NthIs, BreaksAreCounted
    <3>3. Nth(Breaks(text), Cardinality(Breaks(text))) \in 1 .. Len(text)
      BY <3>2, BreaksAreCounted
    <3> QED
      BY <1>1, <2>2, <3>3 DEF LastBreak
  <2> QED
    BY <2>1, <2>2
<1>3. Rest(text) \in Seq(Bytes)
  <2>1. /\ \A i \in LastBreak(text) + 1 .. Len(text) : text[i] \in Bytes
        /\ LastBreak(text) + 1 \in Int /\ Len(text) \in Int
    BY <1>1, <1>2
  <2> QED
    BY <2>1, SubSeqProperties DEF Rest
<1>4. LineFor(Rest(text)) \in OneLine
  <2>1. Ending(Rest(text), PartialCap) \in Seq(Bytes)
    BY <1>3, EndingIs, CapsAreNumbers
  <2>2. (Len(Rest(text)) > PartialCap) \in BOOLEAN
    OBVIOUS
  <2> QED
    BY <2>1, <2>2, FinishedIsLine DEF LineFor
<1> QED
  BY <1>2, <1>3, <1>4

LEMMA BreaksGrow ==
    ASSUME NEW text \in Seq(Bytes), NEW b \in Bytes
    PROVE  Breaks(Append(text, b)) =
              IF b = Newline THEN Breaks(text) \cup {Len(text) + 1} ELSE Breaks(text)
<1> DEFINE more == Append(text, b)
           n == Len(text)
<1>1. /\ n \in Nat /\ Len(more) = n + 1 /\ more[n + 1] = b
      /\ \A i \in 1 .. n : more[i] = text[i]
  BY AppendProperties
<1>2. 1 .. n + 1 = (1 .. n) \cup {n + 1}
  BY <1>1
<1>3. Breaks(more) = {i \in (1 .. n) \cup {n + 1} : more[i] = Newline}
  BY <1>1, <1>2 DEF Breaks
<1>4. Breaks(text) = {i \in 1 .. n : more[i] = Newline}
  BY <1>1 DEF Breaks
<1> HIDE DEF more, n
<1>5. Breaks(more) = IF b = Newline THEN Breaks(text) \cup {n + 1} ELSE Breaks(text)
  BY <1>1, <1>3, <1>4
<1> QED
  BY <1>5 DEF more, n

EndOf(B, k) == IF k = 0 THEN 0 ELSE Nth(B, k)
Piece(text, k) ==
    SubSeq(text, EndOf(Breaks(text), k - 1) + 1, EndOf(Breaks(text), k) - 1)

LEMMA EndsAre ==
    ASSUME NEW text \in Seq(Bytes), NEW k \in 0 .. Cardinality(Breaks(text))
    PROVE  EndOf(Breaks(text), k) \in 0 .. Len(text)
<1>1. Cardinality(Breaks(text)) \in Nat /\ Len(text) \in Nat
  BY BreaksAreCounted
<1>2. CASE k = 0
  BY <1>1, <1>2 DEF EndOf
<1>3. CASE k # 0
  <2>1. k \in 1 .. Cardinality(Breaks(text))
    BY <1>1, <1>3
  <2>2. Nth(Breaks(text), k) \in Breaks(text)
    BY <2>1, NthIs, BreaksAreCounted
  <2>3. Nth(Breaks(text), k) \in 1 .. Len(text)
    BY <2>2, BreaksAreCounted
  <2> QED
    BY <1>1, <1>3, <2>3 DEF EndOf
<1> QED
  BY <1>2, <1>3

LEMMA PieceTyped ==
    ASSUME NEW S, NEW text \in Seq(S), NEW i \in Nat \ {0}, NEW j \in Int, j <= Len(text)
    PROVE  /\ SubSeq(text, i, j) \in Seq(S)
           /\ Len(SubSeq(text, i, j)) = IF i <= j THEN j - i + 1 ELSE 0
           /\ \A x \in 1 .. j - i + 1 : SubSeq(text, i, j)[x] = text[i + x - 1]
<1>1. Len(text) \in Nat
  OBVIOUS
<1>2. \A x \in i .. j : x \in 1 .. Len(text)
  BY <1>1
<1>3. \A x \in i .. j : text[x] \in S
  BY <1>2
<1> QED
  BY <1>3, SubSeqProperties

LEMMA SubSeqTyped ==
    ASSUME NEW text \in Seq(Bytes), NEW i \in Nat \ {0}, NEW j \in Int, j <= Len(text)
    PROVE  /\ SubSeq(text, i, j) \in Seq(Bytes)
           /\ Len(SubSeq(text, i, j)) = IF i <= j THEN j - i + 1 ELSE 0
           /\ \A x \in 1 .. j - i + 1 : SubSeq(text, i, j)[x] = text[i + x - 1]
BY PieceTyped

LEMMA LinesAre ==
    ASSUME NEW text \in Seq(Bytes)
    PROVE  /\ LinesOf(text) = [k \in 1 .. Cardinality(Breaks(text)) |-> LineFor(Piece(text, k))]
           /\ LinesOf(text) \in Seq(OneLine)
           /\ Len(LinesOf(text)) = Cardinality(Breaks(text))
<1>1. Cardinality(Breaks(text)) \in Nat /\ Len(text) \in Nat
  BY BreaksAreCounted
<1>2. LinesOf(text) = [k \in 1 .. Cardinality(Breaks(text)) |-> LineFor(Piece(text, k))]
  BY DEF LinesOf, LineFor, Piece, EndOf
<1>3. ASSUME NEW k \in 1 .. Cardinality(Breaks(text))
      PROVE  LineFor(Piece(text, k)) \in OneLine
  <2>1. k - 1 \in 0 .. Cardinality(Breaks(text)) /\ k \in 0 .. Cardinality(Breaks(text))
    BY <1>1
  <2>2. EndOf(Breaks(text), k - 1) \in 0 .. Len(text) /\ EndOf(Breaks(text), k) \in 0 .. Len(text)
    BY <2>1, EndsAre
  <2>3. /\ EndOf(Breaks(text), k - 1) + 1 \in Nat \ {0}
        /\ EndOf(Breaks(text), k) - 1 \in Int /\ EndOf(Breaks(text), k) - 1 <= Len(text)
    BY <1>1, <2>2
  <2>4. Piece(text, k) \in Seq(Bytes)
    BY <2>3, SubSeqTyped DEF Piece
  <2>5. Ending(Piece(text, k), PartialCap) \in Seq(Bytes)
    BY <2>4, EndingIs, CapsAreNumbers
  <2>6. (Len(Piece(text, k)) > PartialCap) \in BOOLEAN
    OBVIOUS
  <2> QED
    BY <2>5, <2>6, FinishedIsLine DEF LineFor
<1> HIDE DEF LineFor, Piece
<1>4. LinesOf(text) \in Seq(OneLine) /\ Len(LinesOf(text)) = Cardinality(Breaks(text))
  <2> DEFINE total == Cardinality(Breaks(text))
             L == [k \in 1 .. total |-> LineFor(Piece(text, k))]
  <2>1. total \in Nat /\ \A k \in 1 .. total : LineFor(Piece(text, k)) \in OneLine
    BY <1>1, <1>3
  <2> HIDE DEF total
  <2>2. L \in [1 .. total -> OneLine]
    BY <2>1
  <2>3. L \in Seq(OneLine) /\ Len(L) = total
    BY <2>1, <2>2
  <2> QED
    BY <1>2, <2>3 DEF total
<1> QED
  BY <1>2, <1>4

LEMMA PieceStays ==
    ASSUME NEW text \in Seq(Bytes), NEW b \in Bytes,
           NEW i \in Nat \ {0}, NEW j \in Int, j <= Len(text)
    PROVE  SubSeq(Append(text, b), i, j) = SubSeq(text, i, j)
<1> DEFINE more == Append(text, b)
<1>1. /\ more \in Seq(Bytes) /\ Len(more) = Len(text) + 1 /\ Len(text) \in Nat
      /\ \A x \in 1 .. Len(text) : more[x] = text[x]
  BY AppendProperties
<1> HIDE DEF more
<1> DEFINE m == SubSeq(more, i, j)
           t == SubSeq(text, i, j)
<1>2. /\ m \in Seq(Bytes) /\ Len(m) = IF i <= j THEN j - i + 1 ELSE 0
      /\ \A x \in 1 .. j - i + 1 : m[x] = more[i + x - 1]
  BY <1>1, SubSeqTyped
<1>3. /\ t \in Seq(Bytes) /\ Len(t) = IF i <= j THEN j - i + 1 ELSE 0
      /\ \A x \in 1 .. j - i + 1 : t[x] = text[i + x - 1]
  BY SubSeqTyped
<1> HIDE DEF m, t
<1>4. ASSUME NEW x \in 1 .. Len(m)
      PROVE  m[x] = t[x]
  <2>1. i <= j /\ x \in 1 .. j - i + 1
    BY <1>2
  <2>2. i + x - 1 \in 1 .. Len(text)
    BY <1>1, <2>1
  <2> QED
    BY <1>1, <1>2, <1>3, <2>1, <2>2
<1>5. m = t
  BY <1>2, <1>3, <1>4, SeqEqual
<1> QED
  BY <1>5 DEF m, t, more

(* A byte that ends no line.                                               *)
LEMMA LinesAndByte ==
    ASSUME NEW text \in Seq(Bytes), NEW b \in Bytes, b # Newline
    PROVE  /\ LinesOf(Append(text, b)) = LinesOf(text)
           /\ Rest(Append(text, b)) = Append(Rest(text), b)
<1> DEFINE more == Append(text, b)
           B == Breaks(text)
<1>1. Breaks(more) = B
  BY BreaksGrow
<1>2. more \in Seq(Bytes) /\ Len(more) = Len(text) + 1 /\ Len(text) \in Nat
  BY AppendProperties
<1>3. ASSUME NEW k \in 1 .. Cardinality(B)
      PROVE  Piece(more, k) = Piece(text, k)
  <2>1. /\ k - 1 \in 0 .. Cardinality(B) /\ k \in 0 .. Cardinality(B)
    BY BreaksAreCounted
  <2>2. EndOf(B, k - 1) \in 0 .. Len(text) /\ EndOf(B, k) \in 0 .. Len(text)
    BY <2>1, EndsAre
  <2>3. /\ EndOf(B, k - 1) + 1 \in Nat \ {0}
        /\ EndOf(B, k) - 1 \in Int /\ EndOf(B, k) - 1 <= Len(text)
    BY <1>2, <2>2
  <2>4. SubSeq(more, EndOf(B, k - 1) + 1, EndOf(B, k) - 1)
           = SubSeq(text, EndOf(B, k - 1) + 1, EndOf(B, k) - 1)
    BY <2>3, PieceStays
  <2> QED
    BY <1>1, <2>4 DEF Piece
<1>4. LinesOf(more) = LinesOf(text)
  <2>1. LinesOf(more) = [k \in 1 .. Cardinality(B) |-> LineFor(Piece(more, k))]
    BY <1>1, <1>2, LinesAre
  <2>2. LinesOf(text) = [k \in 1 .. Cardinality(B) |-> LineFor(Piece(text, k))]
    BY LinesAre
  <2> HIDE DEF more, B
  <2> QED
    BY <1>3, <2>1, <2>2
<1>5. Rest(more) = Append(Rest(text), b)
  <2> DEFINE c == LastBreak(text)
             r == SubSeq(text, c + 1, Len(text))
             m == SubSeq(more, c + 1, Len(text) + 1)
  <2>1. LastBreak(more) = c
    BY <1>1 DEF LastBreak
  <2>2. c \in 0 .. Len(text)
    BY RestIs
  <2> HIDE DEF c
  <2>3. /\ r \in Seq(Bytes) /\ Len(r) = Len(text) - c
        /\ \A x \in 1 .. Len(text) - c : r[x] = text[c + x]
    <3>1. /\ c + 1 \in Nat \ {0} /\ Len(text) \in Int /\ Len(text) <= Len(text)
          /\ Len(text) - (c + 1) + 1 = Len(text) - c
          /\ \A x \in 1 .. Len(text) - c : (c + 1) + x - 1 = c + x
          /\ (IF c + 1 <= Len(text) THEN Len(text) - c ELSE 0) = Len(text) - c
      BY <1>2, <2>2
    <3>2. /\ r \in Seq(Bytes)
          /\ Len(r) = IF c + 1 <= Len(text) THEN Len(text) - (c + 1) + 1 ELSE 0
          /\ \A x \in 1 .. Len(text) - (c + 1) + 1 : r[x] = text[(c + 1) + x - 1]
      BY <3>1, SubSeqTyped
    <3> HIDE DEF r
    <3> QED
      BY <3>1, <3>2
  <2>4. /\ m \in Seq(Bytes) /\ Len(m) = Len(text) - c + 1
        /\ \A x \in 1 .. Len(text) - c + 1 : m[x] = more[c + x]
    <3>1. /\ c + 1 \in Nat \ {0} /\ Len(text) + 1 \in Int /\ Len(text) + 1 <= Len(more)
          /\ (Len(text) + 1) - (c + 1) + 1 = Len(text) - c + 1
          /\ \A x \in 1 .. Len(text) - c + 1 : (c + 1) + x - 1 = c + x
          /\ c + 1 <= Len(text) + 1
      BY <1>2, <2>2
    <3>2. /\ m \in Seq(Bytes)
          /\ Len(m) = IF c + 1 <= Len(text) + 1 THEN (Len(text) + 1) - (c + 1) + 1 ELSE 0
          /\ \A x \in 1 .. (Len(text) + 1) - (c + 1) + 1 : m[x] = more[(c + 1) + x - 1]
      BY <1>2, <3>1, SubSeqTyped
    <3> HIDE DEF m
    <3> QED
      BY <3>1, <3>2
  <2>5. /\ \A x \in 1 .. Len(text) : more[x] = text[x]
        /\ more[Len(text) + 1] = b
    BY AppendProperties
  <2> DEFINE a == Append(r, b)
  <2> HIDE DEF r, m, more
  <2>6. /\ a \in Seq(Bytes) /\ Len(a) = Len(text) - c + 1
        /\ \A x \in 1 .. Len(text) - c : a[x] = r[x]
        /\ a[Len(text) - c + 1] = b
    BY <2>3, AppendProperties
  <2> HIDE DEF a
  <2>7. ASSUME NEW x \in 1 .. Len(m)
        PROVE  m[x] = a[x]
    <3>1. CASE x \in 1 .. Len(text) - c
      <4>1. c + x \in 1 .. Len(text) /\ x \in 1 .. Len(text) - c + 1
        BY <1>2, <2>2, <3>1
      <4> QED
        BY <2>3, <2>4, <2>5, <2>6, <3>1, <4>1
    <3>2. CASE x = Len(text) - c + 1
      <4>1. c + x = Len(text) + 1 /\ x \in 1 .. Len(text) - c + 1
        BY <1>2, <2>2, <3>2
      <4> QED
        BY <2>4, <2>5, <2>6, <3>2, <4>1
    <3>3. x \in 1 .. Len(text) - c \/ x = Len(text) - c + 1
      <4>1. Len(text) \in Nat /\ c \in 0 .. Len(text) /\ x \in 1 .. Len(text) - c + 1
        BY <1>2, <2>2, <2>4
      <4> QED
        BY <4>1
    <3> QED
      BY <3>1, <3>2, <3>3
  <2>8. m = a
    BY <2>4, <2>6, <2>7, SeqEqual
  <2> QED
    BY <1>2, <2>1, <2>8 DEF Rest, r, m, a, c, more
<1> QED
  BY <1>4, <1>5

(* A newline.                                                              *)
LEMMA LinesAndNewline ==
    ASSUME NEW text \in Seq(Bytes), Newline \in Bytes
    PROVE  /\ LinesOf(Append(text, Newline)) = Append(LinesOf(text), LineFor(Rest(text)))
           /\ Rest(Append(text, Newline)) = <<>>
<1> DEFINE more == Append(text, Newline)
           B == Breaks(text)
           C == B \cup {Len(text) + 1}
           K == Cardinality(B)
<1>1. Breaks(more) = C
  BY BreaksGrow
<1>2. more \in Seq(Bytes) /\ Len(more) = Len(text) + 1 /\ Len(text) \in Nat
  BY AppendProperties
<1>3. /\ Counted(B) /\ Counted(C) /\ K \in Nat /\ Cardinality(C) = K + 1
      /\ \A k \in 1 .. K : Nth(C, k) = Nth(B, k)
      /\ Nth(C, K + 1) = Len(text) + 1
  <2>1. Counted(B) /\ K \in Nat /\ B \subseteq 1 .. Len(text)
    BY BreaksAreCounted
  <2>2. \A x \in B : x < Len(text) + 1
    BY <1>2, <2>1
  <2>3. Len(text) + 1 \in Nat
    BY <1>2
  <2> HIDE DEF B, K
  <2>4. Counted(C) /\ Cardinality(C) = Cardinality(B) + 1
    BY <2>1, <2>2, <2>3, CountedOneMore
  <2>5. /\ \A k \in 1 .. Cardinality(B) : Nth(C, k) = Nth(B, k)
        /\ Nth(C, Cardinality(B) + 1) = Len(text) + 1
    BY <2>1, <2>2, <2>3, NthStays
  <2> QED
    BY <2>1, <2>4, <2>5 DEF K
<1>4. /\ \A k \in 0 .. K : EndOf(C, k) = EndOf(B, k)
      /\ EndOf(C, K + 1) = Len(text) + 1
  <2> HIDE DEF B, C, K
  <2> QED
    BY <1>3 DEF EndOf
<1>5. ASSUME NEW k \in 1 .. K
      PROVE  Piece(more, k) = Piece(text, k)
  <2>1. /\ k - 1 \in 0 .. K /\ k \in 0 .. K
    BY <1>3
  <2>2. EndOf(B, k - 1) \in 0 .. Len(text) /\ EndOf(B, k) \in 0 .. Len(text)
    BY <2>1, EndsAre
  <2>3. /\ EndOf(B, k - 1) + 1 \in Nat \ {0}
        /\ EndOf(B, k) - 1 \in Int /\ EndOf(B, k) - 1 <= Len(text)
    BY <1>2, <2>2
  <2>4. SubSeq(more, EndOf(B, k - 1) + 1, EndOf(B, k) - 1)
           = SubSeq(text, EndOf(B, k - 1) + 1, EndOf(B, k) - 1)
    BY <2>3, PieceStays
  <2>5. Piece(more, k) = SubSeq(more, EndOf(B, k - 1) + 1, EndOf(B, k) - 1)
    BY <1>1, <1>4, <2>1 DEF Piece
  <2> QED
    BY <2>4, <2>5 DEF Piece
<1>6. EndOf(B, K) = LastBreak(text)
  BY DEF EndOf, LastBreak
<1>7. LastBreak(text) \in 0 .. Len(text)
  BY RestIs
<1>8. Piece(more, K + 1) = Rest(text)
  <2>1. (K + 1) - 1 = K /\ (Len(text) + 1) - 1 = Len(text) /\ K \in 0 .. K
    BY <1>2, <1>3
  <2>2. Piece(more, K + 1) = SubSeq(more, LastBreak(text) + 1, Len(text))
    <3> HIDE DEF K, more, B, C
    <3> QED
      BY <1>1, <1>4, <1>6, <2>1 DEF Piece
  <2>3. LastBreak(text) + 1 \in Nat \ {0} /\ Len(text) \in Int /\ Len(text) <= Len(text)
    BY <1>2, <1>7
  <2>4. SubSeq(more, LastBreak(text) + 1, Len(text)) = SubSeq(text, LastBreak(text) + 1, Len(text))
    BY <2>3, PieceStays
  <2> QED
    BY <2>2, <2>4 DEF Rest
<1>9. LinesOf(more) = Append(LinesOf(text), LineFor(Rest(text)))
  <2> DEFINE L == LinesOf(text)
             M == LinesOf(more)
             A == Append(L, LineFor(Rest(text)))
  <2>1. /\ M = [k \in 1 .. K + 1 |-> LineFor(Piece(more, k))]
        /\ M \in Seq(OneLine) /\ Len(M) = K + 1
    <3>1. /\ M = [k \in 1 .. Cardinality(Breaks(more)) |-> LineFor(Piece(more, k))]
          /\ M \in Seq(OneLine) /\ Len(M) = Cardinality(Breaks(more))
      BY <1>2, LinesAre
    <3> HIDE DEF M, K, C, more
    <3> QED
      BY <1>1, <1>3, <3>1
  <2>2. /\ L = [k \in 1 .. K |-> LineFor(Piece(text, k))]
        /\ L \in Seq(OneLine) /\ Len(L) = K
    BY LinesAre
  <2> HIDE DEF L, M, K, more
  <2>3. /\ A \in Seq(OneLine) /\ Len(A) = K + 1
        /\ \A k \in 1 .. K : A[k] = L[k]
        /\ A[K + 1] = LineFor(Rest(text))
    <3>1. LineFor(Rest(text)) \in OneLine
      BY RestIs
    <3> DEFINE l == LineFor(Rest(text))
    <3>2. l \in OneLine
      BY <3>1
    <3> HIDE DEF l
    <3>3. /\ Append(L, l) \in Seq(OneLine) /\ Len(Append(L, l)) = Len(L) + 1
          /\ \A k \in 1 .. Len(L) : Append(L, l)[k] = L[k]
          /\ Append(L, l)[Len(L) + 1] = l
      <4>1. L \in Seq(OneLine)
        BY <2>2
      <4> QED
        BY <3>2, <4>1, AppendProperties
    <3> QED
      BY <2>2, <3>3 DEF l
  <2> HIDE DEF A
  <2>4. ASSUME NEW k \in 1 .. K + 1
        PROVE  M[k] = A[k]
    <3>1. M[k] = LineFor(Piece(more, k))
      BY <2>1
    <3>2. CASE k \in 1 .. K
      <4>1. A[k] = LineFor(Piece(text, k))
        BY <2>2, <2>3, <3>2
      <4> QED
        BY <1>5, <3>1, <3>2, <4>1
    <3>3. CASE k = K + 1
      BY <1>8, <2>3, <3>1, <3>3
    <3> QED
      BY <1>3, <3>2, <3>3
  <2>5. M = A
    BY <2>1, <2>3, <2>4, SeqEqual
  <2> QED
    BY <2>5 DEF L, M, A
<1>10. Rest(more) = <<>>
  <2>1. LastBreak(more) = Len(text) + 1
    <3>1. K + 1 # 0
      BY <1>3
    <3> HIDE DEF K, more, B, C
    <3> QED
      BY <1>1, <1>3, <3>1 DEF LastBreak
  <2>2. Rest(more) = SubSeq(more, (Len(text) + 1) + 1, Len(text) + 1)
    BY <1>2, <2>1 DEF Rest
  <2>3. Len(text) + 1 < (Len(text) + 1) + 1 /\ (Len(text) + 1) + 1 \in Int /\ Len(text) + 1 \in Int
    BY <1>2
  <2> QED
    BY <2>2, <2>3, SubSeqEmpty
<1> QED
  BY <1>9, <1>10

(* One byte, and all that is consumed of a chunk.                          *)
Scanning == [partial |-> partial, long |-> long, lines |-> found]
ScannerState == [partial : Seq(Bytes), long : BOOLEAN, lines : Seq(OneLine)]

LEMMA TakeByteTyped ==
    ASSUME NEW s \in ScannerState, NEW b \in Bytes
    PROVE  TakeByte(s, b) \in ScannerState
<1>1. s.partial \in Seq(Bytes) /\ s.long \in BOOLEAN /\ s.lines \in Seq(OneLine)
  BY DEF ScannerState
<1>2. CASE b = Newline
  <2>1. FinishLine(s.partial, s.long) \in OneLine
    BY <1>1, FinishedIsLine
  <2>2. Append(s.lines, FinishLine(s.partial, s.long)) \in Seq(OneLine) /\ <<>> \in Seq(Bytes)
    BY <1>1, <2>1
  <2> QED
    BY <1>2, <2>2 DEF TakeByte, ScannerState
<1>3. CASE b # Newline
  <2>1. Append(s.partial, b) \in Seq(Bytes)
    BY <1>1
  <2>2. Ending(Append(s.partial, b), PartialCap) \in Seq(Bytes)
    BY <2>1, EndingIs, CapsAreNumbers
  <2>3. (s.long \/ Len(s.partial) = PartialCap) \in BOOLEAN
    OBVIOUS
  <2> QED
    BY <1>3, <2>2, <2>3 DEF TakeByte, ScannerState
<1> QED
  BY <1>2, <1>3

LEMMA TakeByteReads ==
    ASSUME NEW before \in Seq(OneLine), NEW text \in Seq(Bytes), NEW b \in Bytes,
           NEW s \in ScannerState, HasRead(before, s, text)
    PROVE  HasRead(before, TakeByte(s, b), Append(text, b))
<1>1. s.partial \in Seq(Bytes) /\ s.long \in BOOLEAN /\ s.lines \in Seq(OneLine)
  BY DEF ScannerState
<1>2. /\ s.partial = Ending(Rest(text), PartialCap)
      /\ s.long = (Len(Rest(text)) > PartialCap)
      /\ before \o s.lines = LinesOf(text)
  BY DEF HasRead
<1>3. Rest(text) \in Seq(Bytes) /\ LineFor(Rest(text)) \in OneLine /\ PartialCap \in Nat
  BY RestIs, CapsAreNumbers
<1>4. CASE b = Newline
  <2> DEFINE l == LineFor(Rest(text))
             t == TakeByte(s, b)
  <2>1. FinishLine(s.partial, s.long) = l
    BY <1>2 DEF LineFor
  <2>2. t.partial = <<>> /\ t.long = FALSE /\ t.lines = Append(s.lines, l)
    BY <1>4, <2>1 DEF TakeByte
  <2>3. /\ LinesOf(Append(text, b)) = Append(LinesOf(text), l)
        /\ Rest(Append(text, b)) = <<>>
    BY <1>4, LinesAndNewline
  <2>4. Ending(<<>>, PartialCap) = <<>> /\ Len(<<>>) = 0
    <3>1. <<>> \in Seq(Bytes) /\ Len(<<>>) = 0
      OBVIOUS
    <3>2. /\ Ending(<<>>, PartialCap) \in Seq(Bytes)
          /\ Len(Ending(<<>>, PartialCap)) = Least(PartialCap, Len(<<>>))
          /\ Least(PartialCap, Len(<<>>)) \in 0 .. Len(<<>>)
      BY <1>3, <3>1, EndingIs
    <3>3. Len(Ending(<<>>, PartialCap)) = 0
      BY <3>1, <3>2
    <3> QED
      BY <3>1, <3>2, <3>3, EmptySeq
  <2>5. before \o Append(s.lines, l) = Append(before \o s.lines, l)
    <3>1. l \in OneLine
      BY <1>3
    <3> HIDE DEF l
    <3>2. /\ Append(s.lines, l) = s.lines \o <<l>> /\ <<l>> \in Seq(OneLine)
          /\ before \o s.lines \in Seq(OneLine)
      BY <1>1, <3>1, AppendIsConcat
    <3>3. Append(before \o s.lines, l) = (before \o s.lines) \o <<l>>
      BY <3>1, <3>2, AppendIsConcat
    <3> DEFINE m == s.lines
               o == <<l>>
    <3>4. (before \o s.lines) \o <<l>> = before \o (s.lines \o <<l>>)
      <4>1. m \in Seq(OneLine) /\ o \in Seq(OneLine)
        BY <1>1, <3>2
      <4> HIDE DEF m, o
      <4>2. (before \o m) \o o = before \o (m \o o)
        BY <4>1, ConcatAssociative
      <4> QED
        BY <4>2 DEF m, o
    <3> QED
      BY <3>2, <3>3, <3>4
  <2>6. ~ (0 > PartialCap)
    BY <1>3
  <2> HIDE DEF t, l
  <2>7. HasRead(before, t, Append(text, b))
    <3>1. t.partial = Ending(Rest(Append(text, b)), PartialCap)
      BY <2>2, <2>3, <2>4
    <3>2. t.long = (Len(Rest(Append(text, b))) > PartialCap)
      <4>1. (Len(Rest(Append(text, b))) > PartialCap) = FALSE
        BY <2>3, <2>4, <2>6
      <4>2. t.long = FALSE
        BY <2>2
      <4> QED
        BY <4>1, <4>2, Zenon
    <3>3. before \o t.lines = LinesOf(Append(text, b))
      BY <1>2, <2>2, <2>3, <2>5
    <3> QED
      BY <3>1, <3>2, <3>3 DEF HasRead
  <2> QED
    BY <2>7 DEF t
<1>5. CASE b # Newline
  <2> DEFINE r == Rest(text)
             t == TakeByte(s, b)
  <2>1. t.lines = s.lines /\ t.partial = Ending(Append(s.partial, b), PartialCap)
        /\ t.long = (s.long \/ Len(s.partial) = PartialCap)
    BY <1>5 DEF TakeByte, ScannerState
  <2>2. LinesOf(Append(text, b)) = LinesOf(text) /\ Rest(Append(text, b)) = Append(r, b)
    BY <1>5, LinesAndByte
  <2>3. Ending(Append(s.partial, b), PartialCap) = Ending(Append(r, b), PartialCap)
    <3>1. Append(r, b) = r \o <<b>> /\ <<b>> \in Seq(Bytes)
      BY <1>3, AppendIsConcat
    <3>2. Append(s.partial, b) = s.partial \o <<b>>
      BY <1>1, AppendIsConcat
    <3>3. Ending(Ending(r, PartialCap) \o <<b>>, PartialCap) = Ending(r \o <<b>>, PartialCap)
      BY <1>3, <3>1, EndingGrows
    <3> QED
      BY <1>2, <3>1, <3>2, <3>3
  <2>4. (s.long \/ Len(s.partial) = PartialCap) = (Len(Append(r, b)) > PartialCap)
    <3>1. Len(Append(r, b)) = Len(r) + 1 /\ Len(r) \in Nat
      BY <1>3, AppendProperties
    <3>2. Len(s.partial) = Least(PartialCap, Len(r))
      BY <1>2, <1>3, EndingIs
    <3>3. s.long = (Len(r) > PartialCap)
      BY <1>2
    <3> DEFINE n == Len(r)
               m == Len(Append(r, b))
               k == Len(s.partial)
    <3> HIDE DEF n, m, k, r
    <3>4. n \in Nat /\ m = n + 1 /\ k = Least(PartialCap, n) /\ s.long = (n > PartialCap)
      BY <3>1, <3>2, <3>3 DEF n, m, k
    <3>5. (s.long \/ k = PartialCap) <=> (m > PartialCap)
      <4>1. m > PartialCap <=> (n > PartialCap \/ n = PartialCap)
        BY <1>3, <3>4
      <4>2. k = PartialCap <=> n >= PartialCap
        BY <1>3, <3>4 DEF Least
      <4>3. n >= PartialCap <=> (n > PartialCap \/ n = PartialCap)
        BY <1>3, <3>4
      <4> QED
        BY <3>4, <4>1, <4>2, <4>3
    <3> QED
      BY <3>5 DEF n, m, k
  <2> HIDE DEF t, r
  <2>5. HasRead(before, t, Append(text, b))
    BY <1>2, <2>1, <2>2, <2>3, <2>4 DEF HasRead
  <2> QED
    BY <2>5 DEF t
<1> QED
  BY <1>4, <1>5

(* Text appended in pieces reads the same whichever pieces are joined first. *)
LEMMA TextsAssociate ==
  ASSUME NEW a \in Seq(Bytes), NEW b \in Seq(Bytes), NEW c \in Seq(Bytes)
  PROVE  a \o (b \o c) = (a \o b) \o c
BY ConcatAssociative, SMTT(60)

(* The recursive function of Taken is there, and reads the chunk.          *)
LEMMA TakenReads ==
    ASSUME NEW chunk \in Seq(Bytes), NEW before \in Seq(OneLine), NEW text \in Seq(Bytes),
           Scanning \in ScannerState
    PROVE  /\ Taken(chunk) \in ScannerState
           /\ HasRead(before, Scanning, text) => HasRead(before, Taken(chunk), text \o chunk)
<1> DEFINE total == Len(chunk)
           start == Scanning
           Step(f, n) == IF n = 0 THEN start ELSE TakeByte(f[n - 1], chunk[n])
           Good(n) == \E f \in [0 .. n -> ScannerState] : \A i \in 0 .. n : f[i] = Step(f, i)
<1>1. total \in Nat /\ \A n \in 1 .. total : chunk[n] \in Bytes
  OBVIOUS
<1>2. start \in ScannerState
  OBVIOUS
<1> HIDE DEF start
<1>3. ASSUME NEW f, NEW n \in 0 .. total, n # 0 => f[n - 1] \in ScannerState
      PROVE  Step(f, n) \in ScannerState
  <2>1. CASE n = 0
    BY <1>2, <2>1
  <2>2. CASE n # 0
    <3>1. n \in 1 .. total
      BY <1>1, <2>2
    <3>2. TakeByte(f[n - 1], chunk[n]) \in ScannerState
      BY <1>1, <1>3, <2>2, <3>1, TakeByteTyped
    <3> QED
      BY <2>2, <3>2
  <2> QED
    BY <2>1, <2>2
<1>4. Good(0)
  <2> DEFINE f == [i \in 0 .. 0 |-> start]
  <2>1. f \in [0 .. 0 -> ScannerState] /\ \A i \in 0 .. 0 : f[i] = Step(f, i)
    BY <1>2
  <2> QED
    BY <2>1
<1>5. ASSUME NEW n \in 1 .. total, Good(n - 1)
      PROVE  Good(n)
  <2>1. PICK f \in [0 .. n - 1 -> ScannerState] : \A i \in 0 .. n - 1 : f[i] = Step(f, i)
    BY <1>5
  <2>2. f[n - 1] \in ScannerState /\ n \in 0 .. total
    BY <1>1
  <2>3. Step(f, n) \in ScannerState
    <3> HIDE DEF Step
    <3> QED
      BY <1>3, <2>2
  <2> DEFINE g == [i \in 0 .. n |-> IF i < n THEN f[i] ELSE Step(f, n)]
  <2>4. g \in [0 .. n -> ScannerState]
    <3> HIDE DEF Step
    <3> QED
      BY <1>1, <2>3
  <2>5. \A i \in 0 .. n : g[i] = Step(g, i)
    <3> SUFFICES ASSUME NEW i \in 0 .. n PROVE g[i] = Step(g, i)
      OBVIOUS
    <3>1. i # 0 => g[i - 1] = f[i - 1]
      BY <1>1
    <3>2. g[i] = Step(f, i)
      <4>1. CASE i < n
        <5>1. i \in 0 .. n - 1 /\ g[i] = f[i]
          BY <1>1, <4>1
        <5> HIDE DEF Step
        <5> QED
          BY <2>1, <5>1
      <4>2. CASE ~ (i < n)
        <5>1. i = n /\ g[i] = Step(f, n)
          BY <1>1, <4>2
        <5> HIDE DEF Step
        <5> QED
          BY <5>1
      <4> QED
        BY <4>1, <4>2
    <3> HIDE DEF g
    <3> QED
      BY <3>1, <3>2
  <2> HIDE DEF Step
  <2> QED
    BY <2>4, <2>5
<1>6. Good(total)
  <2> DEFINE T == {n \in Nat : n <= total => Good(n)}
  <2> HIDE DEF Good
  <2>1. 0 \in T
    BY <1>4
  <2>2. ASSUME NEW n \in Nat, n \in T PROVE n + 1 \in T
    <3> SUFFICES ASSUME n + 1 <= total PROVE Good(n + 1)
      OBVIOUS
    <3>1. Good(n) /\ n + 1 \in 1 .. total /\ (n + 1) - 1 = n
      BY <1>1, <2>2
    <3> QED
      BY <1>5, <3>1
  <2>3. Nat \subseteq T
    <3> HIDE DEF T
    <3> QED
      BY <2>1, <2>2, Climb
  <2> QED
    BY <1>1, <2>3
<1> DEFINE after == CHOOSE f : f = [n \in 0 .. total |-> Step(f, n)]
<1>7. after = [n \in 0 .. total |-> Step(after, n)]
  <2>1. PICK f \in [0 .. total -> ScannerState] : \A i \in 0 .. total : f[i] = Step(f, i)
    BY <1>6
  <2>2. f = [n \in 0 .. total |-> Step(f, n)]
    <3> HIDE DEF Step
    <3> QED
      BY <2>1
  <2> QED
    BY <2>2
<1>8. Taken(chunk) = after[total]
  BY DEF Taken, start, Scanning
<1> HIDE DEF after
<1>9. /\ after[0] = start
      /\ \A n \in 1 .. total : after[n] = TakeByte(after[n - 1], chunk[n])
  <2> HIDE DEF total
  <2>1. \A n \in 0 .. total : after[n] = Step(after, n)
    BY <1>7
  <2>2. 0 \in 0 .. total /\ \A n \in 1 .. total : n \in 0 .. total /\ n # 0
    BY <1>1
  <2> QED
    BY <2>1, <2>2
<1> HIDE DEF Step, Good
<1> DEFINE so(n) == text \o SubSeq(chunk, 1, n)
           Read(n) == /\ after[n] \in ScannerState
                      /\ HasRead(before, start, text) => HasRead(before, after[n], so(n))
           T == {n \in Nat : n <= total => Read(n)}
<1>10. 0 \in T
  <2>1. SubSeq(chunk, 1, 0) = <<>>
    BY SubSeqEmpty
  <2>2. so(0) = text
    BY <2>1, ConcatEmptySeq
  <2> HIDE DEF so, total
  <2>3. Read(0)
    BY <1>2, <1>9, <2>2
  <2> HIDE DEF Read
  <2> QED
    BY <2>3
<1>11. ASSUME NEW n \in Nat, n \in T PROVE n + 1 \in T
  <2> SUFFICES ASSUME n + 1 <= total PROVE Read(n + 1)
    OBVIOUS
  <2>1. Read(n) /\ n + 1 \in 1 .. total /\ (n + 1) - 1 = n
    BY <1>1, <1>11
  <2>2. chunk[n + 1] \in Bytes /\ after[n + 1] = TakeByte(after[n], chunk[n + 1])
    BY <1>1, <1>9, <2>1
  <2>3. SubSeq(chunk, 1, n) \in Seq(Bytes) /\ so(n) \in Seq(Bytes)
    <3>1. n <= Len(chunk) /\ 1 \in Nat \ {0} /\ n \in Int
      BY <1>1
    <3>2. SubSeq(chunk, 1, n) \in Seq(Bytes)
      BY <3>1, SubSeqTyped
    <3> QED
      BY <3>2, ConcatProperties
  <2>4. so(n + 1) = Append(so(n), chunk[n + 1])
    <3>1. SubSeq(chunk, 1, n + 1) = SubSeq(chunk, 1, n) \o <<chunk[n + 1]>>
      <4>1. 1 \in 1 .. Len(chunk) /\ n + 1 \in 1 .. Len(chunk)
        BY <1>1, <2>1
      <4>2. SubSeq(chunk, 1, n + 1) = SubSeq(chunk, 1, (n + 1) - 1) \o <<chunk[n + 1]>>
        BY <4>1, SubSeqRecursiveSecond
      <4> QED
        BY <2>1, <4>2
    <3>2. <<chunk[n + 1]>> \in Seq(Bytes)
      BY <2>2
    <3>3. text \o (SubSeq(chunk, 1, n) \o <<chunk[n + 1]>>)
             = (text \o SubSeq(chunk, 1, n)) \o <<chunk[n + 1]>>
      BY <2>3, <3>2, TextsAssociate
    <3>4. Append(so(n), chunk[n + 1]) = so(n) \o <<chunk[n + 1]>>
      <4> HIDE DEF so
      <4> QED
        BY <2>2, <2>3, AppendIsConcat
    <3> QED
      BY <3>1, <3>3, <3>4
  <2> HIDE DEF so, total
  <2>5. /\ TakeByte(after[n], chunk[n + 1]) \in ScannerState
        /\ HasRead(before, after[n], so(n))
              => HasRead(before, TakeByte(after[n], chunk[n + 1]), Append(so(n), chunk[n + 1]))
    BY <2>1, <2>2, <2>3, TakeByteTyped, TakeByteReads
  <2> QED
    BY <2>1, <2>2, <2>4, <2>5
<1>12. Nat \subseteq T
  <2> HIDE DEF T
  <2> QED
    BY <1>10, <1>11, Climb
<1>13. Read(total)
  <2> HIDE DEF Read
  <2> QED
    BY <1>1, <1>12
<1>14. SubSeq(chunk, 1, total) = chunk
  BY SubSeqFull
<1> QED
  BY <1>8, <1>13, <1>14 DEF start

-----------------------------------------------------------------------------
(* What is known of the log while it is read.                              *)
Early == {"create", "look", "open", "check"}

LogTypes ==
    /\ bytes \in Seq(Bytes) /\ heard \in Seq(Bytes)
    /\ offset \in Nat /\ Len(heard) = offset /\ crossed \in 0 .. offset
    /\ partial \in Seq(Bytes) /\ long \in BOOLEAN /\ tail \in Seq(Bytes)
    /\ found \in Seq(OneLine) /\ given \in Seq(OneLine)

(* Nothing is known of a text that was not begun, between two polls no     *)
(* line is held back, and a log that is being made was not read.           *)
LogBegins ==
    /\ offset = 0 => /\ partial = <<>> /\ long = FALSE /\ tail = <<>>
                     /\ found = <<>> /\ given = <<>>
    /\ place = "poll" => found = <<>>
    /\ place \in Early => offset = 0

Knows(text, before, s, end) ==
    HasRead(before, s, text) /\ end = Ending(text, RetainCap)

(* What was read behind the last unnoticed cut is what the file holds.     *)
HeardIsHeld ==
    /\ crossed < offset => offset <= Len(bytes)
    /\ \A i \in crossed + 1 .. offset : heard[i] = bytes[i]

LogKept ==
    place \in {"poll", "reading"} => Knows(heard, given, Scanning, tail) /\ HeardIsHeld

LogInv == LogTypes /\ LogBegins /\ LogKept

Fresh == [partial |-> <<>>, long |-> FALSE, lines |-> <<>>]

LEMMA NothingRead ==
    /\ HasRead(<<>>, Fresh, <<>>)
    /\ \A n \in Nat : Ending(<<>>, n) = <<>>
<1>1. <<>> \in Seq(Bytes) /\ <<>> \in Seq(OneLine) /\ Len(<<>>) = 0
  OBVIOUS
<1>2. ASSUME NEW n \in Nat
      PROVE  Ending(<<>>, n) = <<>>
  <2>1. /\ Ending(<<>>, n) \in Seq(Bytes)
        /\ Len(Ending(<<>>, n)) = Least(n, Len(<<>>))
        /\ Least(n, Len(<<>>)) \in 0 .. Len(<<>>)
    BY <1>1, EndingIs
  <2>2. Len(Ending(<<>>, n)) = 0
    BY <1>1, <2>1
  <2> QED
    BY <1>1, <2>1, <2>2, EmptySeq
<1>3. Breaks(<<>>) = {} /\ Cardinality(Breaks(<<>>)) = 0
  <2>1. Breaks(<<>>) = {}
    BY <1>1 DEF Breaks
  <2> QED
    BY <2>1, FS_EmptySet
<1>4. Rest(<<>>) = <<>>
  <2>1. LastBreak(<<>>) = 0
    BY <1>3 DEF LastBreak
  <2>2. Rest(<<>>) = SubSeq(<<>>, 1, 0)
    BY <1>1, <2>1 DEF Rest
  <2> QED
    BY <2>2, SubSeqEmpty
<1>5. LinesOf(<<>>) = <<>>
  <2>1. LinesOf(<<>>) \in Seq(OneLine) /\ Len(LinesOf(<<>>)) = 0
    BY <1>1, <1>3, LinesAre
  <2> QED
    BY <1>1, <2>1, EmptySeq
<1>6. ~ (Len(<<>>) > PartialCap) /\ PartialCap \in Nat /\ <<>> \o <<>> = <<>>
  BY <1>1, CapsAreNumbers, ConcatEmptySeq
<1>7. /\ Fresh.partial = <<>> /\ Fresh.lines = <<>>
      /\ Fresh.long = (Len(Rest(<<>>)) > PartialCap)
  <2>1. Fresh.partial = <<>> /\ Fresh.lines = <<>> /\ Fresh.long = FALSE
    BY DEF Fresh
  <2>2. ~ (0 > PartialCap)
    BY <1>6
  <2>3. (Len(Rest(<<>>)) > PartialCap) = FALSE
    BY <1>1, <1>4, <2>2
  <2> QED
    BY <2>1, <2>3, Zenon
<1>8. Ending(Rest(<<>>), PartialCap) = <<>>
  BY <1>2, <1>4, <1>6
<1>9. HasRead(<<>>, Fresh, <<>>)
  BY <1>5, <1>6, <1>7, <1>8 DEF HasRead
<1> QED
  BY <1>2, <1>9

LEMMA FreshIsKnown == Knows(<<>>, <<>>, Fresh, <<>>)
BY NothingRead, CapsAreNumbers DEF Knows

LEMMA UnreadIsKnown ==
    ASSUME LogTypes, offset = 0, partial = <<>>, long = FALSE, tail = <<>>, found = <<>>,
           given = <<>>
    PROVE  Knows(heard, given, Scanning, tail) /\ HeardIsHeld
<1>1. heard = <<>>
  BY EmptySeq DEF LogTypes
<1>2. Scanning = Fresh
  BY DEF Scanning, Fresh
<1>3. HeardIsHeld
  BY DEF HeardIsHeld, LogTypes
<1> QED
  BY <1>1, <1>2, <1>3, FreshIsKnown

(* Steps that leave what was read alone.                                   *)
LEMMA ReadStays ==
    ASSUME LogInv, UNCHANGED <<bytes, ghosts, offset, partial, long, tail, found, given>>,
           \/ place \in Early /\ place' \in Early \cup {"poll", "failed"}
           \/ place' = "failed"
           \/ place' = place
    PROVE  LogInv'
<1>1. LogTypes'
  BY DEF LogInv, LogTypes, ghosts
<1>2. LogBegins'
  <2>1. offset' = 0 => /\ partial' = <<>> /\ long' = FALSE /\ tail' = <<>>
                       /\ found' = <<>> /\ given' = <<>>
    BY DEF LogInv, LogBegins
  <2>2. place' = "poll" => found' = <<>>
    BY DEF LogInv, LogBegins, Early
  <2>3. place' \in Early => offset' = 0
    BY DEF LogInv, LogBegins, Early
  <2> QED
    BY <2>1, <2>2, <2>3 DEF LogBegins
<1>3. LogKept'
  <2>1. CASE place' = "failed"
    BY <2>1 DEF LogKept
  <2>2. CASE place \in Early /\ place' \in Early \cup {"poll", "failed"}
    <3>1. /\ offset = 0 /\ partial = <<>> /\ long = FALSE
          /\ tail = <<>> /\ found = <<>> /\ given = <<>>
      BY <2>2 DEF LogInv, LogBegins
    <3>2. Knows(heard, given, Scanning, tail) /\ HeardIsHeld
      BY <3>1, UnreadIsKnown DEF LogInv
    <3> QED
      BY <3>2 DEF LogKept, Knows, HasRead, Scanning, HeardIsHeld, ghosts
  <2>3. CASE place' = place
    BY <2>3 DEF LogInv, LogKept, Knows, HasRead, Scanning, HeardIsHeld, ghosts
  <2> QED
    BY <2>1, <2>2, <2>3
<1> QED
  BY <1>1, <1>2, <1>3 DEF LogInv

LEMMA LogInitIsFresh == LogInit => LogInv
<1> SUFFICES ASSUME LogInit PROVE LogInv
  OBVIOUS
<1>1. LogTypes /\ LogBegins
  <2>1. /\ <<>> \in Seq(Bytes) /\ <<>> \in Seq(OneLine) /\ 0 \in Nat /\ FALSE \in BOOLEAN
        /\ Len(<<>>) = 0 /\ 0 \in 0 .. 0
    OBVIOUS
  <2>2. LogTypes
    BY <2>1 DEF LogInit, LogTypes
  <2> QED
    BY <2>2 DEF LogInit, LogBegins
<1>2. LogKept
  BY DEF LogInit, LogKept
<1> QED
  BY <1>1, <1>2 DEF LogInv

LEMMA ChildWritesKeeps == LogInv /\ ChildWrites => LogInv'
<1> SUFFICES ASSUME LogInv, ChildWrites PROVE LogInv'
  OBVIOUS
<1>1. PICK b \in Bytes : bytes' = Append(bytes, b)
  BY DEF ChildWrites
<1>2. /\ UNCHANGED <<place, heard, crossed, offset, partial, long, tail, found, given>>
      /\ place \notin Early
  BY DEF ChildWrites, scanner, poll, ghosts, Early
<1>3. bytes \in Seq(Bytes) /\ offset \in Nat /\ crossed \in 0 .. offset
  BY DEF LogInv, LogTypes
<1>4. /\ bytes' \in Seq(Bytes) /\ Len(bytes') = Len(bytes) + 1 /\ Len(bytes) \in Nat
      /\ \A i \in 1 .. Len(bytes) : bytes'[i] = bytes[i]
  BY <1>1, <1>3, AppendProperties
<1>5. LogTypes' /\ LogBegins'
  BY <1>2, <1>4 DEF LogInv, LogTypes, LogBegins
<1>6. ASSUME HeardIsHeld PROVE HeardIsHeld'
  <2>1. crossed' < offset' => offset' <= Len(bytes')
    BY <1>2, <1>3, <1>4, <1>6 DEF HeardIsHeld
  <2>2. ASSUME NEW i \in crossed + 1 .. offset
        PROVE  heard'[i] = bytes'[i]
    <3>1. i \in 1 .. Len(bytes)
      BY <1>3, <1>4, <1>6 DEF HeardIsHeld
    <3> QED
      BY <1>2, <1>4, <1>6, <3>1 DEF HeardIsHeld
  <2> QED
    BY <1>2, <2>1, <2>2 DEF HeardIsHeld
<1>7. LogKept'
  BY <1>2, <1>6 DEF LogInv, LogKept, Knows, HasRead, Scanning
<1> QED
  BY <1>5, <1>7 DEF LogInv

LEMMA CutKeeps == LogInv /\ Cut => LogInv'
<1> SUFFICES ASSUME LogInv, Cut PROVE LogInv'
  OBVIOUS
<1>1. /\ UNCHANGED <<place, heard, offset, partial, long, tail, found, given>>
      /\ bytes' = <<>> /\ crossed' = offset
  BY DEF Cut, scanner, poll
<1>2. LogTypes' /\ LogBegins'
  <2>1. <<>> \in Seq(Bytes)
    OBVIOUS
  <2> QED
    BY <1>1, <2>1 DEF LogInv, LogTypes, LogBegins
<1>3. HeardIsHeld'
  <2>1. offset \in Nat
    BY DEF LogInv, LogTypes
  <2> QED
    BY <1>1, <2>1 DEF HeardIsHeld
<1>4. LogKept'
  BY <1>1, <1>3 DEF LogInv, LogKept, Knows, HasRead, Scanning
<1> QED
  BY <1>2, <1>4 DEF LogInv

LEMMA PollBeginsKeeps == LogInv /\ PollBegins => LogInv'
<1> SUFFICES ASSUME LogInv, PollBegins PROVE LogInv'
  OBVIOUS
<1>1. /\ place = "poll" /\ place' = "reading" /\ found' = <<>> /\ found = <<>> /\ bytes' = bytes
  BY DEF PollBegins, LogInv, LogBegins
<1>2. bytes \in Seq(Bytes) /\ offset \in Nat /\ Len(bytes) \in Nat
  BY DEF LogInv, LogTypes
<1>3. CASE Len(bytes) < offset
  <2>1. /\ offset' = 0 /\ partial' = <<>> /\ long' = FALSE /\ tail' = <<>> /\ given' = <<>>
        /\ heard' = <<>> /\ crossed' = 0
    BY <1>3 DEF PollBegins
  <2>2. LogTypes' /\ LogBegins'
    <3>1. /\ <<>> \in Seq(Bytes) /\ <<>> \in Seq(OneLine) /\ 0 \in Nat /\ FALSE \in BOOLEAN
          /\ Len(<<>>) = 0 /\ 0 \in 0 .. 0
      OBVIOUS
    <3>2. LogTypes'
      BY <1>1, <1>2, <2>1, <3>1 DEF LogTypes
    <3> QED
      BY <1>1, <2>1, <3>2 DEF LogBegins, Early
  <2>3. Scanning' = Fresh
    BY <1>1, <2>1 DEF Scanning, Fresh
  <2>4. HeardIsHeld'
    BY <2>1 DEF HeardIsHeld
  <2>5. LogKept'
    BY <2>1, <2>3, <2>4, FreshIsKnown DEF LogKept, Knows, HasRead
  <2> QED
    BY <2>2, <2>5 DEF LogInv
<1>4. CASE ~ (Len(bytes) < offset)
  <2>1. UNCHANGED <<offset, partial, long, tail, given, heard, crossed>>
    BY <1>4 DEF PollBegins, scanner, ghosts
  <2>2. LogTypes' /\ LogBegins'
    BY <1>1, <2>1 DEF LogInv, LogTypes, LogBegins, Early
  <2>3. LogKept'
    BY <1>1, <2>1 DEF LogInv, LogKept, Knows, HasRead, Scanning, HeardIsHeld
  <2> QED
    BY <2>2, <2>3 DEF LogInv
<1> QED
  BY <1>3, <1>4

LEMMA PollEndsKeeps == LogInv /\ PollEnds => LogInv'
<1> SUFFICES ASSUME LogInv, PollEnds PROVE LogInv'
  OBVIOUS
<1>1. /\ place = "reading" /\ place' = "poll" /\ found' = <<>> /\ given' = given \o found
      /\ UNCHANGED <<bytes, heard, crossed, offset, partial, long, tail>>
  BY DEF PollEnds, EndPoll, scanner, ghosts
<1>2. found \in Seq(OneLine) /\ given \in Seq(OneLine)
  BY DEF LogInv, LogTypes
<1>3. given' \in Seq(OneLine) /\ given' \o <<>> = given'
  <2>1. given \o found \in Seq(OneLine)
    BY <1>2, ConcatProperties
  <2> QED
    BY <1>1, <2>1, ConcatEmptySeq
<1>4. LogTypes'
  BY <1>1, <1>3 DEF LogInv, LogTypes
<1>5. LogBegins'
  <2>1. offset = 0 => given' = <<>>
    <3>1. offset = 0 => given = <<>> /\ found = <<>>
      BY DEF LogInv, LogBegins
    <3>2. <<>> \o <<>> = <<>>
      BY NothingRead, ConcatEmptySeq
    <3> QED
      BY <1>1, <3>1, <3>2
  <2> QED
    BY <1>1, <2>1 DEF LogInv, LogBegins, Early
<1>6. LogKept'
  <2>1. /\ Scanning'.partial = Scanning.partial /\ Scanning'.long = Scanning.long
        /\ given' \o Scanning'.lines = given \o Scanning.lines
    BY <1>1, <1>3 DEF Scanning
  <2> QED
    BY <1>1, <2>1 DEF LogInv, LogKept, Knows, HasRead, HeardIsHeld
<1> QED
  BY <1>4, <1>5, <1>6 DEF LogInv

(* What is read and used of the log, of as much as was asked for.          *)
LEMMA ReadAdds ==
    ASSUME bytes \in Seq(Bytes), offset \in Nat, NEW n \in Nat \ {0}, offset + n <= Len(bytes),
           NEW budget \in Nat \ {0}
    PROVE  LET chunk == SubSeq(bytes, offset + 1, offset + n)
               used  == Consumed(chunk, budget)
           IN  /\ used \in 1 .. n
               /\ SubSeq(chunk, 1, used) \in Seq(Bytes)
               /\ offset + used <= Len(bytes)
               /\ Len(SubSeq(chunk, 1, used)) = used
               /\ \A i \in 1 .. used : SubSeq(chunk, 1, used)[i] = bytes[offset + i]
<1> DEFINE chunk == SubSeq(bytes, offset + 1, offset + n)
           used  == Consumed(chunk, budget)
<1>1. Len(bytes) \in Nat
  OBVIOUS
<1>2. offset + 1 \in Nat \ {0} /\ offset + n \in Int /\ offset + 1 <= offset + n
  OBVIOUS
<1>3. chunk \in Seq(Bytes) /\ Len(chunk) = n
  <2>1. /\ chunk \in Seq(Bytes)
        /\ Len(chunk) = IF offset + 1 <= offset + n THEN (offset + n) - (offset + 1) + 1 ELSE 0
    BY <1>2, SubSeqTyped
  <2>2. (offset + n) - (offset + 1) + 1 = n
    OBVIOUS
  <2> QED
    BY <1>2, <2>1, <2>2
<1>4. chunk # <<>>
  <2>1. Len(<<>>) = 0 /\ n # 0
    OBVIOUS
  <2> HIDE DEF chunk
  <2> QED
    BY <1>3, <2>1
<1>5. used \in 1 .. n
  <2> HIDE DEF chunk
  <2>1. Consumed(chunk, budget) \in 1 .. Len(chunk)
    BY <1>3, <1>4, ConsumedIsSome
  <2> QED
    BY <1>3, <2>1
<1>6. SubSeq(chunk, 1, used) \in Seq(Bytes)
  <2> HIDE DEF chunk, used
  <2>1. 1 \in Nat \ {0} /\ used \in Int /\ used <= Len(chunk)
    BY <1>3, <1>5
  <2> QED
    BY <1>3, <2>1, SubSeqTyped
<1>7. offset + used <= Len(bytes)
  <2> HIDE DEF chunk, used
  <2> QED
    BY <1>1, <1>5
<1>8. SubSeq(chunk, 1, used) = SubSeq(bytes, offset + 1, offset + used)
  <2> HIDE DEF used
  <2>1. /\ offset + 1 \in 1 .. Len(bytes) /\ offset + n \in 1 .. Len(bytes)
        /\ 1 \in 1 .. (offset + n) - (offset + 1) + 1
        /\ used \in 1 .. (offset + n) - (offset + 1) + 1
    BY <1>1, <1>5
  <2>2. SubSeq(SubSeq(bytes, offset + 1, offset + n), 1, used)
           = SubSeq(bytes, (offset + 1) + 1 - 1, (offset + 1) + used - 1)
    BY <2>1, SubSeqOfSubSeq
  <2>3. (offset + 1) + 1 - 1 = offset + 1 /\ (offset + 1) + used - 1 = offset + used
    BY <1>5
  <2> QED
    BY <2>2, <2>3
<1>9. /\ Len(SubSeq(bytes, offset + 1, offset + used)) = used
      /\ \A i \in 1 .. used : SubSeq(bytes, offset + 1, offset + used)[i] = bytes[offset + i]
  <2> HIDE DEF used, chunk
  <2>1. /\ offset + used \in Int /\ offset + 1 <= offset + used
        /\ (offset + used) - (offset + 1) + 1 = used
        /\ \A i \in 1 .. used : (offset + 1) + i - 1 = offset + i
    BY <1>5
  <2>2. /\ Len(SubSeq(bytes, offset + 1, offset + used))
                = IF offset + 1 <= offset + used THEN (offset + used) - (offset + 1) + 1 ELSE 0
        /\ \A i \in 1 .. (offset + used) - (offset + 1) + 1 :
              SubSeq(bytes, offset + 1, offset + used)[i] = bytes[(offset + 1) + i - 1]
    BY <1>2, <1>7, <2>1, SubSeqTyped
  <2> QED
    BY <2>1, <2>2
<1> HIDE DEF used, chunk
<1>10. /\ used \in 1 .. n /\ SubSeq(chunk, 1, used) \in Seq(Bytes)
       /\ offset + used <= Len(bytes) /\ Len(SubSeq(chunk, 1, used)) = used
       /\ \A i \in 1 .. used : SubSeq(chunk, 1, used)[i] = bytes[offset + i]
  BY <1>5, <1>6, <1>7, <1>8, <1>9
<1> QED
  BY <1>10 DEF used, chunk

LEMMA ReadChunkKeeps == LogInv /\ ReadChunk => LogInv'
<1> SUFFICES ASSUME LogInv, ReadChunk PROVE LogInv'
  OBVIOUS
<1>1. /\ bytes \in Seq(Bytes) /\ offset \in Nat /\ Len(bytes) \in Nat
      /\ partial \in Seq(Bytes) /\ long \in BOOLEAN /\ tail \in Seq(Bytes)
      /\ found \in Seq(OneLine) /\ given \in Seq(OneLine) /\ Len(found) \in Nat
      /\ heard \in Seq(Bytes) /\ Len(heard) = offset /\ crossed \in 0 .. offset
  BY DEF LogInv, LogTypes
<1>2. PollLines - Len(found) \in Nat \ {0}
  <2>1. ~ (Len(found) >= PollLines)
    BY DEF ReadChunk, PollOver
  <2> QED
    BY <1>1, <2>1, CapsAreNumbers
<1>3. PICK n \in 1 .. Least(Least(left, ChunkSize), PollBytes - done) :
         /\ offset + n <= Len(bytes)
         /\ LET chunk == SubSeq(bytes, offset + 1, offset + n)
                used  == Consumed(chunk, PollLines - Len(found))
                taken == Taken(SubSeq(chunk, 1, used))
            IN /\ partial' = taken.partial /\ long' = taken.long
               /\ tail' = Retain(SubSeq(chunk, 1, used))
               /\ offset' = offset + used
               /\ heard' = heard \o SubSeq(chunk, 1, used)
               /\ IF used < n
                  THEN EndPoll(taken.lines)
                  ELSE /\ left' = left - used /\ done' = done + used
                       /\ found' = taken.lines
                       /\ UNCHANGED <<place, given>>
  BY DEF ReadChunk
<1> DEFINE chunk == SubSeq(bytes, offset + 1, offset + n)
           used  == Consumed(chunk, PollLines - Len(found))
           piece == SubSeq(chunk, 1, used)
           taken == Taken(piece)
<1>4. /\ partial' = taken.partial /\ long' = taken.long
      /\ tail' = Retain(piece) /\ offset' = offset + used /\ heard' = heard \o piece
      /\ \/ /\ given' = given \o taken.lines /\ place' = "poll" /\ found' = <<>>
         \/ /\ given' = given /\ place' = place /\ found' = taken.lines
      /\ bytes' = bytes /\ crossed' = crossed /\ place = "reading"
  <2>1. /\ partial' = taken.partial /\ long' = taken.long
        /\ tail' = Retain(piece) /\ offset' = offset + used /\ heard' = heard \o piece
        /\ IF used < n
           THEN EndPoll(taken.lines)
           ELSE /\ left' = left - used /\ done' = done + used
                /\ found' = taken.lines
                /\ UNCHANGED <<place, given>>
    BY <1>3
  <2>2. bytes' = bytes /\ crossed' = crossed /\ place = "reading"
    BY DEF ReadChunk
  <2> HIDE DEF used, taken, piece
  <2> QED
    BY <2>1, <2>2 DEF EndPoll
<1>5. /\ used \in 1 .. n /\ piece \in Seq(Bytes) /\ offset + used <= Len(bytes)
      /\ Len(piece) = used /\ \A i \in 1 .. used : piece[i] = bytes[offset + i]
  <2>1. n \in Nat \ {0} /\ offset + n <= Len(bytes)
    BY <1>3
  <2> QED
    BY <1>1, <1>2, <2>1, ReadAdds
<1> HIDE DEF piece, used, chunk
<1>6. /\ taken \in ScannerState
      /\ HasRead(given, Scanning, heard) => HasRead(given, taken, heard \o piece)
  <2>1. Scanning \in ScannerState
    BY <1>1 DEF Scanning, ScannerState
  <2> QED
    BY <1>1, <1>5, <2>1, TakenReads
<1> HIDE DEF taken
<1>7. taken.partial \in Seq(Bytes) /\ taken.long \in BOOLEAN /\ taken.lines \in Seq(OneLine)
  BY <1>6 DEF ScannerState
<1>8. Retain(piece) \in Seq(Bytes)
  <2>1. tail \o piece \in Seq(Bytes)
    BY <1>1, <1>5, ConcatProperties
  <2> QED
    BY <2>1, EndingIs, CapsAreNumbers DEF Retain
<1>9. /\ given \o taken.lines \in Seq(OneLine)
      /\ (given \o taken.lines) \o <<>> = given \o taken.lines
  <2>1. given \o taken.lines \in Seq(OneLine)
    BY <1>1, <1>7, ConcatProperties
  <2> QED
    BY <2>1, ConcatEmptySeq
<1>10. /\ heard' \in Seq(Bytes) /\ Len(heard') = offset' /\ crossed' \in 0 .. offset'
       /\ \A i \in 1 .. offset + used :
             heard'[i] = IF i <= offset THEN heard[i] ELSE piece[i - offset]
  <2>1. /\ heard \o piece \in Seq(Bytes) /\ Len(heard \o piece) = Len(heard) + Len(piece)
        /\ \A i \in 1 .. Len(heard) + Len(piece) :
              (heard \o piece)[i] = IF i <= Len(heard) THEN heard[i] ELSE piece[i - Len(heard)]
    BY <1>1, <1>5, ConcatProperties
  <2>2. crossed' \in 0 .. offset'
    BY <1>1, <1>4, <1>5
  <2> QED
    BY <1>1, <1>4, <1>5, <2>1, <2>2
<1>11. offset' \in Nat /\ offset' # 0
  <2>1. used \in Nat /\ used >= 1
    BY <1>5
  <2> QED
    BY <1>1, <1>4, <2>1
<1>12. LogTypes'
  <2>1. <<>> \in Seq(OneLine)
    OBVIOUS
  <2> QED
    BY <1>1, <1>4, <1>7, <1>8, <1>9, <1>10, <1>11, <2>1 DEF LogTypes
<1>13. LogBegins'
  BY <1>4, <1>11 DEF LogBegins, Early
<1>14. HeardIsHeld'
  <2>1. HeardIsHeld
    BY <1>4 DEF LogInv, LogKept
  <2>2. crossed' < offset' => offset' <= Len(bytes')
    BY <1>4, <1>5
  <2>3. ASSUME NEW i \in crossed' + 1 .. offset'
        PROVE  heard'[i] = bytes'[i]
    <3>1. i \in Nat /\ i >= 1 /\ i <= offset + used
      BY <1>1, <1>4, <1>5, <2>3
    <3>2. CASE i <= offset
      <4>1. i \in crossed + 1 .. offset
        BY <1>1, <1>4, <2>3, <3>2
      <4> QED
        BY <1>4, <1>10, <2>1, <3>1, <3>2, <4>1 DEF HeardIsHeld
    <3>3. CASE ~ (i <= offset)
      <4>1. i - offset \in 1 .. used /\ offset + (i - offset) = i
        BY <1>1, <1>5, <3>1, <3>3
      <4> QED
        BY <1>4, <1>5, <1>10, <3>1, <3>3, <4>1
    <3> QED
      BY <3>2, <3>3
  <2> QED
    BY <2>2, <2>3 DEF HeardIsHeld
<1>15. Knows(heard', given', Scanning', tail')
  <2>1. HasRead(given, Scanning, heard) /\ tail = Ending(heard, RetainCap)
    BY <1>4 DEF LogInv, LogKept, Knows
  <2>2. heard' = heard \o piece
    BY <1>4
  <2>3. /\ taken.partial = Ending(Rest(heard'), PartialCap)
        /\ taken.long = (Len(Rest(heard')) > PartialCap)
        /\ given \o taken.lines = LinesOf(heard')
    <3>1. HasRead(given, taken, heard \o piece)
      BY <1>6, <2>1
    <3> QED
      BY <2>2, <3>1 DEF HasRead
  <2>4. /\ Scanning'.partial = taken.partial /\ Scanning'.long = taken.long
        /\ given' \o Scanning'.lines = given \o taken.lines
    BY <1>4, <1>9 DEF Scanning
  <2>5. HasRead(given', Scanning', heard')
    BY <2>3, <2>4 DEF HasRead
  <2>6. Ending(tail \o piece, RetainCap) = Ending(heard \o piece, RetainCap)
    <3>1. heard \in Seq(Bytes) /\ piece \in Seq(Bytes) /\ RetainCap \in Nat
      BY <1>1, <1>5, CapsAreNumbers
    <3>2. Ending(Ending(heard, RetainCap) \o piece, RetainCap)
            = Ending(heard \o piece, RetainCap)
      BY <3>1, EndingGrows, ZenonT(60)
    <3> QED
      BY <2>1, <3>2
  <2>7. tail' = Ending(heard', RetainCap)
    BY <1>4, <2>2, <2>6 DEF Retain
  <2> QED
    BY <2>5, <2>7 DEF Knows
<1>16. LogKept'
  BY <1>14, <1>15 DEF LogKept, Knows, HasRead
<1> QED
  BY <1>12, <1>13, <1>16 DEF LogInv

LEMMA LogInvHolds == LogSpec => []LogInv
<1>1. LogInit => LogInv
  BY LogInitIsFresh
<1>2. LogInv /\ [LogNext]_logVars => LogInv'
  <2> SUFFICES ASSUME LogInv, [LogNext]_logVars PROVE LogInv'
    OBVIOUS
  <2>1. CASE LogNameTaken
    BY <2>1, ReadStays DEF LogNameTaken, scanner, poll, Early
  <2>2. CASE Create
    BY <2>2, ReadStays DEF Create, scanner, poll, Early
  <2>3. CASE LookBefore
    BY <2>3, ReadStays DEF LookBefore, scanner, poll, Early
  <2>4. CASE Open
    BY <2>4, ReadStays DEF Open, scanner, poll, Early
  <2>5. CASE CheckOpened
    BY <2>5, ReadStays DEF CheckOpened, scanner, poll, Early
  <2>6. CASE ReadFails
    BY <2>6, ReadStays DEF ReadFails, scanner, poll
  <2>7. CASE PathMoves
    BY <2>7, ReadStays DEF PathMoves, scanner, poll
  <2>8. CASE UNCHANGED logVars
    BY <2>8, ReadStays DEF logVars, scanner, poll
  <2> QED
    BY <2>1, <2>2, <2>3, <2>4, <2>5, <2>6, <2>7, <2>8, PollBeginsKeeps, ReadChunkKeeps,
       PollEndsKeeps, ChildWritesKeeps, CutKeeps DEF LogNext, LogStep, ScannerStep
<1> QED
  BY <1>1, <1>2, PTL DEF LogSpec

-----------------------------------------------------------------------------
(* Showing the log: match_indices finds every place where the pattern is,  *)
(* but those that an earlier one overlaps.                                 *)
LEMMA FoundWhereItIs ==
    ASSUME NEW text \in Seq(Bytes), NEW pattern, Len(pattern) \in Nat \ {0},
           NEW q \in 1 .. Len(text), Matches(text, pattern, q),
           \A j \in 1 .. q - 1 : Matches(text, pattern, j) => j + Len(pattern) <= q
    PROVE  q \in Found(text, pattern)
<1> DEFINE total == Len(text)
           n == Len(pattern)
           At(i) == Matches(text, pattern, i)
           Step(f, i) == IF i + n > total + 1 THEN {}
                         ELSE IF At(i) THEN {i} \cup f[i + n]
                         ELSE f[i + 1]
           F == [1 .. total + 1 -> SUBSET Nat]
           Good(d) == \E f \in F : \A i \in 1 .. total + 1 : i + d > total => f[i] = Step(f, i)
<1>1. total \in Nat /\ n \in Nat /\ n # 0
  OBVIOUS
<1>2. q + n - 1 <= total /\ At(q)
  BY DEF Matches
<1>3. \A j \in 1 .. q - 1 : j + n - 1 <= total /\ At(j) => j + n <= q
  OBVIOUS
<1> HIDE DEF total, n, At
<1>4. ASSUME NEW f \in F, NEW i \in 1 .. total + 1
      PROVE  Step(f, i) \in SUBSET Nat
  <2>1. CASE i + n > total + 1
    BY <2>1
  <2>2. CASE ~ (i + n > total + 1)
    <3>1. i + n \in 1 .. total + 1 /\ i + 1 \in 1 .. total + 1 /\ i \in Nat
      BY <1>1, <2>2
    <3>2. f[i + n] \in SUBSET Nat /\ f[i + 1] \in SUBSET Nat
      BY <3>1
    <3> QED
      BY <2>2, <3>1, <3>2
  <2> QED
    BY <2>1, <2>2
<1>5. Good(0)
  <2> DEFINE f == [i \in 1 .. total + 1 |-> {}]
  <2>1. f \in F
    OBVIOUS
  <2>2. ASSUME NEW i \in 1 .. total + 1, i + 0 > total
        PROVE  f[i] = Step(f, i)
    <3>1. i + n > total + 1
      BY <1>1, <2>2
    <3> QED
      BY <3>1
  <2> QED
    BY <2>1, <2>2
<1>6. ASSUME NEW d \in Nat, d + 1 <= total, Good(d)
      PROVE  Good(d + 1)
  <2>1. PICK f \in F : \A i \in 1 .. total + 1 : i + d > total => f[i] = Step(f, i)
    BY <1>6
  <2> DEFINE c == total - d
             x == Step(f, c)
             g == [i \in 1 .. total + 1 |-> IF i = c THEN x ELSE f[i]]
  <2>2. c \in 1 .. total /\ c \in 1 .. total + 1
    BY <1>1, <1>6
  <2>3. x \in SUBSET Nat
    <3> HIDE DEF Step
    <3> QED
      BY <1>4, <2>2
  <2> HIDE DEF x
  <2>4. g \in F
    BY <2>3
  <2>5. ASSUME NEW i \in 1 .. total + 1, i + (d + 1) > total
        PROVE  g[i] = Step(g, i)
    <3>1. i = c \/ i + d > total
      BY <1>1, <1>6, <2>5
    <3>2. c <= i
      BY <1>1, <1>6, <2>5
    <3>3. ~ (i + n > total + 1) => /\ i + n \in 1 .. total + 1 /\ i + 1 \in 1 .. total + 1
                               /\ i + n # c /\ i + 1 # c
      BY <1>1, <1>6, <3>2
    <3>4. ~ (i + n > total + 1) => g[i + n] = f[i + n] /\ g[i + 1] = f[i + 1]
      <4> HIDE DEF c
      <4> QED
        BY <3>3
    <3>5. Step(g, i) = Step(f, i)
      <4> HIDE DEF g
      <4> QED
        BY <3>4
    <3>6. g[i] = Step(f, i)
      <4> HIDE DEF Step
      <4>1. CASE i = c
        BY <4>1 DEF x
      <4>2. CASE i # c
        <5>1. i + d > total
          BY <3>1, <4>2
        <5>2. f[i] = Step(f, i)
          BY <2>1, <5>1
        <5> QED
          BY <4>2, <5>2
      <4> QED
        BY <4>1, <4>2
    <3> HIDE DEF g, Step
    <3> QED
      BY <3>5, <3>6
  <2> HIDE DEF g, Step
  <2> QED
    BY <2>4, <2>5
<1>7. Good(total)
  <2> DEFINE T == {d \in Nat : d <= total => Good(d)}
  <2> HIDE DEF Good
  <2>1. 0 \in T
    BY <1>5
  <2>2. ASSUME NEW d \in Nat, d \in T PROVE d + 1 \in T
    <3> SUFFICES ASSUME d + 1 <= total PROVE Good(d + 1)
      OBVIOUS
    <3>1. d <= total
      BY <1>1
    <3>2. Good(d)
      BY <2>2, <3>1
    <3> QED
      BY <1>6, <3>2
  <2>3. Nat \subseteq T
    <3> HIDE DEF T
    <3> QED
      BY <2>1, <2>2, Climb
  <2> QED
    BY <1>1, <2>3
<1> DEFINE from == CHOOSE f : f = [i \in 1 .. total + 1 |-> Step(f, i)]
<1>8. from = [i \in 1 .. total + 1 |-> Step(from, i)]
  <2>1. PICK f \in F : \A i \in 1 .. total + 1 : i + total > total => f[i] = Step(f, i)
    BY <1>7
  <2>2. \A i \in 1 .. total + 1 : i + total > total
    BY <1>1
  <2>3. f = [i \in 1 .. total + 1 |-> Step(f, i)]
    <3> HIDE DEF Step
    <3> QED
      BY <2>1, <2>2
  <2> QED
    BY <2>3
<1>9. Found(text, pattern) = from[1]
  BY DEF Found, total, n, At
<1> HIDE DEF from
<1>10. \A i \in 1 .. total + 1 : from[i] = Step(from, i)
  <2> HIDE DEF Step
  <2> QED
    BY <1>8
<1>11. q \in Nat /\ q >= 1
  BY <1>1
<1> DEFINE T == {d \in Nat : \A i \in 1 .. q : i + d >= q => q \in from[i]}
<1>12. 0 \in T
  <2> SUFFICES ASSUME NEW i \in 1 .. q, i + 0 >= q PROVE q \in from[i]
    OBVIOUS
  <2>1. i = q /\ q \in 1 .. total + 1 /\ ~ (q + n > total + 1)
    BY <1>1, <1>2, <1>11
  <2>2. from[q] = {q} \cup from[q + n]
    BY <1>2, <1>10, <2>1
  <2> QED
    BY <2>1, <2>2
<1>13. ASSUME NEW d \in Nat, d \in T PROVE d + 1 \in T
  <2> SUFFICES ASSUME NEW i \in 1 .. q, i + (d + 1) >= q PROVE q \in from[i]
    OBVIOUS
  <2>1. CASE i + d >= q
    BY <1>13, <2>1
  <2>2. CASE ~ (i + d >= q)
    <3>1. /\ i \in 1 .. q - 1 /\ i \in 1 .. total + 1 /\ i + n - 1 <= total /\ ~ (i + n > total + 1)
          /\ i + 1 \in 1 .. q /\ (i + 1) + d >= q
      BY <1>1, <1>2, <1>11, <2>2
    <3>2. CASE At(i)
      <4>1. i + n <= q
        BY <1>3, <3>1, <3>2
      <4>2. i + n \in 1 .. q /\ (i + n) + d >= q
        BY <1>1, <1>11, <3>1, <4>1
      <4>3. q \in from[i + n]
        BY <1>13, <4>2
      <4>4. from[i] = {i} \cup from[i + n]
        BY <1>10, <3>1, <3>2
      <4> QED
        BY <4>3, <4>4
    <3>3. CASE ~ At(i)
      <4>1. q \in from[i + 1]
        BY <1>13, <3>1
      <4>2. from[i] = from[i + 1]
        BY <1>10, <3>1, <3>3
      <4> QED
        BY <4>1, <4>2
    <3> QED
      BY <3>2, <3>3
  <2> QED
    BY <2>1, <2>2
<1>14. Nat \subseteq T
  <2> HIDE DEF T
  <2> QED
    BY <1>12, <1>13, Climb
<1>15. q \in from[1]
  <2>1. q \in T
    <3> HIDE DEF T
    <3> QED
      BY <1>11, <1>14
  <2>2. 1 \in 1 .. q /\ 1 + q >= q
    BY <1>11
  <2> QED
    BY <2>1, <2>2
<1> QED
  BY <1>9, <1>15

(* What the redactor reads where it looks for a pattern: the text, with    *)
(* the digits of its escapes in lower case when the pattern is encoded.    *)
ReadByte == Bytes \cup {Lower[d] : d \in DOMAIN Lower}

LEMMA EscapeIs ==
    ASSUME NEW text \in Seq(Bytes), NEW i \in 1 .. Len(text), InEscape(text, i)
    PROVE  text[i] \in DOMAIN Lower
<1>1. PICK e \in 1 .. Len(text) : Escape(text, e) /\ i \in {e + 1, e + 2}
  BY DEF InEscape
<1> QED
  BY <1>1 DEF Escape

LEMMA AsReadIs ==
    ASSUME NEW text \in Seq(Bytes), NEW p
    PROVE  /\ AsReadFor(text, p) \in Seq(ReadByte)
           /\ Len(AsReadFor(text, p)) = Len(text)
           /\ \A i \in 1 .. Len(text) :
                 AsReadFor(text, p)[i] = IF Encoded(p) /\ InEscape(text, i)
                                         THEN Lower[text[i]] ELSE text[i]
<1>1. Len(text) \in Nat /\ \A i \in 1 .. Len(text) : text[i] \in Bytes
  OBVIOUS
<1>2. CASE ~ Encoded(p)
  <2>1. AsReadFor(text, p) = text
    BY <1>2 DEF AsReadFor
  <2>2. text \in Seq(ReadByte)
    BY DEF ReadByte
  <2> QED
    BY <1>2, <2>1, <2>2
<1>3. CASE Encoded(p)
  <2> DEFINE low == [i \in 1 .. Len(text) |->
                        IF InEscape(text, i) THEN Lower[text[i]] ELSE text[i]]
  <2>1. AsReadFor(text, p) = low
    BY <1>3 DEF AsReadFor, Normalized
  <2>2. ASSUME NEW i \in 1 .. Len(text)
        PROVE  (IF InEscape(text, i) THEN Lower[text[i]] ELSE text[i]) \in ReadByte
    <3>1. InEscape(text, i) => text[i] \in DOMAIN Lower
      BY EscapeIs
    <3> QED
      BY <1>1, <3>1 DEF ReadByte
  <2>3. low \in [1 .. Len(text) -> ReadByte]
    BY <2>2
  <2>4. low \in Seq(ReadByte) /\ Len(low) = Len(text)
    <3> HIDE DEF low
    <3>1. low \in Seq(ReadByte)
      BY <1>1, <2>3
    <3>2. DOMAIN low = 1 .. Len(text)
      BY <2>3
    <3> QED
      BY <1>1, <3>1, <3>2
  <2>5. \A i \in 1 .. Len(text) :
           low[i] = IF Encoded(p) /\ InEscape(text, i) THEN Lower[text[i]] ELSE text[i]
    BY <1>3
  <2> QED
    BY <2>1, <2>4, <2>5
<1> QED
  BY <1>2, <1>3

LEMMA MatchIs ==
    ASSUME NEW text \in Seq(Bytes), NEW p \in Seq(ReadByte), Len(p) \in Nat \ {0},
           NEW i \in Nat \ {0}, i + Len(p) - 1 <= Len(text)
    PROVE  Matches(text, p, i) <=>
              \A m \in 1 .. Len(p) : AsReadFor(text, p)[i + m - 1] = p[m]
<1> DEFINE n == Len(p)
           shown == AsReadFor(text, p)
           part == SubSeq(shown, i, i + n - 1)
<1>1. shown \in Seq(ReadByte) /\ Len(shown) = Len(text) /\ Len(text) \in Nat
  BY AsReadIs
<1>2. Matches(text, p, i) <=> part = p
  BY DEF Matches
<1> HIDE DEF shown, n
<1>3. n \in Nat \ {0} /\ i + n - 1 <= Len(shown) /\ i + n - 1 \in Int
  BY <1>1 DEF n
<1>4. /\ part \in Seq(ReadByte) /\ Len(part) = n
      /\ \A m \in 1 .. n : part[m] = shown[i + m - 1]
  <2> DEFINE e == i + n - 1
  <2>1. e \in Int /\ i \in Int /\ i <= e /\ e - i + 1 = n /\ i >= 1 /\ e <= Len(shown)
    BY <1>1, <1>3
  <2> HIDE DEF e
  <2>2. /\ SubSeq(shown, i, e) \in Seq(ReadByte)
        /\ Len(SubSeq(shown, i, e)) = IF i <= e THEN e - i + 1 ELSE 0
        /\ \A m \in 1 .. e - i + 1 : SubSeq(shown, i, e)[m] = shown[i + m - 1]
    BY <1>1, <2>1, PieceTyped
  <2> QED
    BY <2>1, <2>2 DEF e
<1> HIDE DEF part
<1>5. part = p <=> \A m \in 1 .. n : part[m] = p[m]
  <2>1. n = Len(p)
    BY DEF n
  <2>2. (\A m \in 1 .. n : part[m] = p[m]) => part = p
    BY <1>4, <2>1, SeqEqual
  <2> QED
    BY <2>2
<1>6. (\A m \in 1 .. n : part[m] = p[m]) <=> (\A m \in 1 .. n : shown[i + m - 1] = p[m])
  BY <1>4
<1> QED
  BY <1>2, <1>5, <1>6 DEF n, shown

(* An escape that stands in a piece of a text stands in the text.          *)
LEMMA EscapesOfPiece ==
    ASSUME NEW text \in Seq(Bytes), NEW part \in Seq(Bytes), NEW a \in Nat,
           a + Len(part) <= Len(text), \A x \in 1 .. Len(part) : part[x] = text[a + x],
           NEW x \in 1 .. Len(part), InEscape(part, x)
    PROVE  InEscape(text, a + x)
<1>1. PICK e \in 1 .. Len(part) : Escape(part, e) /\ x \in {e + 1, e + 2}
  BY DEF InEscape
<1>2. Len(part) \in Nat /\ Len(text) \in Nat
  OBVIOUS
<1>3. /\ e + 2 <= Len(part)
      /\ part[e] = Percent /\ part[e + 1] \in DOMAIN Lower /\ part[e + 2] \in DOMAIN Lower
  BY <1>1 DEF Escape
<1>4. /\ e \in 1 .. Len(part) /\ e + 1 \in 1 .. Len(part) /\ e + 2 \in 1 .. Len(part)
      /\ a + e \in 1 .. Len(text) /\ (a + e) + 2 <= Len(text)
      /\ a + (e + 1) = (a + e) + 1 /\ a + (e + 2) = (a + e) + 2
  BY <1>2, <1>3
<1>5. /\ part[e] = text[a + e] /\ part[e + 1] = text[(a + e) + 1]
      /\ part[e + 2] = text[(a + e) + 2]
  <2>1. /\ part[e] = text[a + e] /\ part[e + 1] = text[a + (e + 1)]
        /\ part[e + 2] = text[a + (e + 2)]
    BY <1>4
  <2> QED
    BY <1>4, <2>1
<1>6. Escape(text, a + e)
  BY <1>3, <1>4, <1>5 DEF Escape
<1>7. a + x \in {(a + e) + 1, (a + e) + 2}
  BY <1>1, <1>4
<1> QED
  BY <1>4, <1>6, <1>7 DEF InEscape

(* The tail is the end of what was read.                                   *)
LEMMA TailIsEnd ==
    ASSUME heard \in Seq(Bytes), Len(heard) = offset, offset \in Nat,
           tail = Ending(heard, RetainCap)
    PROVE  /\ tail \in Seq(Bytes) /\ Len(tail) = Least(RetainCap, offset)
           /\ Len(tail) \in 0 .. offset
           /\ \A x \in 1 .. Len(tail) : tail[x] = heard[offset - Len(tail) + x]
<1>1. RetainCap \in Nat
  BY CapsAreNumbers
<1>2. /\ tail \in Seq(Bytes) /\ Len(tail) = Least(RetainCap, offset)
      /\ Least(RetainCap, offset) \in 0 .. offset
      /\ \A x \in 1 .. Least(RetainCap, offset) :
            tail[x] = heard[offset - Least(RetainCap, offset) + x]
  BY <1>1, EndingIs
<1> QED
  BY <1>2

(* The escapes of an encoded secret are escapes where it was read.         *)
LEMMA EscapesOfSecret ==
    ASSUME NEW text \in Seq(Bytes), NEW p \in Seq(ReadByte), Len(p) \in Nat,
           Encoded(p) => Normalized(p) = p,
           NEW q \in Nat \ {0}, q + Len(p) - 1 <= Len(text),
           \A m \in 1 .. Len(p) :
              \/ text[q + m - 1] = p[m]
              \/ /\ InEscape(p, m) /\ text[q + m - 1] \in DOMAIN Lower
                 /\ Lower[text[q + m - 1]] = p[m],
           NEW m \in 1 .. Len(p), InEscape(p, m)
    PROVE  /\ Encoded(p)
           /\ InEscape(text, q + m - 1)
           /\ Lower[text[q + m - 1]] = p[m]
<1>1. PICK e \in 1 .. Len(p) : Escape(p, e) /\ m \in {e + 1, e + 2}
  BY DEF InEscape
<1>2. /\ e + 2 <= Len(p) /\ p[e] = Percent
      /\ p[e + 1] \in DOMAIN Lower /\ p[e + 2] \in DOMAIN Lower
  BY <1>1 DEF Escape
<1>3. Encoded(p)
  BY <1>2 DEF Encoded
<1>4. \A x \in 1 .. Len(p) : InEscape(p, x) => p[x] \in DOMAIN Lower /\ Lower[p[x]] = p[x]
  <2> SUFFICES ASSUME NEW x \in 1 .. Len(p), InEscape(p, x)
               PROVE  p[x] \in DOMAIN Lower /\ Lower[p[x]] = p[x]
    OBVIOUS
  <2>1. p[x] \in DOMAIN Lower
    BY DEF InEscape, Escape
  <2>2. Normalized(p)[x] = Lower[p[x]]
    BY DEF Normalized
  <2> QED
    BY <1>3, <2>1, <2>2
<1>5. /\ e + 1 \in 1 .. Len(p) /\ e + 2 \in 1 .. Len(p)
      /\ q + e - 1 \in 1 .. Len(text) /\ (q + e - 1) + 2 <= Len(text)
      /\ q + (e + 1) - 1 = (q + e - 1) + 1 /\ q + (e + 2) - 1 = (q + e - 1) + 2
  <2>1. Len(text) \in Nat
    OBVIOUS
  <2> QED
    BY <1>2, <2>1
<1>6. text[q + e - 1] = Percent
  <2>1. ~ InEscape(p, e)
    BY <1>2, <1>4, CapsAssumption
  <2> QED
    BY <1>2, <2>1
<1>7. \A x \in {e + 1, e + 2} : text[q + x - 1] \in DOMAIN Lower
  BY <1>2, <1>5
<1>8. Escape(text, q + e - 1)
  <2>1. text[q + (e + 1) - 1] \in DOMAIN Lower /\ text[q + (e + 2) - 1] \in DOMAIN Lower
    BY <1>7
  <2> QED
    BY <1>5, <1>6, <2>1 DEF Escape
<1>9. q + m - 1 \in {(q + e - 1) + 1, (q + e - 1) + 2}
  BY <1>1, <1>5
<1>10. InEscape(text, q + m - 1)
  BY <1>5, <1>8, <1>9 DEF InEscape
<1> QED
  BY <1>3, <1>4, <1>10

(* A secret that was read and is wholly in the tail matches there: its     *)
(* escapes are read in lower case, and of its other bytes none that this   *)
(* would change.                                                           *)
LEMMA SecretIsInTail ==
    ASSUME heard \in Seq(Bytes), Len(heard) = offset, offset \in Nat,
           tail = Ending(heard, RetainCap),
           NEW p \in Seq(ReadByte), Len(p) \in Nat \ {0},
           Encoded(p) => Normalized(p) = p,
           NEW q \in Nat \ {0}, q + Len(p) - 1 <= Len(tail),
           SecretAt(p, offset - Len(tail) + q), Apart(p, offset - Len(tail) + q)
    PROVE  Matches(tail, p, q)
<1> DEFINE n == Len(p)
           l == Len(tail)
           a == offset - l
<1>1. /\ tail \in Seq(Bytes) /\ l \in Nat /\ l <= offset
      /\ \A x \in 1 .. l : tail[x] = heard[a + x]
  BY TailIsEnd
<1>2. n \in Nat \ {0} /\ q + n - 1 <= l
  OBVIOUS
<1>3. /\ \A m \in 1 .. n :
            \/ heard[(a + q) + m - 1] = p[m]
            \/ /\ InEscape(p, m) /\ heard[(a + q) + m - 1] \in DOMAIN Lower
               /\ Lower[heard[(a + q) + m - 1]] = p[m]
      /\ Encoded(p) => \A m \in 1 .. n :
            InEscape(heard, (a + q) + m - 1) /\ ~ InEscape(p, m) => Lower[p[m]] = p[m]
  BY DEF SecretAt, Apart
<1> HIDE DEF n, l
<1>4. a \in Nat /\ a + l = offset
  BY <1>1
<1> HIDE DEF a
<1>5. ASSUME NEW m \in 1 .. n
      PROVE  /\ q + m - 1 \in 1 .. l
             /\ a + (q + m - 1) = (a + q) + m - 1
             /\ tail[q + m - 1] = heard[(a + q) + m - 1]
  <2>1. q + m - 1 \in 1 .. l /\ a + (q + m - 1) = (a + q) + m - 1
    BY <1>1, <1>2, <1>4
  <2> QED
    BY <1>1, <2>1
<1>6. \A m \in 1 .. n :
         \/ tail[q + m - 1] = p[m]
         \/ /\ InEscape(p, m) /\ tail[q + m - 1] \in DOMAIN Lower
            /\ Lower[tail[q + m - 1]] = p[m]
  BY <1>3, <1>5
<1>7. ASSUME NEW m \in 1 .. n
      PROVE  AsReadFor(tail, p)[q + m - 1] = p[m]
  <2>1. AsReadFor(tail, p)[q + m - 1] =
           IF Encoded(p) /\ InEscape(tail, q + m - 1)
           THEN Lower[tail[q + m - 1]] ELSE tail[q + m - 1]
    BY <1>1, <1>5, AsReadIs DEF l
  <2>2. CASE InEscape(p, m)
    <3>1. /\ Encoded(p) /\ InEscape(tail, q + m - 1)
          /\ Lower[tail[q + m - 1]] = p[m]
      BY <1>1, <1>2, <1>6, <2>2, EscapesOfSecret DEF n, l
    <3> QED
      BY <2>1, <3>1
  <2>3. CASE ~ InEscape(p, m)
    <3>1. tail[q + m - 1] = p[m]
      BY <1>6, <2>3
    <3>2. InEscape(tail, q + m - 1) => InEscape(heard, (a + q) + m - 1)
      <4>1. /\ a + Len(tail) <= Len(heard) /\ q + m - 1 \in 1 .. Len(tail)
            /\ \A x \in 1 .. Len(tail) : tail[x] = heard[a + x]
        BY <1>1, <1>4, <1>5 DEF l
      <4>2. InEscape(tail, q + m - 1) => InEscape(heard, a + (q + m - 1))
        BY <1>1, <1>4, <4>1, EscapesOfPiece
      <4> QED
        BY <1>5, <4>2
    <3> QED
      BY <1>3, <2>1, <2>3, <3>1, <3>2
  <2> QED
    BY <2>2, <2>3
<1> QED
  BY <1>1, <1>2, <1>7, MatchIs DEF n, l

LEMMA ShownIsSafe ==
    ASSUME LogInv
    PROVE  NoSecretByteShown
<1> SUFFICES ASSUME place \in {"poll", "reading"},
                    NEW p \in Patterns, NEW k \in 1 .. offset, SecretAt(p, k), Apart(p, k),
                    \A j \in 1 .. k - 1 :
                       j + Len(p) > k => ~ Matches(tail, p, j - (offset - Len(tail))),
                    NEW i \in Shown, (offset - Len(tail)) + i \in k .. k + Len(p) - 1
             PROVE  FALSE
  BY DEF NoSecretByteShown
<1> DEFINE n == Len(p)
           l == Len(tail)
           a == offset - l
<1>1. /\ heard \in Seq(Bytes) /\ Len(heard) = offset /\ offset \in Nat
      /\ tail = Ending(heard, RetainCap)
  BY DEF LogInv, LogTypes, LogKept, Knows
<1>2. /\ p \in Seq(ReadByte) /\ n \in 1 .. OverlapCap /\ n \in Nat
      /\ Encoded(p) => Normalized(p) = p
  <2>1. /\ p \in Seq(ReadByte) /\ n \in 1 .. OverlapCap
        /\ Encoded(p) => Normalized(p) = p
    BY CapsAssumption, Zenon DEF ReadByte
  <2> QED
    BY <2>1, CapsAreNumbers
<1>3. tail \in Seq(Bytes) /\ l = Least(RetainCap, offset) /\ l \in Nat /\ l <= offset
  BY <1>1, TailIsEnd
<1>4. /\ i \in 1 .. l /\ i > l - Least(VisibleCap, l) /\ i \notin Hidden(tail)
  BY DEF Shown
<1>5. a + i \in k .. k + n - 1 /\ SecretAt(p, k) /\ Apart(p, k)
  OBVIOUS
<1>6. \A j \in 1 .. k - 1 : j + n > k => ~ Matches(tail, p, j - a)
  OBVIOUS
<1>7. k + n - 1 <= offset
  BY <1>1 DEF SecretAt
<1> HIDE DEF n, l
<1>8. /\ k \in Nat /\ k >= 1 /\ k <= offset /\ i \in Nat /\ i >= 1 /\ i <= l
      /\ a \in Nat /\ a + l = offset
  BY <1>1, <1>3, <1>4
<1> HIDE DEF a
<1>9. CASE k <= a
  <2>1. RetainCap = VisibleCap + OverlapCap /\ VisibleCap \in Nat /\ OverlapCap \in Nat
    BY CapsAreNumbers
  <2>2. l = RetainCap
    <3>1. l < offset
      BY <1>1, <1>3, <1>8, <1>9
    <3> QED
      BY <1>1, <1>3, <2>1, <3>1 DEF Least
  <2>3. i > OverlapCap
    <3>1. Least(VisibleCap, l) = VisibleCap
      BY <1>3, <2>1, <2>2 DEF Least
    <3> QED
      BY <1>4, <1>8, <2>1, <2>2, <3>1
  <2>4. a + i <= k + n - 1
    BY <1>5
  <2> QED
    BY <1>2, <1>8, <1>9, <2>1, <2>3, <2>4
<1>10. CASE ~ (k <= a)
  <2> DEFINE q == k - a
  <2>1. /\ q \in Nat \ {0} /\ a + q = k /\ q + n - 1 <= l /\ q \in 1 .. l
    <3>1. n >= 1
      BY <1>2
    <3> QED
      BY <1>1, <1>2, <1>3, <1>7, <1>8, <1>10, <3>1
  <2> HIDE DEF q
  <2>2. Matches(tail, p, q)
    <3>1. /\ Len(p) \in Nat \ {0} /\ q + Len(p) - 1 <= Len(tail)
          /\ SecretAt(p, offset - Len(tail) + q) /\ Apart(p, offset - Len(tail) + q)
      BY <1>2, <1>5, <2>1 DEF n, l, a
    <3> QED
      BY <1>1, <1>2, <2>1, <3>1, SecretIsInTail
  <2>3. ASSUME NEW j \in 1 .. q - 1, Matches(tail, p, j)
        PROVE  j + Len(p) <= q
    <3>1. a + j \in 1 .. k - 1 /\ (a + j) - a = j
      BY <1>8, <2>1
    <3>2. ~ ((a + j) + n > k)
      BY <1>6, <2>3, <3>1
    <3> QED
      BY <1>2, <1>8, <2>1, <3>1, <3>2 DEF n
  <2>4. q \in Found(tail, p)
    <3>1. Len(p) \in Nat \ {0} /\ q \in 1 .. Len(tail)
      BY <1>2, <2>1 DEF n, l
    <3> QED
      BY <1>3, <2>2, <2>3, <3>1, FoundWhereItIs
  <2>5. i \in q .. q + n - 1
    BY <1>2, <1>5, <1>8, <2>1
  <2>6. i \in Hidden(tail)
    <3>1. i \in 1 .. Len(tail)
      BY <1>4 DEF l
    <3>2. i \in q .. q + Len(p) - 1
      BY <2>5 DEF n
    <3> QED
      BY <2>4, <3>1, <3>2 DEF Hidden
  <2> QED
    BY <1>4, <2>6
<1> QED
  BY <1>9, <1>10

(* The start reads the log of its child and no other file.  Whatever the    *)
(* chunks, the budgets and the short reads of poll_lines, and whether a    *)
(* cut of the file was noticed or not, every finished line of what was     *)
(* read is handed out once, in order, whole up to the cap and marked       *)
(* beyond it; what was read is the file without a gap from where the last  *)
(* unnoticed cut was crossed.  What is shown of the log when the start     *)
(* fails has no byte of a secret that was read, also of one that begins    *)
(* before what is shown and of one whose escapes are in another case; of   *)
(* two that overlap, the first is meant.                                   *)
THEOREM LogStaysTrue == LogSpec => []LogIsTrue
<1>1. LogInv => LogIsReadOnce
  <2> SUFFICES ASSUME LogInv, place \in {"poll", "reading"}
               PROVE  /\ given \o found = LinesOf(heard)
                      /\ tail = Ending(heard, RetainCap)
                      /\ Len(heard) = offset
                      /\ \A i \in crossed + 1 .. offset : heard[i] = bytes[i]
    BY DEF LogIsReadOnce
  <2> QED
    BY DEF LogInv, LogTypes, LogKept, Knows, HasRead, Scanning, HeardIsHeld
<1>2. LogInv => NoSecretByteShown
  BY ShownIsSafe
<1>3. LogIsTrue <=> HandlesAreOneFile /\ LogIsReadOnce /\ NoSecretByteShown
  BY DEF LogIsTrue
<1> QED
  BY <1>1, <1>2, <1>3, LogInvHolds, LogIsTheCreatedFile, PTL

-----------------------------------------------------------------------------
(* The command line of the child.  First, what the model's pieces are:     *)
(* sequences flattened one after the other.                                *)
Flat(g) == Seqs!FlattenSeq(g)

LEMMA FlatEmpty == Flat(<<>>) = <<>>
BY DEF Flat, Seqs!FlattenSeq

\* The recursive function of FlattenSeq is there.
LEMMA FlatIs ==
    ASSUME NEW X, NEW g \in Seq(Seq(X)), Len(g) > 0
    PROVE  \E f \in [1 .. Len(g) -> Seq(X)] :
              /\ f[1] = g[1]
              /\ \A i \in 2 .. Len(g) : f[i] = f[i - 1] \o g[i]
              /\ Flat(g) = f[Len(g)]
<1> DEFINE size == Len(g)
           Next1(a, i) == a \o g[i]
           Good(n) == \E f \in [1 .. n -> Seq(X)] :
                         f[1] = g[1] /\ \A i \in 2 .. n : f[i] = Next1(f[i - 1], i)
           T == {n \in Nat : n \in 1 .. size => Good(n)}
<1>1. size \in Nat /\ size > 0 /\ \A i \in 1 .. size : g[i] \in Seq(X)
  OBVIOUS
<1>2. \A a \in Seq(X), i \in 1 .. size : Next1(a, i) \in Seq(X)
  BY <1>1, ConcatProperties
<1> HIDE DEF Next1
<1>3. Good(1)
  <2> DEFINE f == [i \in 1 .. 1 |-> g[1]]
  <2>1. f \in [1 .. 1 -> Seq(X)] /\ f[1] = g[1] /\ 2 .. 1 = {}
    BY <1>1
  <2> QED
    BY <2>1
<1>4. ASSUME NEW n \in 1 .. size, n < size, Good(n) PROVE Good(n + 1)
  <2>1. PICK f \in [1 .. n -> Seq(X)] :
           f[1] = g[1] /\ \A i \in 2 .. n : f[i] = Next1(f[i - 1], i)
    BY <1>4
  <2>2. n \in Nat /\ n >= 1 /\ n + 1 \in 1 .. size /\ f[n] \in Seq(X)
    BY <1>1, <1>4
  <2> DEFINE last == Next1(f[n], n + 1)
             h == [i \in 1 .. n + 1 |-> IF i <= n THEN f[i] ELSE last]
  <2>3. last \in Seq(X)
    BY <1>2, <2>2
  <2>4. ASSUME NEW i \in 2 .. n + 1 PROVE h[i] = Next1(h[i - 1], i)
    <3>1. h[i - 1] = f[i - 1]
      BY <2>2
    <3>2. CASE i <= n
      <4>1. h[i] = f[i] /\ i \in 2 .. n
        BY <2>2, <3>2
      <4> HIDE DEF h
      <4> QED
        BY <2>1, <3>1, <4>1
    <3>3. CASE i = n + 1
      <4>1. h[i] = last /\ i - 1 = n
        BY <2>2, <3>3
      <4> HIDE DEF h
      <4> QED
        BY <3>1, <3>3, <4>1
    <3> QED
      BY <2>2, <3>2, <3>3
  <2> HIDE DEF last
  <2>5. h \in [1 .. n + 1 -> Seq(X)] /\ h[1] = g[1]
    BY <2>1, <2>2, <2>3
  <2> HIDE DEF h
  <2> QED
    BY <2>4, <2>5
<1>5. ASSUME NEW n \in Nat, n \in T PROVE n + 1 \in T
  <2> HIDE DEF Good
  <2> SUFFICES ASSUME n + 1 \in 1 .. size PROVE Good(n + 1)
    OBVIOUS
  <2>1. CASE n = 0
    <3>1. n + 1 = 1
      BY <2>1
    <3> QED
      BY <1>3, <3>1
  <2>2. CASE n # 0
    <3>1. n \in 1 .. size /\ n < size
      BY <1>1, <2>2
    <3> QED
      BY <1>4, <1>5, <3>1
  <2> QED
    BY <2>1, <2>2
<1>6. 0 \in T
  OBVIOUS
<1>7. Nat \subseteq T
  <2> HIDE DEF T
  <2> QED
    BY <1>5, <1>6, Climb
<1>8. Good(size)
  <2> HIDE DEF Good
  <2> QED
    BY <1>1, <1>7
<1> DEFINE Rec(f) == [i \in 1 .. size |-> IF i = 1 THEN g[i] ELSE Next1(f[i - 1], i)]
<1>9. PICK f \in [1 .. size -> Seq(X)] :
           f[1] = g[1] /\ \A i \in 2 .. size : f[i] = Next1(f[i - 1], i)
  BY <1>8
<1>10. f = Rec(f)
  <2>1. ASSUME NEW i \in 1 .. size PROVE f[i] = IF i = 1 THEN g[i] ELSE Next1(f[i - 1], i)
    <3>1. CASE i = 1
      BY <1>9, <3>1
    <3>2. CASE i # 1
      <4>1. i \in 2 .. size
        BY <1>1, <3>2
      <4> QED
        BY <1>9, <3>2, <4>1
    <3> QED
      BY <3>1, <3>2
  <2> QED
    BY <1>9, <2>1
<1> DEFINE fl == CHOOSE h : h = Rec(h)
<1>11. fl = Rec(fl)
  <2> HIDE DEF Rec
  <2> QED
    BY <1>10
<1>12. Flat(g) = fl[size]
  BY <1>1 DEF Flat, Seqs!FlattenSeq, Next1
<1> HIDE DEF fl
<1>13. \A i \in 1 .. size : fl[i] = IF i = 1 THEN g[i] ELSE Next1(fl[i - 1], i)
  BY <1>11
<1> DEFINE S == {n \in Nat : n \in 1 .. size => fl[n] = f[n]}
<1>14. 0 \in S
  OBVIOUS
<1>15. ASSUME NEW n \in Nat, n \in S PROVE n + 1 \in S
  <2> SUFFICES ASSUME n + 1 \in 1 .. size PROVE fl[n + 1] = f[n + 1]
    OBVIOUS
  <2>1. CASE n = 0
    BY <1>1, <1>9, <1>13, <2>1
  <2>2. CASE n # 0
    <3>1. n + 1 \in 2 .. size /\ n + 1 # 1 /\ (n + 1) - 1 = n /\ n \in 1 .. size
      BY <1>1, <2>2
    <3>2. fl[n] = f[n]
      BY <1>15, <3>1
    <3> DEFINE m == n + 1
    <3>3. m \in 2 .. size /\ m \in 1 .. size /\ m # 1 /\ m - 1 = n
      BY <1>1, <3>1
    <3> HIDE DEF m
    <3>4. f[m] = Next1(f[n], m) /\ fl[m] = Next1(fl[n], m)
      BY <1>9, <1>13, <3>3
    <3> QED
      BY <3>2, <3>4 DEF m
  <2> QED
    BY <2>1, <2>2
<1>16. Nat \subseteq S
  <2> HIDE DEF S
  <2> QED
    BY <1>14, <1>15, Climb
<1>17. fl[size] = f[size]
  <2>1. size \in 1 .. size
    BY <1>1
  <2>2. size \in S
    <3> HIDE DEF S
    <3> QED
      BY <1>1, <1>16
  <2> QED
    BY <2>1, <2>2
<1> QED
  BY <1>9, <1>12, <1>17 DEF Next1

\* One more piece is flattened behind the others.
LEMMA FlatAppend ==
    ASSUME NEW X, NEW g \in Seq(Seq(X)), NEW x \in Seq(X)
    PROVE  Flat(g) \in Seq(X) /\ Flat(Append(g, x)) = Flat(g) \o x
<1> DEFINE size == Len(g)
           more == Append(g, x)
<1>1. /\ size \in Nat /\ more \in Seq(Seq(X)) /\ Len(more) = size + 1
      /\ more[size + 1] = x /\ \A i \in 1 .. size : more[i] = g[i]
  OBVIOUS
<1> HIDE DEF more
<1>2. PICK f \in [1 .. size + 1 -> Seq(X)] :
         /\ f[1] = more[1]
         /\ \A i \in 2 .. size + 1 : f[i] = f[i - 1] \o more[i]
         /\ Flat(more) = f[size + 1]
  <2> DEFINE long1 == Len(more)
  <2>1. long1 > 0 /\ long1 = size + 1
    BY <1>1
  <2>2. \E f \in [1 .. long1 -> Seq(X)] :
           /\ f[1] = more[1]
           /\ \A i \in 2 .. long1 : f[i] = f[i - 1] \o more[i]
           /\ Flat(more) = f[long1]
    BY <1>1, <2>1, FlatIs
  <2> HIDE DEF long1
  <2> QED
    BY <2>1, <2>2
<1>3. CASE size = 0
  <2>1. g = <<>>
    BY <1>3
  <2>2. Flat(g) = <<>> /\ <<>> \in Seq(X) /\ <<>> \o x = x
    BY <2>1, FlatEmpty
  <2>3. Flat(more) = x
    BY <1>1, <1>2, <1>3
  <2> QED
    BY <2>2, <2>3 DEF more
<1>4. CASE size # 0
  <2>1. Len(g) > 0
    BY <1>1, <1>4
  <2>2. PICK h \in [1 .. size -> Seq(X)] :
           /\ h[1] = g[1]
           /\ \A i \in 2 .. size : h[i] = h[i - 1] \o g[i]
           /\ Flat(g) = h[size]
    BY <2>1, FlatIs
  <2> DEFINE S == {n \in Nat : n \in 1 .. size => f[n] = h[n]}
  <2>3. 0 \in S
    OBVIOUS
  <2>4. ASSUME NEW n \in Nat, n \in S PROVE n + 1 \in S
    <3> SUFFICES ASSUME n + 1 \in 1 .. size PROVE f[n + 1] = h[n + 1]
      OBVIOUS
    <3>1. CASE n = 0
      BY <1>1, <1>2, <2>1, <2>2, <3>1
    <3>2. CASE n # 0
      <4> DEFINE k == n + 1
      <4>1. /\ k \in 2 .. size + 1 /\ k \in 2 .. size /\ k \in 1 .. size
            /\ k - 1 = n /\ n \in 1 .. size
        <5>1. k \in 1 .. size /\ k # 1 /\ k \in Nat /\ size \in Nat
          BY <1>1, <3>2
        <5>2. n = k - 1 /\ n \in Nat
          OBVIOUS
        <5> HIDE DEF k, size
        <5> QED
          BY <5>1, <5>2
      <4>2. f[n] = h[n]
        BY <2>4, <4>1
      <4> HIDE DEF k
      <4>3. f[k] = f[k - 1] \o more[k] /\ h[k] = h[k - 1] \o g[k] /\ more[k] = g[k]
        BY <1>1, <1>2, <2>2, <4>1
      <4>4. f[k] = h[k]
        BY <4>1, <4>2, <4>3
      <4> QED
        BY <4>4 DEF k
    <3> QED
      BY <3>1, <3>2
  <2>5. Nat \subseteq S
    <3> HIDE DEF S
    <3> QED
      BY <2>3, <2>4, Climb
  <2>6. f[size] = h[size]
    <3>1. size \in S
      <4> HIDE DEF S
      <4> QED
        BY <1>1, <2>5
    <3>2. size \in 1 .. size
      BY <1>1, <1>4
    <3> QED
      BY <3>1, <3>2
  <2>7. /\ size + 1 \in 2 .. size + 1 /\ (size + 1) - 1 = size /\ size \in 1 .. size
    BY <1>1, <1>4
  <2>8. Flat(more) = f[size] \o x
    BY <1>1, <1>2, <2>7
  <2>9. Flat(g) \in Seq(X)
    BY <2>2, <2>7
  <2> QED
    BY <2>2, <2>6, <2>8, <2>9 DEF more
<1> QED
  BY <1>3, <1>4
-----------------------------------------------------------------------------
(* How the child reads a line: `attended` holds the places up to which no     *)
(* option waits for its value.                                             *)
Takers == Options \cup Valued

Heard(w, attended) ==
    /\ attended \subseteq 0 .. Len(w) /\ 0 \in attended
    /\ \A i \in 1 .. Len(w) : i \in attended <=> ~ (i - 1 \in attended /\ w[i] \in Takers)

\* A line, or a part of one, with a value for each of its options.
Complete(w) == \E attended : Heard(w, attended) /\ Len(w) \in attended

LEMMA PlainIsComplete ==
    ASSUME NEW X, NEW w \in Seq(X), \A i \in 1 .. Len(w) : w[i] \notin Takers
    PROVE  Complete(w)
<1> DEFINE attended == 0 .. Len(w)
<1>1. Heard(w, attended) /\ Len(w) \in attended
  BY DEF Heard
<1> QED
  BY <1>1 DEF Complete

LEMMA PairIsComplete ==
    ASSUME NEW o \in Takers, NEW v
    PROVE  Complete(<<o, v>>)
<1> DEFINE w == <<o, v>>
           attended == {0, 2}
<1>1. Len(w) = 2 /\ w[1] = o /\ w[2] = v
  OBVIOUS
<1> HIDE DEF w
<1>2. Heard(w, attended) /\ Len(w) \in attended
  <2>1. ASSUME NEW i \in 1 .. 2
        PROVE  i \in attended <=> ~ (i - 1 \in attended /\ w[i] \in Takers)
    <3>1. CASE i = 1
      BY <1>1, <3>1
    <3>2. CASE i = 2
      BY <3>2
    <3> QED
      BY <3>1, <3>2
  <2> QED
    BY <1>1, <2>1 DEF Heard
<1> QED
  BY <1>2 DEF Complete, w

LEMMA JoinIsHeard ==
    ASSUME NEW X, NEW a \in Seq(X), NEW b \in Seq(X),
           NEW R, Heard(a, R), Len(a) \in R, NEW S, Heard(b, S)
    PROVE  \E attended : /\ Heard(a \o b, attended)
                     /\ \A k \in 0 .. Len(b) : Len(a) + k \in attended <=> k \in S
<1> DEFINE m == Len(a)
           n == Len(b)
           w == a \o b
<1>1. /\ m \in Nat /\ n \in Nat /\ Len(w) = m + n
      /\ \A i \in 1 .. m : w[i] = a[i]
      /\ \A i \in 1 .. n : w[m + i] = b[i]
  <2>1. /\ m \in Nat /\ n \in Nat /\ w \in Seq(X) /\ Len(w) = m + n
        /\ \A i \in 1 .. m + n : w[i] = IF i <= m THEN a[i] ELSE b[i - m]
    BY ConcatProperties
  <2> HIDE DEF w
  <2>2. ASSUME NEW i \in 1 .. n PROVE w[m + i] = b[i]
    <3>1. m + i \in 1 .. m + n /\ ~ (m + i <= m) /\ (m + i) - m = i
      BY <2>1
    <3> HIDE DEF m, n
    <3> QED
      BY <2>1, <3>1
  <2>3. \A i \in 1 .. m : w[i] = a[i]
    BY <2>1
  <2> QED
    BY <2>1, <2>2, <2>3
<1> HIDE DEF w
<1> DEFINE attended == {i \in 0 .. m + n : IF i <= m THEN i \in R ELSE i - m \in S}
<1>4. 0 \in attended
  BY <1>1 DEF Heard
<1>5. ASSUME NEW i \in 1 .. m + n
      PROVE  i \in attended <=> ~ (i - 1 \in attended /\ w[i] \in Takers)
  <2>1. CASE i <= m
    BY <1>1, <2>1 DEF Heard
  <2>2. CASE i > m
    <3> DEFINE j == i - m
    <3>1. j \in 1 .. n /\ w[i] = b[j] /\ m + j = i
      BY <1>1, <2>2
    <3>2. i \in attended <=> j \in S
      BY <1>1, <2>2
    <3>3. i - 1 \in attended <=> j - 1 \in S
      <4>1. CASE j = 1
        <5>1. i - 1 = m /\ j - 1 = 0
          BY <1>1, <4>1
        <5>2. i - 1 \in attended /\ j - 1 \in S
          BY <1>1, <5>1 DEF Heard
        <5> QED
          BY <5>2
      <4>2. CASE j # 1
        BY <1>1, <2>2, <3>1, <4>2
      <4> QED
        BY <4>1, <4>2
    <3>4. j \in S <=> ~ (j - 1 \in S /\ b[j] \in Takers)
      BY <3>1 DEF Heard
    <3> HIDE DEF attended, j
    <3> QED
      BY <3>1, <3>2, <3>3, <3>4
  <2> QED
    BY <1>1, <2>1, <2>2
<1>6. Heard(w, attended)
  BY <1>1, <1>4, <1>5 DEF Heard
<1>7. ASSUME NEW k \in 0 .. n PROVE m + k \in attended <=> k \in S
  <2>1. CASE k = 0
    BY <1>1, <2>1 DEF Heard
  <2>2. CASE k # 0
    BY <1>1, <2>2
  <2> QED
    BY <2>1, <2>2
<1> QED
  BY <1>6, <1>7 DEF w

LEMMA JoinIsComplete ==
    ASSUME NEW X, NEW a \in Seq(X), NEW b \in Seq(X), Complete(a), Complete(b)
    PROVE  Complete(a \o b)
<1>1. PICK R : Heard(a, R) /\ Len(a) \in R
  BY DEF Complete
<1>2. PICK S : Heard(b, S) /\ Len(b) \in S
  BY DEF Complete
<1>3. PICK attended : /\ Heard(a \o b, attended)
                   /\ \A k \in 0 .. Len(b) : Len(a) + k \in attended <=> k \in S
  BY <1>1, <1>2, JoinIsHeard
<1>4. Len(b) \in 0 .. Len(b) /\ Len(a \o b) = Len(a) + Len(b)
  BY ConcatProperties
<1> QED
  BY <1>2, <1>3, <1>4 DEF Complete
\* What `read` holds in Understood.
ReadAt(attended, option) == {i \in 1 .. Len(line) - 1 : line[i] = option /\ i - 1 \in attended}
LastOf(places) == CHOOSE i \in places : \A j \in places : j <= i

LEMMA ReadIsHeard ==
    ASSUME NEW attended, Heard(line, attended), Len(line) \in Nat, NEW option
    PROVE  Understood(option) = line[LastOf(ReadAt(attended, option)) + 1]
<1> DEFINE size == Len(line)
           Rec(f) == [i \in 1 .. size |->
                         i = 1 \/ ~ (f[i - 1] /\ line[i - 1] \in Options \cup Valued)]
           f == [i \in 1 .. size |-> i - 1 \in attended]
           read == CHOOSE h : h = Rec(h)
<1>1. /\ size \in Nat /\ 0 \in attended
      /\ \A i \in 1 .. size : i \in attended <=> ~ (i - 1 \in attended /\ line[i] \in Takers)
  BY DEF Heard
<1>2. f = Rec(f)
  <2>1. ASSUME NEW i \in 1 .. size
        PROVE  (i - 1 \in attended)
                 = (i = 1 \/ ~ (f[i - 1] /\ line[i - 1] \in Options \cup Valued))
    <3>1. CASE i = 1
      BY <1>1, <3>1
    <3>2. CASE i # 1
      <4>1. i - 1 \in 1 .. size /\ f[i - 1] = ((i - 1) - 1 \in attended)
        BY <1>1, <3>2
      <4>2. i - 1 \in attended <=> ~ ((i - 1) - 1 \in attended /\ line[i - 1] \in Takers)
        BY <1>1, <4>1
      <4> HIDE DEF f
      <4>3. i - 1 \in attended <=> i = 1 \/ ~ (f[i - 1] /\ line[i - 1] \in Options \cup Valued)
        BY <3>2, <4>1, <4>2, Zenon DEF Takers
      <4> QED
        BY <4>3
    <3> QED
      BY <3>1, <3>2
  <2> QED
    BY <2>1
<1>3. read = Rec(read)
  <2> HIDE DEF Rec, f
  <2> QED
    BY <1>2
<1> DEFINE places == {i \in 1 .. size - 1 : line[i] = option /\ read[i]}
<1>4. Understood(option) = line[LastOf(places) + 1]
  BY DEF Understood, LastOf
<1> HIDE DEF read
<1>5. \A i \in 1 .. size :
         read[i] = (i = 1 \/ ~ (read[i - 1] /\ line[i - 1] \in Options \cup Valued))
  BY <1>3
<1> DEFINE T == {n \in Nat : n \in 1 .. size => (read[n] <=> n - 1 \in attended)}
<1>6. 0 \in T
  OBVIOUS
<1>7. ASSUME NEW n \in Nat, n \in T PROVE n + 1 \in T
  <2> DEFINE k == n + 1
  <2>1. k \in Nat /\ k - 1 = n
    OBVIOUS
  <2> HIDE DEF k
  <2> SUFFICES ASSUME k \in 1 .. size PROVE read[k] <=> n \in attended
    BY <2>1 DEF k
  <2>2. CASE k = 1
    <3>1. read[k] = (k = 1 \/ ~ (read[k - 1] /\ line[k - 1] \in Options \cup Valued))
      BY <1>5
    <3>2. n \in attended
      BY <1>1, <2>1, <2>2
    <3> QED
      BY <2>2, <3>1, <3>2, Zenon
  <2>3. CASE k # 1
    <3>1. n \in 1 .. size
      BY <1>1, <2>1, <2>3
    <3>2. read[n] <=> n - 1 \in attended
      BY <1>7, <3>1
    <3>3. n \in attended <=> ~ (n - 1 \in attended /\ line[n] \in Takers)
      BY <1>1, <3>1
    <3>4. read[k] = (k = 1 \/ ~ (read[n] /\ line[n] \in Options \cup Valued))
      BY <1>5, <2>1
    <3> QED
      BY <2>3, <3>2, <3>3, <3>4, Zenon DEF Takers
  <2> QED
    BY <2>2, <2>3
<1>8. Nat \subseteq T
  <2> HIDE DEF T
  <2> QED
    BY <1>6, <1>7, Climb
<1>9. \A i \in 1 .. size : read[i] <=> i - 1 \in attended
  BY <1>8
<1>10. places = ReadAt(attended, option)
  BY <1>1, <1>9 DEF ReadAt
<1> QED
  BY <1>4, <1>10

\* Gila's options come last, and what is written before them takes none of them.
LEMMA OwnOptionsCount ==
    ASSUME NEW X, NEW before \in Seq(X), Controlled \in Seq(X), line = before \o Controlled,
           Complete(before), Asked \notin Takers
    PROVE  /\ Understood("--config") = "own config"
           /\ Understood("--port") = "own port"
           /\ Understood("--ip") = "own ip"
           /\ Understood("--ServerApp.default_url") = Asked
<1> DEFINE m == Len(before)
           own == Controlled
           page == Asked
<1>1. /\ Len(own) = 12
      /\ own[1] = "--config" /\ own[2] = "own config"
      /\ own[3] = "--NotebookApp.default_url" /\ own[4] = page
      /\ own[5] = "--ServerApp.default_url" /\ own[6] = page
      /\ own[7] = "--JupyterNotebookApp.default_url" /\ own[8] = page
      /\ own[9] = "--port" /\ own[10] = "own port"
      /\ own[11] = "--ip" /\ own[12] = "own ip"
  BY DEF Controlled
<1> HIDE DEF page
<1>2. /\ m \in Nat /\ Len(line) = m + 12
      /\ \A i \in 1 .. m + 12 : line[i] = IF i <= m THEN before[i] ELSE own[i - m]
  <2> HIDE DEF own
  <2>1. own \in Seq(X) /\ line = before \o own
    BY DEF own
  <2>2. /\ Len(before \o own) = Len(before) + Len(own)
        /\ \A i \in 1 .. Len(before) + Len(own) :
              (before \o own)[i] = IF i <= Len(before) THEN before[i] ELSE own[i - Len(before)]
    BY <2>1, ConcatProperties
  <2>3. Len(before) \in Nat /\ Len(own) = 12
    <3>1. Len(before) \in Nat
      OBVIOUS
    <3> QED
      BY <1>1, <3>1
  <2> DEFINE w == before \o own
  <2>4. line = w
    BY <2>1
  <2> HIDE DEF w
  <2>5. /\ Len(w) = m + 12
        /\ \A i \in 1 .. m + 12 : w[i] = IF i <= m THEN before[i] ELSE own[i - m]
    BY <2>2, <2>3 DEF w
  <2> QED
    BY <2>3, <2>4, <2>5
<1>3. /\ \A i \in {1, 5, 9, 11} : own[i] \in Options
      /\ \A i \in {2, 3, 4, 6, 7, 8, 10, 12} : own[i] \notin Options
      /\ \A i \in {3, 4, 7, 8} : own[i] \notin Takers
  <2>1. page \notin Takers /\ page \notin Options
    BY DEF Takers, page
  <2>2. "--NotebookApp.default_url" \in OwnWords /\ "--JupyterNotebookApp.default_url" \in OwnWords
    BY DEF OwnWords
  <2>3. /\ "--NotebookApp.default_url" \notin Takers
        /\ "--JupyterNotebookApp.default_url" \notin Takers
    BY <2>2, FlagsAssumption DEF Takers, Options
  <2> HIDE DEF own
  <2>4. own[3] \notin Takers /\ own[4] \notin Takers /\ own[7] \notin Takers /\ own[8] \notin Takers
    BY <1>1, <2>1, <2>3
  <2>5. /\ own[1] \in Options /\ own[5] \in Options /\ own[9] \in Options /\ own[11] \in Options
        /\ own[2] \notin Options /\ own[10] \notin Options /\ own[12] \notin Options
    BY <1>1 DEF Options
  <2>6. /\ own[3] \notin Options /\ own[4] \notin Options /\ own[6] \notin Options
        /\ own[7] \notin Options /\ own[8] \notin Options
    BY <1>1, <2>1, <2>4 DEF Takers
  <2> QED
    BY <2>4, <2>5, <2>6
<1>4. own[1] # own[5] /\ own[1] # own[9] /\ own[1] # own[11]
      /\ own[5] # own[9] /\ own[5] # own[11] /\ own[9] # own[11]
  <2> HIDE DEF own
  <2> QED
    BY <1>1
<1> HIDE DEF m, own
<1>5. \A k \in 1 .. 12 : m + k \in 1 .. m + 12 /\ line[m + k] = own[k]
  <2> SUFFICES ASSUME NEW k \in 1 .. 12
               PROVE  m + k \in 1 .. m + 12 /\ line[m + k] = own[k]
    OBVIOUS
  <2>1. m + k \in 1 .. m + 12 /\ ~ (m + k <= m) /\ (m + k) - m = k
    BY <1>2
  <2> QED
    BY <1>2, <2>1
<1> DEFINE S == {0, 2, 3, 4, 6, 7, 8, 10, 12}
<1>6. Heard(own, S)
  <2>1. ASSUME NEW i \in 1 .. 12
        PROVE  i \in S <=> ~ (i - 1 \in S /\ own[i] \in Takers)
    <3>1. CASE i \in {1, 5, 9, 11}
      <4>1. own[i] \in Takers
        BY <1>3, <3>1 DEF Takers
      <4>2. i - 1 \in S /\ i \notin S
        BY <3>1
      <4> QED
        BY <4>1, <4>2
    <3>2. CASE i \in {3, 4, 7, 8}
      <4>1. own[i] \notin Takers /\ i \in S
        BY <1>3, <3>2
      <4> QED
        BY <4>1
    <3>3. CASE i \in {2, 6, 10, 12}
      <4>1. i - 1 \notin S /\ i \in S
        BY <3>3
      <4> QED
        BY <4>1
    <3> QED
      BY <3>1, <3>2, <3>3
  <2>2. S \subseteq 0 .. 12 /\ 0 \in S
    OBVIOUS
  <2> HIDE DEF S
  <2> QED
    BY <1>1, <2>1, <2>2 DEF Heard
<1>7. PICK R : Heard(line, R) /\ \A k \in 0 .. 12 : m + k \in R <=> k \in S
  <2>1. PICK T : Heard(before, T) /\ m \in T
    BY DEF Complete, m
  <2> HIDE DEF S
  <2>2. own \in Seq(X) /\ line = before \o own
    BY DEF own
  <2>3. PICK R : /\ Heard(before \o own, R)
                 /\ \A k \in 0 .. Len(own) : Len(before) + k \in R <=> k \in S
    BY <1>6, <2>1, <2>2, JoinIsHeard DEF m
  <2> QED
    BY <1>1, <2>2, <2>3 DEF m
\* The last place at which an option is read as one.
<1>8. ASSUME NEW k \in {1, 5, 9, 11}
      PROVE  Understood(own[k]) = own[k + 1]
  <2> DEFINE places == ReadAt(R, own[k])
             top == LastOf(places)
  <2>1. Understood(own[k]) = line[top + 1]
    <3>1. Len(line) \in Nat
      BY <1>2
    <3> QED
      BY <1>7, <3>1, ReadIsHeard
  <2>2. k \in 1 .. 11 /\ k + 1 \in 1 .. 12 /\ k - 1 \in S /\ k - 1 \in 0 .. 12
    OBVIOUS
  <2> HIDE DEF S
  <2>3. m + k \in places
    <3>1. m + k \in 1 .. Len(line) - 1 /\ (m + k) - 1 = m + (k - 1)
      BY <1>2, <2>2
    <3>2. (m + k) - 1 \in R
      BY <1>7, <2>2, <3>1
    <3>3. line[m + k] = own[k]
      <4>1. k \in 1 .. 12
        OBVIOUS
      <4> QED
        BY <1>5, <4>1
    <3> QED
      BY <3>1, <3>2, <3>3 DEF ReadAt
  <2>4. ASSUME NEW j \in places PROVE j \in Nat /\ j <= m + k
    <3>1. j \in 1 .. m + 11 /\ line[j] = own[k]
      BY <1>2 DEF ReadAt
    <3> SUFFICES ASSUME j > m + k PROVE FALSE
      BY <1>2, <2>2, <3>1
    <3> DEFINE l == j - m
    <3>2. l \in k + 1 .. 11 /\ m + l = j /\ l \in 1 .. 12
      BY <1>2, <2>2, <3>1
    <3> HIDE DEF l
    <3>3. own[l] = own[k]
      BY <1>5, <3>1, <3>2
    <3>4. own[l] \in Options
      BY <1>3, <3>3
    <3>5. l \in {1, 5, 9, 11}
      BY <1>3, <3>2, <3>4
    <3>6. l # k
      BY <2>2, <3>2
    <3> QED
      BY <1>4, <3>3, <3>5, <3>6
  <2>5. m + k \in Nat
    BY <1>2, <2>2
  <2> HIDE DEF places
  <2>6. top = m + k
    <3>1. top \in places /\ \A j \in places : j <= top
      BY <2>3, <2>4 DEF LastOf
    <3> HIDE DEF top
    <3> QED
      BY <2>3, <2>4, <2>5, <3>1
  <2> HIDE DEF top
  <2>7. line[top + 1] = own[k + 1]
    <3>1. top + 1 = m + (k + 1)
      BY <1>2, <2>2, <2>6
    <3> QED
      BY <1>5, <2>2, <3>1
  <2> QED
    BY <2>1, <2>7
<1>9. /\ Understood(own[1]) = own[2] /\ Understood(own[9]) = own[10]
      /\ Understood(own[11]) = own[12] /\ Understood(own[5]) = own[6]
  <2>1. \A k \in {1, 5, 9, 11} : Understood(own[k]) = own[k + 1]
    BY <1>8
  <2>2. /\ Understood(own[1]) = own[1 + 1] /\ Understood(own[9]) = own[9 + 1]
        /\ Understood(own[11]) = own[11 + 1] /\ Understood(own[5]) = own[5 + 1]
    BY <2>1
  <2> QED
    BY <2>2
<1> QED
  BY <1>1, <1>9 DEF page
\* Where a piece is found in what the pieces are flattened to.
LEMMA FlatCut ==
    ASSUME NEW X, NEW g \in Seq(Seq(X)), NEW k \in Nat, k < Len(g)
    PROVE  /\ Flat(SubSeq(g, 1, k)) \in Seq(X)
           /\ Flat(SubSeq(g, 1, k + 1)) = Flat(SubSeq(g, 1, k)) \o g[k + 1]
           /\ \A j \in 1 .. Len(g[k + 1]) :
                 /\ Len(Flat(SubSeq(g, 1, k))) + j <= Len(Flat(g))
                 /\ Flat(g)[Len(Flat(SubSeq(g, 1, k))) + j] = g[k + 1][j]
<1> DEFINE size == Len(g)
           Up(n) == Flat(SubSeq(g, 1, n))
<1>1. size \in Nat /\ \A n \in 1 .. size : g[n] \in Seq(X)
  OBVIOUS
<1>2. ASSUME NEW n \in Nat, n < size
      PROVE  /\ Up(n) \in Seq(X) /\ Up(n + 1) = Up(n) \o g[n + 1] /\ Up(n + 1) \in Seq(X)
             /\ g[n + 1] \in Seq(X)
  <2>1. SubSeq(g, 1, n) \in Seq(Seq(X)) /\ n + 1 \in 1 .. size /\ g[n + 1] \in Seq(X)
    <3>1. n + 1 \in 1 .. size
      BY <1>1, <1>2
    <3>2. \A i \in 1 .. n : g[i] \in Seq(X)
      BY <1>1, <1>2
    <3>3. SubSeq(g, 1, n) \in Seq(Seq(X))
      BY <3>2, SubSeqProperties
    <3> QED
      BY <1>1, <3>1, <3>3
  <2>2. SubSeq(g, 1, n + 1) = Append(SubSeq(g, 1, n), g[n + 1])
    BY <1>1, <1>2
  <2>3. Up(n) \in Seq(X) /\ Up(n + 1) = Up(n) \o g[n + 1]
    BY <2>1, <2>2, FlatAppend
  <2> HIDE DEF Up
  <2> QED
    BY <2>1, <2>3, ConcatProperties
<1>3. Up(size) = Flat(g)
  BY SubSeqFull
<1> DEFINE base == Up(k + 1)
           c == Len(base)
           Ext(n) == c <= Len(Up(n)) /\ \A i \in 1 .. c : Up(n)[i] = base[i]
           T == {n \in Nat : n \in k + 1 .. size => Ext(n)}
<1>4. base \in Seq(X) /\ c \in Nat
  <2>1. base \in Seq(X)
    BY <1>2
  <2> HIDE DEF base
  <2> QED
    BY <2>1
<1> HIDE DEF base
<1>5. Ext(k + 1)
  BY <1>4 DEF base
<1> HIDE DEF c
<1>6. ASSUME NEW n \in Nat, n \in T PROVE n + 1 \in T
  <2> SUFFICES ASSUME n + 1 \in k + 1 .. size PROVE Ext(n + 1)
    OBVIOUS
  <2>1. CASE n = k
    BY <1>5, <2>1
  <2>2. CASE n # k
    <3>1. n \in k + 1 .. size /\ n < size
      BY <1>1, <2>2
    <3>2. Ext(n)
      BY <1>6, <3>1
    <3>3. Up(n) \in Seq(X) /\ Up(n + 1) = Up(n) \o g[n + 1] /\ g[n + 1] \in Seq(X)
      BY <1>2, <3>1
    <3> DEFINE u == Up(n)
               x == g[n + 1]
               w == u \o x
    <3>4. u \in Seq(X) /\ x \in Seq(X) /\ Up(n + 1) = w
      BY <3>3
    <3> HIDE DEF Up, u, x
    <3>5. /\ Len(u) \in Nat /\ Len(x) \in Nat /\ Len(w) = Len(u) + Len(x)
          /\ \A i \in 1 .. Len(u) + Len(x) : w[i] = IF i <= Len(u) THEN u[i] ELSE x[i - Len(u)]
      BY <3>4, ConcatProperties
    <3> HIDE DEF w
    <3>6. c <= Len(u) /\ \A i \in 1 .. c : u[i] = base[i]
      BY <3>2 DEF u
    <3>7. c <= Len(w) /\ \A i \in 1 .. c : w[i] = base[i]
      <4>1. c <= Len(w)
        BY <1>4, <3>5, <3>6
      <4>2. ASSUME NEW i \in 1 .. c PROVE w[i] = base[i]
        <5>1. i \in 1 .. Len(u) + Len(x) /\ i <= Len(u)
          BY <1>4, <3>5, <3>6
        <5> QED
          BY <3>5, <3>6, <5>1
      <4> QED
        BY <4>1, <4>2
    <3> QED
      BY <3>4, <3>7
  <2> QED
    BY <2>1, <2>2
<1>7. 0 \in T
  OBVIOUS
<1>8. Nat \subseteq T
  <2> HIDE DEF T
  <2> QED
    BY <1>6, <1>7, Climb
<1>9. Ext(size)
  <2>1. size \in k + 1 .. size /\ size \in Nat
    BY <1>1
  <2> HIDE DEF Ext
  <2> QED
    BY <1>8, <2>1
<1> DEFINE u == Up(k)
           x == g[k + 1]
           b == Len(u)
<1>10. /\ u \in Seq(X) /\ x \in Seq(X) /\ base = u \o x
  BY <1>2 DEF base
<1> HIDE DEF u, x
<1>11. /\ b \in Nat /\ Len(x) \in Nat /\ c = b + Len(x)
       /\ \A i \in 1 .. b + Len(x) : base[i] = IF i <= b THEN u[i] ELSE x[i - b]
  BY <1>10, ConcatProperties DEF c
<1>12. ASSUME NEW j \in 1 .. Len(x) PROVE b + j <= Len(Flat(g)) /\ Flat(g)[b + j] = x[j]
  <2>1. b + j \in 1 .. c /\ ~ (b + j <= b) /\ (b + j) - b = j
    BY <1>11
  <2>2. c <= Len(Flat(g)) /\ Flat(g)[b + j] = base[b + j]
    BY <1>3, <1>9, <2>1
  <2>3. Len(Flat(g)) \in Nat
    <3>1. size - 1 \in Nat /\ size - 1 < size /\ (size - 1) + 1 = size
      BY <1>1
    <3>2. Up(size) \in Seq(X)
      BY <1>2, <3>1
    <3> HIDE DEF Up
    <3> QED
      BY <1>3, <3>2
  <2>4. base[b + j] = x[j]
    BY <1>11, <2>1
  <2> HIDE DEF b
  <2> QED
    BY <1>11, <2>1, <2>2, <2>3, <2>4
<1> QED
  BY <1>2, <1>12 DEF u, x, base
-----------------------------------------------------------------------------
(* What the parser knows at each argument.                                 *)
Word ==
    Seqs!ToSet(extra) \cup DOMAIN Joined \cup {Joined[a].value : a \in DOMAIN Joined}
        \cup {Routes[v] : v \in DOMAIN Routes} \cup DOMAIN Routes
        \cup {RouteFlag} \cup Valued \cup Switches \cup OwnWords \cup Options
        \cup {"own config", "own port", "own ip"}

Legal == RouteGroups \cup (IF standIn THEN FixtureGroups ELSE {})

AtMostOneRoute(g) ==
    \A i, j \in DOMAIN g : {g[i], g[j]} \subseteq RouteGroups => i = j

\* The arguments before the index are the groups of g.
Grouped(g) ==
    /\ AtMostOneRoute(g) /\ Flat(g) = SubSeq(extra, 1, index - 1) /\ Len(g) < index
    /\ route = NoRoute => \A i \in DOMAIN g : g[i] \notin RouteGroups

\* However the whole line is made of groups, one of them ends at the index.
Reached(g) ==
    \E k \in 0 .. Len(g) :
        /\ Len(Flat(SubSeq(g, 1, k))) = index - 1
        /\ route # NoRoute => \E i \in 1 .. k : g[i] \in RouteGroups

LineInv ==
    /\ extra \in Seq(Word)
    /\ index \in Nat \ {0} /\ index <= Len(extra) + 1
    /\ forwarded \in Seq(Word) /\ Complete(forwarded)
    /\ route \in {NoRoute} \cup {Routes[v] : v \in DOMAIN Routes}
    /\ step \in {"parse", "launch", "spawned", "refused"}
    /\ step # "refused" => \E g \in Seq(Legal) : Grouped(g)
    /\ step = "parse" =>
          \A g \in Seq(Legal) : AtMostOneRoute(g) /\ Flat(g) = extra => Reached(g)
    /\ step \in {"launch", "spawned"} => index = Len(extra) + 1
    /\ step = "spawned" => line = Line /\ env = Environment
    /\ step = "refused" => ~ Acceptable

LEMMA JoinedIsGroup ==
    ASSUME NEW F, NEW V, NEW a \in DOMAIN Joined, Joined[a].flag \in F, Joined[a].value \in V
    PROVE  <<a>> \in OptionGroups(F, V)
BY DEF OptionGroups

LEMMA GroupIs ==
    ASSUME NEW F, NEW V, NEW x \in OptionGroups(F, V)
    PROVE  \/ \E f \in F, v \in V : x = <<f, v>>
           \/ \E a \in DOMAIN Joined : x = <<a>> /\ Joined[a].flag \in F /\ Joined[a].value \in V
BY DEF OptionGroups

\* A group has a value unless it is joined or a switch, and its first
\* argument tells whether it is a default page.
LEMMA GroupShape ==
    ASSUME NEW x \in Legal
    PROVE  /\ x \in Seq(Word)
           /\ Len(x) = IF x[1] \in DOMAIN Joined \cup Switches THEN 1 ELSE 2
           /\ x \in RouteGroups <=>
                 \/ x[1] = RouteFlag
                 \/ x[1] \in DOMAIN Joined /\ Joined[x[1]].flag = RouteFlag
<1> DEFINE Values == Seqs!ToSet(extra) \cup {Joined[a].value : a \in DOMAIN Joined}
<1>1. ASSUME NEW f \in Valued \cup {RouteFlag}, NEW v \in Word, x = <<f, v>>
      PROVE  /\ x \in Seq(Word) /\ Len(x) = 2 /\ x[1] = f
             /\ x[1] \notin DOMAIN Joined \cup Switches
  <2>1. f \in Word /\ f \notin DOMAIN Joined \cup Switches
    BY FlagsAssumption DEF Word
  <2> QED
    BY <1>1, <2>1
<1>2. ASSUME NEW a \in DOMAIN Joined \cup Switches, x = <<a>>
      PROVE  x \in Seq(Word) /\ Len(x) = 1 /\ x[1] = a
  <2>1. a \in Word
    BY DEF Word
  <2> QED
    BY <1>2, <2>1
<1>3. CASE x \in RouteGroups
  <2>1. CASE \E v \in DOMAIN Routes : x = <<RouteFlag, v>>
    <3>1. PICK v \in DOMAIN Routes : x = <<RouteFlag, v>>
      BY <2>1
    <3>2. v \in Word
      BY DEF Word
    <3>3. /\ x \in Seq(Word) /\ Len(x) = 2 /\ x[1] = RouteFlag
          /\ x[1] \notin DOMAIN Joined \cup Switches
      BY <1>1, <3>1, <3>2
    <3> QED
      BY <1>3, <3>3
  <2>2. CASE \E a \in DOMAIN Joined : x = <<a>> /\ Joined[a].flag = RouteFlag
    <3>1. PICK a \in DOMAIN Joined : x = <<a>> /\ Joined[a].flag = RouteFlag
      BY <2>2
    <3>2. x \in Seq(Word) /\ Len(x) = 1 /\ x[1] = a
      BY <1>2, <3>1
    <3> QED
      BY <1>3, <3>1, <3>2
  <2> QED
    BY <1>3, <2>1, <2>2 DEF RouteGroups, OptionGroups
<1>4. CASE x \notin RouteGroups
  <2>0. x \in FixtureGroups
    BY <1>4 DEF Legal
  <2>1. CASE \E f \in Valued, v \in Values : x = <<f, v>>
    <3>1. PICK f \in Valued, v \in Values : x = <<f, v>>
      BY <2>1
    <3>2. v \in Word /\ f \in Valued \cup {RouteFlag}
      BY DEF Word
    <3>3. /\ x \in Seq(Word) /\ Len(x) = 2 /\ x[1] = f
          /\ x[1] \notin DOMAIN Joined \cup Switches
      BY <1>1, <3>1, <3>2
    <3>4. f # RouteFlag
      BY FlagsAssumption
    <3> QED
      BY <1>4, <3>3, <3>4
  <2>2. CASE \E a \in DOMAIN Joined : x = <<a>> /\ Joined[a].flag \in Valued
    <3>1. PICK a \in DOMAIN Joined : x = <<a>> /\ Joined[a].flag \in Valued
      BY <2>2
    <3>2. x \in Seq(Word) /\ Len(x) = 1 /\ x[1] = a
      BY <1>2, <3>1
    <3>3. a # RouteFlag /\ Joined[a].flag # RouteFlag
      BY <3>1, FlagsAssumption
    <3> QED
      BY <1>4, <3>2, <3>3
  <2>3. CASE \E f \in Switches : x = <<f>>
    <3>1. PICK f \in Switches : x = <<f>>
      BY <2>3
    <3>2. x \in Seq(Word) /\ Len(x) = 1 /\ x[1] = f
      BY <1>2, <3>1
    <3>3. f # RouteFlag /\ f \notin DOMAIN Joined
      BY FlagsAssumption
    <3> QED
      BY <1>4, <3>2, <3>3
  <2>4. x \in OptionGroups(Valued, Values) \/ \E f \in Switches : x = <<f>>
    BY <2>0 DEF FixtureGroups
  <2>5. x \in OptionGroups(Valued, Values) =>
           \/ \E f \in Valued, v \in Values : x = <<f, v>>
           \/ \E a \in DOMAIN Joined : x = <<a>> /\ Joined[a].flag \in Valued
    <3> HIDE DEF Values
    <3> QED
      BY GroupIs
  <2> QED
    BY <2>1, <2>2, <2>3, <2>4, <2>5
<1> QED
  BY <1>3, <1>4
\* The group x begins at the index.
Begins(x) ==
    x[1] = Argument /\ (Len(x) = 2 => index < Len(extra) /\ x[2] = extra[index + 1])

\* What is taken is a group, the first default page or what the stand-in is given.
LEMMA ParserTakes ==
    ASSUME LineInv, ParseArgument, step' = "parse"
    PROVE  \E x \in Legal :
              /\ Begins(x) /\ index' = index + Len(x)
              /\ \/ /\ x \in RouteGroups /\ route = NoRoute /\ forwarded' = forwarded
                    /\ route' \in {Routes[v] : v \in DOMAIN Routes}
                 \/ /\ x \notin RouteGroups /\ route' = route
                    /\ \E w \in Seq(Word) : Complete(w) /\ forwarded' = forwarded \o w
<1> DEFINE a == Argument
           v == extra[index + 1]
<1>1. /\ index \in Nat \ {0} /\ index <= Len(extra) /\ Len(extra) \in Nat
      /\ a = extra[index] /\ a \in Seqs!ToSet(extra)
  <2>1. index \in Nat \ {0} /\ index <= Len(extra) /\ Len(extra) \in Nat
    BY DEF LineInv, ParseArgument
  <2>2. index \in DOMAIN extra
    BY <2>1 DEF LineInv
  <2> QED
    BY <2>1, <2>2 DEF Argument, Seqs!ToSet
<1>2. index < Len(extra) => v \in Seqs!ToSet(extra)
  <2>1. index < Len(extra) => index + 1 \in DOMAIN extra
    BY <1>1 DEF LineInv
  <2> QED
    BY <2>1 DEF Seqs!ToSet
<1>3. /\ HasValue <=> a \in DOMAIN Joined \/ index < Len(extra)
      /\ Value = IF a \in DOMAIN Joined THEN Joined[a].value ELSE v
      /\ Flag = IF a \in DOMAIN Joined THEN Joined[a].flag ELSE a
      /\ Skip <=> index' = index + (IF a \in DOMAIN Joined THEN 1 ELSE 2)
  BY DEF HasValue, IsJoined, Value, Flag, Skip
<1>4. /\ RouteFlag \notin DOMAIN Joined
      /\ \A f \in Valued : f \notin DOMAIN Joined /\ f \notin Switches /\ f # RouteFlag
      /\ \A f \in Switches : f \notin DOMAIN Joined /\ f \notin Takers /\ f # RouteFlag
  BY FlagsAssumption DEF Takers
<1>5. ~ RefuseLine
  BY DEF RefuseLine
<1> HIDE DEF a, v
<1>6. CASE IsOption({RouteFlag})
  <2>1. /\ HasValue /\ route = NoRoute /\ Value \in DOMAIN Routes
        /\ route' = Routes[Value] /\ Skip /\ forwarded' = forwarded
    BY <1>5, <1>6 DEF ParseArgument, TakeRoute
  <2>2. CASE a \in DOMAIN Joined
    <3> DEFINE x == <<a>>
    <3>1. Joined[a].flag = RouteFlag /\ Joined[a].value \in DOMAIN Routes
      BY <1>3, <1>4, <1>6, <2>1, <2>2 DEF IsOption, IsJoined, a
    <3>2. x \in RouteGroups
      BY <2>2, <3>1 DEF RouteGroups, OptionGroups
    <3>3. x[1] = a /\ Len(x) = 1
      OBVIOUS
    <3> HIDE DEF x
    <3>4. Begins(x) /\ index' = index + Len(x)
      BY <1>3, <2>1, <2>2, <3>3 DEF Begins, a
    <3> QED
      BY <2>1, <3>2, <3>4 DEF Legal
  <2>3. CASE a \notin DOMAIN Joined
    <3> DEFINE x == <<a, v>>
    <3>1. a = RouteFlag /\ v \in DOMAIN Routes /\ index < Len(extra)
      BY <1>3, <1>6, <2>1, <2>3 DEF IsOption, IsJoined, a
    <3>2. x \in RouteGroups
      BY <3>1 DEF RouteGroups, OptionGroups
    <3>3. x[1] = a /\ Len(x) = 2 /\ x[2] = v
      OBVIOUS
    <3> HIDE DEF x
    <3>4. Begins(x) /\ index' = index + Len(x)
      BY <1>3, <2>1, <2>3, <3>1, <3>3 DEF Begins, a, v
    <3> QED
      BY <2>1, <3>2, <3>4 DEF Legal
  <2> QED
    BY <2>2, <2>3
<1>7. CASE ~ IsOption({RouteFlag})
  <2>1. standIn /\ (IsOption(Valued) \/ a \in Switches) /\ TakeFixture
    BY <1>5, <1>7 DEF ParseArgument, a
  <2>2. CASE a \in Switches
    <3> DEFINE x == <<a>>
    <3>1. forwarded' = Append(forwarded, a) /\ index' = index + 1 /\ route' = route
      BY <2>1, <2>2 DEF TakeFixture, a
    <3>2. x \in FixtureGroups
      BY <2>2 DEF FixtureGroups
    <3>3. x[1] = a /\ Len(x) = 1 /\ a \in Word
      BY <2>2 DEF Word
    <3>4. x \in Seq(Word) /\ Complete(x)
      <4>1. x \in Seq(Word) /\ \A i \in 1 .. Len(x) : x[i] \notin Takers
        BY <1>4, <2>2, <3>3
      <4> QED
        BY <4>1, PlainIsComplete
    <3>5. forwarded' = forwarded \o x
      BY <3>1, <3>3, AppendIsConcat DEF LineInv
    <3> HIDE DEF x
    <3>6. x \in Legal /\ Begins(x) /\ index' = index + Len(x)
      BY <2>1, <3>1, <3>2, <3>3 DEF Begins, Legal, a
    <3>7. x \notin RouteGroups
      BY <1>4, <2>2, <3>3, <3>6, GroupShape
    <3> QED
      BY <3>1, <3>4, <3>5, <3>6, <3>7
  <2>3. CASE a \notin Switches
    <3>1. /\ HasValue /\ (a \in DOMAIN Joined => Value # "")
          /\ forwarded' = forwarded \o <<Flag, Value>> /\ Skip /\ route' = route
      BY <1>5, <2>1, <2>3 DEF TakeFixture, a
    <3> DEFINE w == <<Flag, Value>>
               Values == Seqs!ToSet(extra) \cup {Joined[b].value : b \in DOMAIN Joined}
    <3>2. Flag \in Valued /\ Value \in Values
      <4>1. CASE a \in DOMAIN Joined
        BY <1>3, <1>4, <2>1, <2>3, <4>1 DEF IsOption, IsJoined, a
      <4>2. CASE a \notin DOMAIN Joined
        BY <1>2, <1>3, <2>1, <2>3, <3>1, <4>2 DEF IsOption, IsJoined, a
      <4> QED
        BY <4>1, <4>2
    <3>3. Flag \in Word /\ Value \in Word /\ Flag \in Takers
      BY <3>2 DEF Word, Takers
    <3> HIDE DEF Values
    <3>4. w \in Seq(Word) /\ Complete(w)
      BY <3>3, PairIsComplete
    <3>5. CASE a \in DOMAIN Joined
      <4> DEFINE x == <<a>>
      <4>1. Joined[a].flag \in Valued /\ Joined[a].value \in Values /\ Joined[a].value # ""
        BY <1>3, <3>1, <3>2, <3>5
      <4>2. x[1] = a /\ Len(x) = 1
        OBVIOUS
      <4>3. x \in OptionGroups(Valued, Values)
        BY <3>5, <4>1, JoinedIsGroup
      <4> HIDE DEF x
      <4>4. x \in FixtureGroups
        BY <4>1, <4>2, <4>3 DEF FixtureGroups, Values
      <4>5. x \in Legal /\ Begins(x) /\ index' = index + Len(x)
        <5>1. index' = index + 1
          BY <1>3, <3>1, <3>5
        <5> QED
          BY <2>1, <4>2, <4>4, <5>1 DEF Begins, Legal, a
      <4>6. x \notin RouteGroups
        BY <1>4, <3>5, <4>1, <4>2, <4>5, GroupShape
      <4> QED
        BY <3>1, <3>4, <4>5, <4>6
    <3>6. CASE a \notin DOMAIN Joined
      <4> DEFINE x == <<a, v>>
      <4>1. a \in Valued /\ v \in Values /\ index < Len(extra)
        BY <1>3, <3>1, <3>2, <3>6
      <4>2. x[1] = a /\ Len(x) = 2 /\ x[2] = v
        OBVIOUS
      <4>3. x \in OptionGroups(Valued, Values)
        BY <4>1 DEF OptionGroups
      <4> HIDE DEF x
      <4>4. x \in FixtureGroups
        <5>1. Len(x) # 1
          BY <4>2
        <5> QED
          BY <4>3, <5>1, Zenon DEF FixtureGroups, Values
      <4>5. x \in Legal /\ Begins(x) /\ index' = index + Len(x)
        BY <1>3, <2>1, <3>1, <3>6, <4>1, <4>2, <4>4 DEF Begins, Legal, a, v
      <4>6. x \notin RouteGroups
        BY <1>4, <3>6, <4>1, <4>2, <4>5, GroupShape
      <4> QED
        BY <3>1, <3>4, <4>5, <4>6
    <3> QED
      BY <3>5, <3>6
  <2> QED
    BY <2>2, <2>3
<1> QED
  BY <1>6, <1>7

\* What is refused is where no group begins, or a second default page.
LEMMA ParserRefuses ==
    ASSUME LineInv, ParseArgument, step' # "parse"
    PROVE  /\ step' = "refused" /\ index' = index /\ route' = route /\ forwarded' = forwarded
           /\ \A x \in Legal : Begins(x) => x \in RouteGroups /\ route # NoRoute
<1> DEFINE a == Argument
           v == extra[index + 1]
<1>1. step = "parse" /\ RefuseLine
  BY DEF ParseArgument, TakeRoute, TakeFixture
<1>2. /\ HasValue <=> a \in DOMAIN Joined \/ index < Len(extra)
      /\ Value = IF a \in DOMAIN Joined THEN Joined[a].value ELSE v
  BY DEF HasValue, IsJoined, Value
<1>3. /\ RouteFlag \notin DOMAIN Joined
      /\ \A f \in Valued : f \notin DOMAIN Joined /\ f \notin Switches /\ f # RouteFlag
      /\ \A f \in Switches : f \notin DOMAIN Joined /\ f # RouteFlag
  BY FlagsAssumption
<1> HIDE DEF a, v
<1>4. ASSUME NEW x \in RouteGroups, Begins(x) PROVE route # NoRoute
  <2> SUFFICES ASSUME route = NoRoute PROVE FALSE
    OBVIOUS
  <2>1. IsOption({RouteFlag}) /\ HasValue /\ Value \in DOMAIN Routes
    <3>1. CASE \E r \in DOMAIN Routes : x = <<RouteFlag, r>>
      <4>1. PICK r \in DOMAIN Routes : x = <<RouteFlag, r>>
        BY <3>1
      <4>2. x[1] = RouteFlag /\ x[2] = r /\ Len(x) = 2
        BY <4>1
      <4>3. a = RouteFlag /\ v = r /\ index < Len(extra)
        BY <1>4, <4>2 DEF Begins, a, v
      <4> QED
        BY <1>2, <1>3, <4>3 DEF IsOption, a
    <3>2. CASE \E b \in DOMAIN Joined :
                  x = <<b>> /\ Joined[b].flag = RouteFlag /\ Joined[b].value \in DOMAIN Routes
      <4>1. PICK b \in DOMAIN Joined :
                  x = <<b>> /\ Joined[b].flag = RouteFlag /\ Joined[b].value \in DOMAIN Routes
        BY <3>2
      <4>2. x[1] = b
        BY <4>1
      <4>3. a = b
        BY <1>4, <4>2 DEF Begins, a
      <4> QED
        BY <1>2, <4>1, <4>3 DEF IsOption, IsJoined, a
    <3> QED
      BY <3>1, <3>2 DEF RouteGroups, OptionGroups
  <2>2. step' = step
    BY <2>1 DEF ParseArgument, TakeRoute
  <2> QED
    BY <1>1, <2>2
<1>5. ASSUME NEW x \in FixtureGroups, standIn, x \notin RouteGroups PROVE ~ Begins(x)
  <2> SUFFICES ASSUME Begins(x) PROVE FALSE
    OBVIOUS
  <2> DEFINE Values == Seqs!ToSet(extra) \cup {Joined[b].value : b \in DOMAIN Joined}
  <2>1. a = x[1]
    BY DEF Begins, a
  <2>2. ~ IsOption({RouteFlag})
    <3>1. x \in Legal
      BY <1>5 DEF Legal
    <3>2. a # RouteFlag /\ ~ (a \in DOMAIN Joined /\ Joined[a].flag = RouteFlag)
      BY <1>5, <2>1, <3>1, GroupShape
    <3> QED
      BY <3>2 DEF IsOption, IsJoined, a
  <2>3. /\ IsOption(Valued) \/ a \in Switches
        /\ a \notin Switches => HasValue /\ (a \in DOMAIN Joined => Value # "")
    <3>1. CASE \E f \in Valued, r \in Values : x = <<f, r>>
      <4>1. PICK f \in Valued, r \in Values : x = <<f, r>>
        BY <3>1
      <4>2. x[1] = f /\ x[2] = r /\ Len(x) = 2
        BY <4>1
      <4>3. a = f /\ index < Len(extra)
        BY <4>2 DEF Begins, a
      <4> QED
        BY <1>2, <1>3, <4>3 DEF IsOption, a
    <3>2. CASE \E b \in DOMAIN Joined :
                  x = <<b>> /\ Joined[b].flag \in Valued /\ Joined[b].value # ""
      <4>1. PICK b \in DOMAIN Joined :
                  x = <<b>> /\ Joined[b].flag \in Valued /\ Joined[b].value # ""
        BY <3>2
      <4>2. a = b
        BY <2>1, <4>1
      <4> QED
        BY <1>2, <4>1, <4>2 DEF IsOption, IsJoined, a
    <3>3. CASE \E f \in Switches : x = <<f>>
      <4>1. PICK f \in Switches : x = <<f>>
        BY <3>3
      <4>2. a \in Switches
        BY <2>1, <4>1
      <4> QED
        BY <4>2
    <3>4. \/ x \in OptionGroups(Valued, Values) /\ (Len(x) = 1 => Joined[x[1]].value # "")
          \/ \E f \in Switches : x = <<f>>
      BY <1>5 DEF FixtureGroups
    <3>5. x \in OptionGroups(Valued, Values) /\ (Len(x) = 1 => Joined[x[1]].value # "") =>
             \/ \E f \in Valued, r \in Values : x = <<f, r>>
             \/ \E b \in DOMAIN Joined :
                   x = <<b>> /\ Joined[b].flag \in Valued /\ Joined[b].value # ""
      <4> HIDE DEF Values
      <4> SUFFICES ASSUME x \in OptionGroups(Valued, Values), Len(x) = 1 => Joined[x[1]].value # "",
                          ~ \E f \in Valued, r \in Values : x = <<f, r>>
                   PROVE  \E b \in DOMAIN Joined :
                             x = <<b>> /\ Joined[b].flag \in Valued /\ Joined[b].value # ""
        OBVIOUS
      <4>0. \/ \E f \in Valued, r \in Values : x = <<f, r>>
            \/ \E b \in DOMAIN Joined :
                  x = <<b>> /\ Joined[b].flag \in Valued /\ Joined[b].value \in Values
        BY GroupIs
      <4>1. PICK b \in DOMAIN Joined : x = <<b>> /\ Joined[b].flag \in Valued
        BY <4>0
      <4>2. x[1] = b /\ Len(x) = 1
        BY <4>1
      <4> QED
        BY <4>1, <4>2
    <3> QED
      BY <3>1, <3>2, <3>3, <3>4, <3>5
  <2>4. step' = step
    BY <1>5, <2>2, <2>3 DEF ParseArgument, TakeFixture, a
  <2> QED
    BY <1>1, <2>4
<1> QED
  BY <1>1, <1>4, <1>5 DEF RefuseLine, Legal
\* In a line made of groups one of them begins at the index.
LEMMA GroupAtIndex ==
    ASSUME LineInv, step = "parse", index <= Len(extra),
           NEW g \in Seq(Legal), AtMostOneRoute(g), Flat(g) = extra
    PROVE  \E k \in Nat :
              /\ k + 1 \in 1 .. Len(g) /\ g[k + 1] \in Legal /\ Begins(g[k + 1])
              /\ Len(Flat(SubSeq(g, 1, k + 1))) = (index - 1) + Len(g[k + 1])
              /\ route # NoRoute => \E i \in 1 .. k : g[i] \in RouteGroups
<1>1. /\ index \in Nat \ {0} /\ extra \in Seq(Word) /\ Len(extra) \in Nat
  BY DEF LineInv
<1>2. PICK k \in 0 .. Len(g) :
         /\ Len(Flat(SubSeq(g, 1, k))) = index - 1
         /\ route # NoRoute => \E i \in 1 .. k : g[i] \in RouteGroups
  BY DEF LineInv, Reached
<1>3. Len(g) \in Nat /\ \A i \in 1 .. Len(g) : g[i] \in Legal
  OBVIOUS
<1>4. g \in Seq(Seq(Word))
  <2>1. \A i \in 1 .. Len(g) : g[i] \in Seq(Word)
    BY <1>3, GroupShape
  <2> QED
    BY <2>1
<1>5. k \in Nat /\ k < Len(g)
  <2>1. k # Len(g)
    <3> SUFFICES ASSUME k = Len(g) PROVE FALSE
      OBVIOUS
    <3>1. SubSeq(g, 1, k) = g
      BY SubSeqFull
    <3>2. Len(extra) = index - 1
      BY <1>2, <3>1
    <3> QED
      BY <1>1, <3>2
  <2> QED
    BY <1>3, <2>1
<1> DEFINE x == g[k + 1]
           u == Flat(SubSeq(g, 1, k))
           w == Flat(SubSeq(g, 1, k + 1))
<1>6. k + 1 \in 1 .. Len(g) /\ x \in Legal /\ x \in Seq(Word)
  <2>1. k + 1 \in 1 .. Len(g)
    BY <1>3, <1>5
  <2> QED
    BY <1>3, <2>1, GroupShape
<1>7. /\ u \in Seq(Word) /\ w = u \o x
      /\ \A j \in 1 .. Len(x) : Len(u) + j <= Len(extra) /\ extra[Len(u) + j] = x[j]
  BY <1>4, <1>5, FlatCut
<1>8. Len(u) = index - 1
  BY <1>2
<1> HIDE DEF x, u, w
<1>9. Len(w) = Len(u) + Len(x) /\ Len(x) \in Nat
  BY <1>6, <1>7, ConcatProperties
<1>10. Len(x) \in {1, 2}
  BY <1>6, GroupShape
<1>11. Begins(x)
  <2>1. \A j \in 1 .. Len(x) : (index - 1) + j <= Len(extra) /\ extra[(index - 1) + j] = x[j]
    BY <1>7, <1>8
  <2>2. x[1] = extra[index]
    <3>1. (index - 1) + 1 = index
      BY <1>1
    <3>2. 1 \in 1 .. Len(x)
      <4>1. \A n \in {1, 2} : 1 \in 1 .. n
        OBVIOUS
      <4> QED
        BY <1>10, <4>1
    <3> QED
      BY <2>1, <3>1, <3>2
  <2>3. ASSUME Len(x) = 2 PROVE index < Len(extra) /\ x[2] = extra[index + 1]
    <3>1. 2 \in 1 .. Len(x) /\ (index - 1) + 2 = index + 1
      BY <1>1, <2>3
    <3>2. index + 1 <= Len(extra) /\ extra[index + 1] = x[2]
      BY <2>1, <3>1
    <3> QED
      BY <1>1, <3>2
  <2> QED
    BY <2>2, <2>3 DEF Begins, Argument
<1> QED
  BY <1>2, <1>5, <1>6, <1>8, <1>9, <1>11 DEF x, w

LEMMA ParseKeeps == LineInv /\ ParseArgument => LineInv'
<1> SUFFICES ASSUME LineInv, ParseArgument PROVE LineInv'
  OBVIOUS
<1>1. /\ step = "parse" /\ index <= Len(extra)
      /\ extra' = extra /\ standIn' = standIn /\ browser' = browser
  BY DEF ParseArgument, askedFor
<1>2. /\ index \in Nat \ {0} /\ extra \in Seq(Word) /\ Len(extra) \in Nat
      /\ forwarded \in Seq(Word) /\ Complete(forwarded)
      /\ route \in {NoRoute} \cup {Routes[v] : v \in DOMAIN Routes}
  BY DEF LineInv
<1>3. Word' = Word /\ Legal' = Legal /\ (Acceptable' <=> Acceptable)
  BY <1>1 DEF Word, Legal, FixtureGroups, Acceptable
<1>4. CASE step' = "parse"
  <2>1. PICK x \in Legal :
           /\ Begins(x) /\ index' = index + Len(x)
           /\ \/ /\ x \in RouteGroups /\ route = NoRoute /\ forwarded' = forwarded
                 /\ route' \in {Routes[v] : v \in DOMAIN Routes}
              \/ /\ x \notin RouteGroups /\ route' = route
                 /\ \E w \in Seq(Word) : Complete(w) /\ forwarded' = forwarded \o w
    BY <1>4, ParserTakes
  <2>2. /\ x \in Seq(Word) /\ Len(x) \in {1, 2}
        /\ Len(x) = IF x[1] \in DOMAIN Joined \cup Switches THEN 1 ELSE 2
    BY GroupShape
  <2>3. index' \in Nat \ {0} /\ index' <= Len(extra) + 1
    <3>1. Len(x) = 2 => index < Len(extra)
      BY <2>1 DEF Begins
    <3> QED
      BY <1>1, <1>2, <2>1, <2>2, <3>1
  <2>4. forwarded' \in Seq(Word) /\ Complete(forwarded')
    <3>1. CASE forwarded' = forwarded
      BY <1>2, <3>1
    <3>2. CASE \E w \in Seq(Word) : Complete(w) /\ forwarded' = forwarded \o w
      <4>1. PICK w \in Seq(Word) : Complete(w) /\ forwarded' = forwarded \o w
        BY <3>2
      <4>2. forwarded \o w \in Seq(Word) /\ Complete(forwarded \o w)
        BY <1>2, <4>1, ConcatProperties, JoinIsComplete
      <4> QED
        BY <4>1, <4>2
    <3> QED
      BY <2>1, <3>1, <3>2
  <2>5. \E g \in Seq(Legal) : Grouped(g)'
    <3>1. PICK g \in Seq(Legal) : Grouped(g)
      BY <1>1 DEF LineInv
    <3> DEFINE more == Append(g, x)
               size == Len(g)
    <3>2. /\ more \in Seq(Legal) /\ size \in Nat /\ Len(more) = size + 1
          /\ \A i \in 1 .. size : more[i] = g[i]
          /\ more[size + 1] = x
      OBVIOUS
    <3>3. g \in Seq(Seq(Word))
      <4>1. \A i \in 1 .. size : g[i] \in Seq(Word)
        BY GroupShape
      <4> QED
        BY <4>1
    <3>4. Flat(more) = Flat(g) \o x
      BY <2>2, <3>3, FlatAppend
    <3> HIDE DEF more
    <3>5. SubSeq(extra, 1, index' - 1) = SubSeq(extra, 1, index - 1) \o x
      <4>1. extra[index] = x[1] /\ (Len(x) = 2 => extra[index + 1] = x[2])
        BY <2>1 DEF Begins, Argument
      <4>2. SubSeq(extra, 1, index) = Append(SubSeq(extra, 1, index - 1), extra[index])
        BY <1>1, <1>2
      <4>3. SubSeq(extra, 1, index - 1) \in Seq(Word) /\ extra[index] \in Word
        <5>1. \A i \in 1 .. Len(extra) : extra[i] \in Word
          BY <1>2
        <5>2. \A i \in 1 .. index - 1 : extra[i] \in Word
          BY <1>1, <1>2, <5>1
        <5>3. index \in 1 .. Len(extra)
          BY <1>1, <1>2
        <5> QED
          BY <1>2, <5>1, <5>2, <5>3, SubSeqProperties
      <4> DEFINE s == SubSeq(extra, 1, index - 1)
      <4>4. CASE Len(x) = 1
        <5>1. x = <<extra[index]>>
          BY <2>2, <4>1, <4>4
        <5>2. index' - 1 = index
          BY <1>2, <2>1, <4>4
        <5>3. Append(s, extra[index]) = s \o <<extra[index]>>
          BY <4>3, AppendIsConcat
        <5> QED
          BY <4>2, <5>1, <5>2, <5>3
      <4>5. CASE Len(x) = 2
        <5>1. x = <<extra[index], extra[index + 1]>>
          BY <2>2, <4>1, <4>5
        <5>2. index' - 1 = index + 1 /\ index + 1 <= Len(extra)
          <6>1. index < Len(extra)
            BY <2>1, <4>5 DEF Begins
          <6> QED
            BY <1>2, <2>1, <4>5, <6>1
        <5>3. SubSeq(extra, 1, index + 1) = Append(SubSeq(extra, 1, index), extra[index + 1])
          BY <1>2, <5>2
        <5>4. Append(Append(s, extra[index]), extra[index + 1])
                = s \o <<extra[index], extra[index + 1]>>
          <6>1. extra[index + 1] \in Word
            BY <1>2, <5>2
          <6> HIDE DEF s
          <6> QED
            BY <4>3, <6>1 DEF s
        <5> QED
          BY <4>2, <5>1, <5>2, <5>3, <5>4
      <4> QED
        BY <2>2, <4>4, <4>5
    <3>6. Flat(more) = SubSeq(extra, 1, index' - 1) /\ Len(more) < index'
      <4>1. Flat(g) = SubSeq(extra, 1, index - 1) /\ size < index
        BY <3>1 DEF Grouped
      <4>2. Len(more) < index'
        BY <1>2, <2>1, <2>2, <3>2, <4>1
      <4> QED
        BY <3>4, <3>5, <4>1, <4>2
    <3>7. /\ AtMostOneRoute(g)
          /\ route = NoRoute => \A i \in 1 .. size : g[i] \notin RouteGroups
      BY <3>1 DEF Grouped
    <3>8. AtMostOneRoute(more)
      <4> SUFFICES ASSUME NEW i \in 1 .. size + 1, NEW j \in 1 .. size + 1,
                          more[i] \in RouteGroups, more[j] \in RouteGroups
                   PROVE  i = j
        BY <3>2 DEF AtMostOneRoute
      <4>1. CASE i = size + 1 \/ j = size + 1
        BY <2>1, <3>2, <3>7, <4>1
      <4>2. CASE i # size + 1 /\ j # size + 1
        <5>1. i \in 1 .. size /\ j \in 1 .. size /\ g[i] \in RouteGroups /\ g[j] \in RouteGroups
          BY <3>2, <4>2
        <5> QED
          BY <3>7, <5>1 DEF AtMostOneRoute
      <4> QED
        BY <4>1, <4>2
    <3>9. route' = NoRoute => \A i \in DOMAIN more : more[i] \notin RouteGroups
      <4> SUFFICES ASSUME route' = NoRoute, NEW i \in 1 .. size + 1
                   PROVE  more[i] \notin RouteGroups
        BY <3>2
      <4>1. \A v \in DOMAIN Routes : Routes[v] # NoRoute
        BY FlagsAssumption
      <4>2. x \notin RouteGroups /\ route = NoRoute
        BY <2>1, <4>1
      <4> QED
        BY <3>2, <3>7, <4>2
    <3>10. Grouped(more)'
      BY <1>1, <3>6, <3>8, <3>9 DEF Grouped
    <3> QED
      BY <3>2, <3>10
  <2>6. ASSUME NEW g \in Seq(Legal), AtMostOneRoute(g), Flat(g) = extra
        PROVE  Reached(g)'
    <3>1. PICK k \in Nat :
             /\ k + 1 \in 1 .. Len(g) /\ g[k + 1] \in Legal /\ Begins(g[k + 1])
             /\ Len(Flat(SubSeq(g, 1, k + 1))) = (index - 1) + Len(g[k + 1])
             /\ route # NoRoute => \E i \in 1 .. k : g[i] \in RouteGroups
      BY <1>1, <2>6, GroupAtIndex
    <3> DEFINE y == g[k + 1]
    <3>2. y[1] = x[1]
      BY <2>1, <3>1 DEF Begins
    <3>3. Len(y) = Len(x) /\ (y \in RouteGroups <=> x \in RouteGroups)
      BY <3>1, <3>2, GroupShape
    <3>4. Len(Flat(SubSeq(g, 1, k + 1))) = index' - 1
      BY <1>2, <2>1, <2>2, <3>1, <3>3
    <3>5. route' # NoRoute => \E i \in 1 .. k + 1 : g[i] \in RouteGroups
      <4>1. CASE x \in RouteGroups
        BY <3>1, <3>3, <4>1
      <4>2. CASE x \notin RouteGroups
        BY <2>1, <3>1, <4>2
      <4> QED
        BY <4>1, <4>2
    <3> QED
      BY <3>1, <3>4, <3>5 DEF Reached
  <2>7. route' \in {NoRoute} \cup {Routes[v] : v \in DOMAIN Routes}
    BY <1>2, <2>1
  <2> QED
    BY <1>1, <1>2, <1>3, <1>4, <2>3, <2>4, <2>5, <2>6, <2>7 DEF LineInv
<1>5. CASE step' # "parse"
  <2>1. /\ step' = "refused" /\ index' = index /\ route' = route /\ forwarded' = forwarded
        /\ \A x \in Legal : Begins(x) => x \in RouteGroups /\ route # NoRoute
    BY <1>5, ParserRefuses
  <2>2. ~ Acceptable
    <3> SUFFICES ASSUME Acceptable PROVE FALSE
      OBVIOUS
    <3>0. PICK n \in Nat : \E g \in [1 .. n -> Legal] : extra = Flat(g) /\ AtMostOneRoute(g)
      <4>1. Len(extra) \in Nat
        BY <1>2
      <4> QED
        BY <4>1 DEF Acceptable, Legal, Flat, AtMostOneRoute
    <3>1. PICK g \in [1 .. n -> Legal] : extra = Flat(g) /\ AtMostOneRoute(g)
      BY <3>0
    <3>2. g \in Seq(Legal)
      OBVIOUS
    <3>3. PICK k \in Nat :
             /\ k + 1 \in 1 .. Len(g) /\ g[k + 1] \in Legal /\ Begins(g[k + 1])
             /\ route # NoRoute => \E i \in 1 .. k : g[i] \in RouteGroups
      BY <1>1, <3>1, <3>2, GroupAtIndex
    <3>4. g[k + 1] \in RouteGroups /\ route # NoRoute
      BY <2>1, <3>3
    <3>5. PICK i \in 1 .. k : g[i] \in RouteGroups
      BY <3>3, <3>4
    <3>6. i \in DOMAIN g /\ k + 1 \in DOMAIN g /\ i # k + 1
      BY <3>2, <3>3
    <3> QED
      BY <3>1, <3>4, <3>5, <3>6 DEF AtMostOneRoute
  <2> QED
    BY <1>1, <1>2, <1>3, <2>1, <2>2 DEF LineInv
<1> QED
  BY <1>4, <1>5
LEMMA OwnWordsAreFree == OwnWords \cap Takers = {} /\ OwnWords \subseteq Word
<1>1. OwnWords \cap Options = {}
  BY DEF OwnWords, Options
<1> QED
  BY <1>1, FlagsAssumption DEF Takers, Word

LEMMA LauncherIs == Launcher \in Seq(OwnWords)
<1> DEFINE here == {i \in DOMAIN Managers : Managers[i].file \in workdir}
<1>1. /\ "pixi" \in OwnWords /\ "uv" \in OwnWords /\ "conda" \in OwnWords /\ "run" \in OwnWords
      /\ "--executable" \in OwnWords /\ "--file" \in OwnWords
      /\ "environment.yml" \in OwnWords /\ ".venv/bin/jupyter" \in OwnWords
      /\ "jupyter" \in OwnWords
  BY DEF OwnWords
<1>2. /\ DOMAIN Managers = 1 .. 4
      /\ Managers[1].run = <<"pixi", "run", "--executable", "jupyter">>
      /\ Managers[2].run = <<"uv", "run", "jupyter">>
      /\ Managers[3].run = <<"conda", "run", "--file", "environment.yml", "jupyter">>
      /\ Managers[4].run = <<".venv/bin/jupyter">>
  <2>1. DOMAIN Managers = 1 .. 4
    BY DEF Managers
  <2>2. Managers[1].run = <<"pixi", "run", "--executable", "jupyter">>
    BY DEF Managers
  <2>3. Managers[2].run = <<"uv", "run", "jupyter">>
    BY DEF Managers
  <2>4. Managers[3].run = <<"conda", "run", "--file", "environment.yml", "jupyter">>
    BY DEF Managers
  <2>5. Managers[4].run = <<".venv/bin/jupyter">>
    BY DEF Managers
  <2> QED
    BY <2>1, <2>2, <2>3, <2>4, <2>5
<1>3. \A i \in 1 .. 4 : Managers[i].run \in Seq(OwnWords)
  <2>1. /\ <<"pixi", "run", "--executable", "jupyter">> \in Seq(OwnWords)
        /\ <<"uv", "run", "jupyter">> \in Seq(OwnWords)
        /\ <<"conda", "run", "--file", "environment.yml", "jupyter">> \in Seq(OwnWords)
        /\ <<".venv/bin/jupyter">> \in Seq(OwnWords)
    BY <1>1
  <2>2. ASSUME NEW i \in 1 .. 4 PROVE Managers[i].run \in Seq(OwnWords)
    <3>1. i = 1 \/ i = 2 \/ i = 3 \/ i = 4
      OBVIOUS
    <3> QED
      BY <1>2, <2>1, <3>1
  <2> QED
    BY <2>2
<1>4. CASE here = {}
  <2>1. Launcher = <<"jupyter">>
    BY <1>4 DEF Launcher
  <2> QED
    BY <1>1, <2>1
<1>5. CASE here # {}
  <2> DEFINE first == CHOOSE i \in here : \A j \in here : i <= j
  <2>1. \E i \in here : \A j \in here : i <= j
    <3>1. here \subseteq 1 .. 4
      BY <1>2
    <3> HIDE DEF here
    <3>2. CASE 1 \in here
      BY <3>1, <3>2
    <3>3. CASE 1 \notin here /\ 2 \in here
      BY <3>1, <3>3
    <3>4. CASE 1 \notin here /\ 2 \notin here /\ 3 \in here
      BY <3>1, <3>4
    <3>5. CASE 1 \notin here /\ 2 \notin here /\ 3 \notin here
      <4>1. \A j \in here : j = 4
        BY <3>1, <3>5
      <4> QED
        BY <1>5, <4>1
    <3> QED
      BY <3>2, <3>3, <3>4, <3>5
  <2>2. first \in here
    BY <2>1
  <2>3. Launcher = Managers[first].run
    BY <1>5 DEF Launcher
  <2>4. first \in 1 .. 4
    BY <1>2, <2>2
  <2> HIDE DEF first
  <2> QED
    BY <1>3, <2>3, <2>4
<1> QED
  BY <1>4, <1>5

LEMMA FirstLineIsSound == LineInit => LineInv
<1> SUFFICES ASSUME LineInit PROVE LineInv
  OBVIOUS
<1>1. extra \in Seq(Word)
  <2>1. extra \in Seq(Seqs!ToSet(extra))
    BY FlagsAssumption DEF LineInit
  <2>2. \A i \in 1 .. Len(extra) : extra[i] \in Seqs!ToSet(extra)
    BY <2>1
  <2>3. Seqs!ToSet(extra) \subseteq Word
    BY DEF Word
  <2> QED
    BY <2>1, <2>2, <2>3
<1>2. index = 1 /\ route = NoRoute /\ forwarded = <<>> /\ step = "parse"
  BY DEF LineInit
<1>3. Complete(<<>>)
  <2>1. <<>> \in Seq(Word) /\ \A i \in 1 .. Len(<<>>) : <<>>[i] \notin Takers
    OBVIOUS
  <2> QED
    BY <2>1, PlainIsComplete
<1>4. Len(extra) \in Nat
  BY <1>1
<1>5. <<>> \in Seq(Legal) /\ Grouped(<<>>)
  <2>1. SubSeq(extra, 1, index - 1) = <<>>
    BY <1>1, <1>2
  <2>2. Flat(<<>>) = SubSeq(extra, 1, index - 1)
    BY <2>1, FlatEmpty, Zenon
  <2>3. DOMAIN <<>> = {} /\ Len(<<>>) = 0 /\ <<>> \in Seq(Legal)
    OBVIOUS
  <2> QED
    BY <1>2, <2>2, <2>3 DEF Grouped, AtMostOneRoute
<1>6. ASSUME NEW g \in Seq(Legal) PROVE Reached(g)
  <2>1. SubSeq(g, 1, 0) = <<>> /\ 0 \in 0 .. Len(g)
    OBVIOUS
  <2>2. Len(Flat(SubSeq(g, 1, 0))) = 0
    <3>1. Flat(SubSeq(g, 1, 0)) = <<>>
      BY <2>1, FlatEmpty, Zenon
    <3> QED
      BY <3>1
  <2> QED
    BY <1>2, <2>1, <2>2 DEF Reached
<1>7. /\ index \in Nat \ {0} /\ index <= Len(extra) + 1
      /\ forwarded \in Seq(Word) /\ Complete(forwarded)
  BY <1>2, <1>3, <1>4
<1>8. \E g \in Seq(Legal) : Grouped(g)
  BY <1>5
<1> QED
  BY <1>1, <1>2, <1>6, <1>7, <1>8 DEF LineInv

LEMMA ParsedKeeps == LineInv /\ Parsed => LineInv'
<1> SUFFICES ASSUME LineInv, Parsed PROVE LineInv'
  OBVIOUS
<1>1. /\ step = "parse" /\ step' = "launch" /\ index > Len(extra)
      /\ extra' = extra /\ standIn' = standIn
      /\ index' = index /\ route' = route /\ forwarded' = forwarded
  BY DEF Parsed, askedFor
<1>2. Word' = Word /\ Legal' = Legal
  BY <1>1 DEF Word, Legal, FixtureGroups
<1>3. index = Len(extra) + 1
  <2>1. Len(extra) \in Nat /\ index \in Nat /\ index <= Len(extra) + 1
    BY DEF LineInv
  <2> QED
    BY <1>1, <2>1
<1>4. \E g \in Seq(Legal) : Grouped(g)'
  BY <1>1 DEF LineInv, Grouped
<1> QED
  BY <1>1, <1>2, <1>3, <1>4 DEF LineInv

LEMMA LaunchKeeps == LineInv /\ Launch => LineInv'
<1> SUFFICES ASSUME LineInv, Launch PROVE LineInv'
  OBVIOUS
<1>1. /\ step = "launch" /\ step' = "spawned" /\ line' = Line /\ env' = Environment
      /\ extra' = extra /\ standIn' = standIn /\ browser' = browser
      /\ workdir' = workdir /\ caller' = caller
      /\ index' = index /\ route' = route /\ forwarded' = forwarded
  BY DEF Launch, askedFor
<1>2. Word' = Word /\ Legal' = Legal
  BY <1>1 DEF Word, Legal, FixtureGroups
<1>3. \E g \in Seq(Legal) : Grouped(g)'
  BY <1>1 DEF LineInv, Grouped
<1>4. Line' = Line /\ Environment' = Environment
  <2>1. Asked' = Asked /\ Environment' = Environment /\ Launcher' = Launcher
    BY <1>1 DEF Launcher, Asked, Environment
  <2>2. Controlled' = Controlled
    BY <2>1 DEF Controlled
  <2> QED
    BY <1>1, <2>1, <2>2 DEF Line
<1> QED
  BY <1>1, <1>2, <1>3, <1>4 DEF LineInv

LEMMA LineStaysSound == LineInv /\ [LineNext]_lineVars => LineInv'
<1> SUFFICES ASSUME LineInv, [LineNext]_lineVars PROVE LineInv'
  OBVIOUS
<1>1. CASE UNCHANGED lineVars
  <2>1. /\ step' = step /\ line' = line /\ env' = env
        /\ extra' = extra /\ standIn' = standIn /\ browser' = browser
        /\ workdir' = workdir /\ caller' = caller
        /\ index' = index /\ route' = route /\ forwarded' = forwarded
    BY <1>1 DEF lineVars
  <2>2. Word' = Word /\ Legal' = Legal /\ (Acceptable' <=> Acceptable)
    BY <2>1 DEF Word, Legal, FixtureGroups, Acceptable
  <2>3. \A g : (Grouped(g)' <=> Grouped(g)) /\ (Reached(g)' <=> Reached(g))
    BY <2>1 DEF Grouped, Reached
  <2>4. Line' = Line /\ Environment' = Environment
    BY <2>1 DEF Line, Launcher, Controlled, Asked, Environment
  <2> QED
    BY <2>1, <2>2, <2>3, <2>4 DEF LineInv
<1>2. CASE LineNext
  BY <1>2, ParseKeeps, ParsedKeeps, LaunchKeeps DEF LineNext
<1> QED
  BY <1>1, <1>2

LEMMA TwelveWords ==
    ASSUME NEW X, NEW a \in X, NEW b \in X, NEW c \in X, NEW d \in X, NEW e \in X, NEW f \in X,
           NEW g \in X, NEW h \in X, NEW i \in X, NEW j \in X, NEW k \in X, NEW l \in X
    PROVE  <<a, b, c, d, e, f, g, h, i, j, k, l>> \in Seq(X)
OBVIOUS

LEMMA SoundIsControlled == LineInv => ChildIsControlled
<1> SUFFICES ASSUME LineInv, step = "spawned"
             PROVE  /\ Acceptable
                    /\ Understood("--config") = "own config"
                    /\ Understood("--port") = "own port"
                    /\ Understood("--ip") = "own ip"
                    /\ Understood("--ServerApp.default_url") = Asked
                    /\ \A name \in DOMAIN env : name \in OwnFiles <=> env[name] = "own"
  BY DEF LineInv, ChildIsControlled
<1>1. /\ index = Len(extra) + 1 /\ Len(extra) \in Nat /\ extra \in Seq(Word)
      /\ line = Line /\ env = Environment
      /\ forwarded \in Seq(Word) /\ Complete(forwarded)
      /\ route \in {NoRoute} \cup {Routes[v] : v \in DOMAIN Routes}
  BY DEF LineInv
<1>2. Acceptable
  <2>1. PICK g \in Seq(Legal) : Grouped(g)
    BY DEF LineInv
  <2>2. SubSeq(extra, 1, index - 1) = extra
    <3>1. index - 1 = Len(extra)
      BY <1>1
    <3> QED
      BY <1>1, <3>1, SubSeqFull
  <2>3. Len(g) \in 0 .. Len(extra) /\ g \in [1 .. Len(g) -> Legal]
    BY <1>1, <2>1 DEF Grouped
  <2>4. Flat(g) = extra /\ AtMostOneRoute(g)
    BY <2>1, <2>2 DEF Grouped
  <2> QED
    BY <2>3, <2>4 DEF Acceptable, Legal, Flat, AtMostOneRoute
<1>3. Asked \notin Takers /\ Asked \in Word
  <2>1. "/tree" \in OwnWords
    BY DEF OwnWords
  <2>2. "/tree" \notin Takers /\ "/tree" \in Word
    BY <2>1, OwnWordsAreFree
  <2>3. ASSUME NEW v \in DOMAIN Routes
        PROVE  Routes[v] \notin Takers /\ Routes[v] \in Word
    BY FlagsAssumption DEF Takers, Word
  <2> QED
    BY <1>1, <2>2, <2>3 DEF Asked
<1> DEFINE quiet == IF browser THEN <<>> ELSE <<"--no-browser">>
           p == Launcher \o <<"notebook">>
           q == p \o forwarded
           before == q \o quiet
<1>4. line = before \o Controlled
  BY <1>1 DEF Line
<1>5. ASSUME NEW w \in Seq(OwnWords) PROVE w \in Seq(Word) /\ Complete(w)
  <2>1. \A i \in 1 .. Len(w) : w[i] \in Word /\ w[i] \notin Takers
    BY OwnWordsAreFree
  <2>2. w \in Seq(Word)
    BY <2>1
  <2> QED
    BY <2>1, <2>2, PlainIsComplete
<1>6. before \in Seq(Word) /\ Complete(before)
  <2>1. "notebook" \in OwnWords /\ "--no-browser" \in OwnWords
    BY DEF OwnWords
  <2>2. <<"notebook">> \in Seq(OwnWords) /\ quiet \in Seq(OwnWords)
    BY <2>1
  <2>3. /\ Launcher \in Seq(Word) /\ Complete(Launcher)
        /\ <<"notebook">> \in Seq(Word) /\ Complete(<<"notebook">>)
        /\ quiet \in Seq(Word) /\ Complete(quiet)
    BY <1>5, <2>2, LauncherIs
  <2> HIDE DEF quiet
  <2>4. p \in Seq(Word) /\ Complete(p)
    BY <2>3, ConcatProperties, JoinIsComplete
  <2> HIDE DEF p
  <2>5. q \in Seq(Word) /\ Complete(q)
    BY <1>1, <2>4, ConcatProperties, JoinIsComplete
  <2> HIDE DEF q
  <2> QED
    BY <2>3, <2>5, ConcatProperties, JoinIsComplete
<1>7. Controlled \in Seq(Word)
  <2> DEFINE page == Asked
  <2>1. /\ "--config" \in Word /\ "own config" \in Word /\ "--NotebookApp.default_url" \in Word
        /\ "--ServerApp.default_url" \in Word /\ "--JupyterNotebookApp.default_url" \in Word
        /\ "--port" \in Word /\ "own port" \in Word /\ "--ip" \in Word /\ "own ip" \in Word
        /\ page \in Word
    BY <1>3, OwnWordsAreFree DEF Word, OwnWords, Options
  <2>2. Controlled =
          <<"--config", "own config", "--NotebookApp.default_url", page,
            "--ServerApp.default_url", page, "--JupyterNotebookApp.default_url", page,
            "--port", "own port", "--ip", "own ip">>
    BY DEF Controlled
  <2> HIDE DEF page
  <2> QED
    BY <2>1, <2>2, TwelveWords
<1>8. \A name \in DOMAIN env : name \in OwnFiles <=> env[name] = "own"
  BY <1>1 DEF Environment
<1> HIDE DEF before
<1> QED
  BY <1>2, <1>3, <1>4, <1>6, <1>7, <1>8, OwnOptionsCount

(* "a denylist or 'Gila flags come last' is not a security boundary"       *)
(* (parse_extra_args): for any arguments, flags, default pages, launchers  *)
(* and environments, exactly the lines of the allowlist get a child, and   *)
(* it reads Gila's configuration, address and default page.                *)
THEOREM ChildStaysControlled == LineSpec => []ChildIsControlled
<1>1. LineInit => LineInv
  BY FirstLineIsSound
<1>2. LineInv /\ [LineNext]_lineVars => LineInv'
  BY LineStaysSound
<1>3. LineInv => ChildIsControlled
  BY SoundIsControlled
<1> QED
  BY <1>1, <1>2, <1>3, PTL DEF LineSpec
=============================================================================
