----------------------------- MODULE CoworkProofs -----------------------------
(***************************************************************************)
(* `gila cowork`, for every amount of output, every size, every fault and  *)
(* every order in which the loop, the reader, the shell and the backend    *)
(* take their steps: what the agent is given is the shell's output in its  *)
(* order, and every way out leaves no shell and the terminal as it was, or *)
(* raw if its very setup failed halfway.                                   *)
(*                                                                         *)
(* What is over when depends on where the loop is (Shape): there is a      *)
(* guard from setup on, the shell is dead once it was killed, and the      *)
(* terminal is put back before the guard is done.                          *)
(***************************************************************************)
EXTENDS Cowork, SequenceTheorems, TLAPS

Shape ==
    /\ guard = "none" => pc \in {"setup", "exited"}
    /\ pc = "setup" => guard = "none"
    /\ guard = "done" => tty = "cooked"
    /\ pc = "exited" => guard # "armed"
    /\ pc = "spawn" => shell = "none"
    /\ pc \in {"join", "guard", "exited"} => shell # "running"

WInv == TypeOK /\ Shape /\ ObservedInOrder

(* Lemmas about what was written, as a sequence.                           *)
Burst(m, n) == [i \in 1 .. n |-> m + i]

LEMMA BurstIsSeq ==
    ASSUME NEW m \in Nat, NEW n \in Nat, m + n =< MaxBytes
    PROVE  Burst(m, n) \in Seq(1 .. MaxBytes) /\ Len(Burst(m, n)) = n
<1>1. Burst(m, n) \in [1 .. n -> 1 .. MaxBytes]
  BY PtyAssumption DEF Burst
<1>2. Burst(m, n) \in Seq(1 .. MaxBytes)
  BY <1>1, SeqDef
<1>3. DOMAIN Burst(m, n) = 1 .. Len(Burst(m, n)) /\ Len(Burst(m, n)) \in Nat
  BY <1>2, LenProperties
<1>4. DOMAIN Burst(m, n) = 1 .. n
  BY DEF Burst
<1>5. \A k \in Nat : 1 .. k = 1 .. n => k = n
  <2> SUFFICES ASSUME NEW k \in Nat, 1 .. k = 1 .. n PROVE k = n
    OBVIOUS
  <2>1. k \in 1 .. n \/ k = 0
    OBVIOUS
  <2>2. n \in 1 .. k \/ n = 0
    OBVIOUS
  <2> QED
    BY <2>1, <2>2
<1> QED
  BY <1>2, <1>3, <1>4, <1>5

LEMMA OutputGoesOn ==
    ASSUME NEW m \in Nat, NEW q \in Nat, m =< q, q =< MaxBytes
    PROVE  /\ Burst(m, q - m) \in Seq(1 .. MaxBytes)
           /\ Output(m) \o Burst(m, q - m) = Output(q)
<1> DEFINE s == Burst(0, m)
<1> DEFINE t == Burst(m, q - m)
<1>0. q - m \in Nat /\ m + (q - m) = q
  OBVIOUS
<1>1. /\ Output(m) = s /\ Output(q) = Burst(0, q)
  BY DEF Output, Burst
<1>2. /\ s \in Seq(1 .. MaxBytes) /\ Len(s) = m
      /\ t \in Seq(1 .. MaxBytes) /\ Len(t) = q - m
      /\ Burst(0, q) \in Seq(1 .. MaxBytes) /\ Len(Burst(0, q)) = q
  <2>1. /\ 0 \in Nat /\ 0 + m =< MaxBytes /\ 0 + q =< MaxBytes
        /\ m + (q - m) =< MaxBytes
    BY <1>0, PtyAssumption
  <2> QED
    BY <1>0, <2>1, BurstIsSeq
<1> HIDE DEF s, t
<1>3. /\ s \o t \in Seq(1 .. MaxBytes) /\ Len(s \o t) = q
      /\ \A i \in 1 .. q :
            (s \o t)[i] = IF i =< m THEN s[i] ELSE t[i - m]
  BY <1>0, <1>2, ConcatProperties
<1>4. \A i \in 1 .. q : (s \o t)[i] = Burst(0, q)[i]
  BY <1>3 DEF Burst, s, t
<1>5. s \o t = Burst(0, q)
  BY <1>2, <1>3, <1>4, SeqEqual
<1> QED
  BY <1>1, <1>2, <1>5 DEF t

(* What is read comes after what is pending.                               *)
LEMMA ReadingKeepsOrder ==
    ASSUME WInv, ReaderReads, observed' = observed
    PROVE  ObservedInOrder' /\ pending' \in Seq(1 .. MaxBytes)
<1>n. /\ MaxBytes \in Nat /\ written \in Nat /\ read \in Nat
      /\ written =< MaxBytes /\ read =< written
  BY PtyAssumption DEF WInv, TypeOK, PtyTypeOK
<1>s. /\ pending \in Seq(1 .. MaxBytes) /\ observed \in Seq(1 .. MaxBytes)
      /\ ObservedInOrder
  BY PtyAssumption DEF WInv, TypeOK, PtyTypeOK
<1>1. PICK n \in 0 .. read : observed \o pending = Output(n) /\ (poisoned \/ n = read)
  BY <1>n, <1>s DEF ObservedInOrder
<1>2. /\ read' \in Int /\ read + 1 =< read' /\ read' =< written
      /\ poisoned' = poisoned
  BY DEF ReaderReads
<1>3. CASE poisoned
  <2>1. pending' = pending
    BY <1>s, <1>3, ConcatEmptySeq DEF ReaderReads
  <2> QED
    BY <1>n, <1>s, <1>1, <1>2, <1>3, <2>1 DEF ObservedInOrder, Output
<1>4. CASE ~poisoned
  <2> DEFINE burst == Burst(read, read' - read)
  <2>1. pending' = pending \o burst
    BY <1>4 DEF ReaderReads, Burst
  <2>2. burst \in Seq(1 .. MaxBytes) /\ Output(read) \o burst = Output(read')
    <3>1. read' \in Nat /\ read =< read' /\ read' =< MaxBytes
      BY <1>n, <1>2
    <3> QED
      BY <1>n, <3>1, OutputGoesOn
  <2> HIDE DEF burst
  <2>3. pending' \in Seq(1 .. MaxBytes)
    BY <1>s, <2>1, <2>2, ConcatProperties
  <2>4. observed' \o pending' = Output(read')
    <3>1. observed \o (pending \o burst) = (observed \o pending) \o burst
      BY <1>s, <2>2, ConcatAssociative
    <3> QED
      BY <1>1, <1>4, <2>1, <2>2, <3>1
  <2>5. read' \in 0 .. read'
    BY <1>n, <1>2
  <2> QED
    BY <2>3, <2>4, <2>5 DEF ObservedInOrder, Output
<1> QED
  BY <1>3, <1>4

(* What is taken off is given to the agent whole.                          *)
LEMMA DrainingKeepsOrder ==
    ASSUME WInv, Drain(observed)
    PROVE  /\ ObservedInOrder'
           /\ observed' \in Seq(1 .. MaxBytes) /\ pending' \in Seq(1 .. MaxBytes)
<1> USE DEF WInv, TypeOK, PtyTypeOK
<1>1. CASE poisoned
  BY <1>1 DEF Drain, ObservedInOrder, Output
<1>2. CASE ~poisoned
  <2>1. observed' = observed \o pending /\ pending' = <<>>
        /\ read' = read /\ poisoned' = poisoned
    BY <1>2 DEF Drain
  <2>2. observed' \in Seq(1 .. MaxBytes) /\ pending' \in Seq(1 .. MaxBytes)
    BY <2>1, ConcatProperties
  <2>3. observed' \o pending' = observed'
    BY <2>1, <2>2, ConcatEmptySeq
  <2> QED
    BY <2>1, <2>2, <2>3 DEF ObservedInOrder, Output
<1> QED
  BY <1>1, <1>2

(* A step that touches neither, and loses none but with the lock.          *)
LEMMA OthersKeepOrder ==
    ASSUME WInv, UNCHANGED <<observed, pending>>,
           \/ read' = read /\ (poisoned => poisoned')
           \/ poisoned' /\ read' \in read .. written
    PROVE  ObservedInOrder'
<1>1. read' \in Nat /\ 0 .. read \subseteq 0 .. read'
  BY PtyAssumption DEF WInv, TypeOK, PtyTypeOK
<1> QED
  BY <1>1 DEF WInv, ObservedInOrder, Output

LEMMA FirstIsInOrder == Init => WInv
<1> SUFFICES ASSUME Init PROVE WInv
  OBVIOUS
<1>1. ObservedInOrder
  <2>1. Output(0) = <<>>
    BY DEF Output
  <2> QED
    BY <2>1, EmptySeq DEF Init, PtyInit, ObservedInOrder
<1>2. TypeOK
  <2>1. PtyTypeOK /\ observed \in Seq(1 .. MaxBytes)
    <3>1. PICK size \in Sizes : PtyInit(size)
      BY DEF Init
    <3>2. <<>> \in Seq(1 .. MaxBytes)
      BY EmptySeq
    <3>3. 0 \in 0 .. MaxBytes
      BY PtyAssumption
    <3>4. pending \in Seq(1 .. MaxBytes) /\ observed \in Seq(1 .. MaxBytes)
      BY <3>1, <3>2 DEF Init, PtyInit
    <3>5. written \in 0 .. MaxBytes /\ read \in 0 .. written
      BY <3>1, <3>3 DEF PtyInit
    <3> QED
      BY <3>1, <3>4, <3>5 DEF PtyInit, PtyTypeOK
  <2> QED
    BY <2>1 DEF Init, PtyInit, TypeOK
<1>3. Shape
  BY DEF Init, PtyInit, Shape
<1> QED
  BY <1>1, <1>2, <1>3 DEF WInv

(* The steps of the loop, but for giving the agent what is pending.        *)
LEMMA StartingIsSound ==
    ASSUME WInv, SetUp \/ SetUpFails \/ StartShell \/ StartShellFails
    PROVE  WInv'
<1> USE DEF WInv, TypeOK, PtyTypeOK, Shape
<1>1. CASE SetUp \/ SetUpFails
  <2>1. UNCHANGED <<pty, observed>>
    BY <1>1 DEF SetUp, SetUpFails
  <2>2. ObservedInOrder'
    BY <2>1, OthersKeepOrder DEF pty
  <2>3. TypeOK' /\ Shape'
    BY <1>1, <2>1 DEF SetUp, SetUpFails, chat, pty
  <2> QED
    BY <2>2, <2>3
<1>2. CASE StartShell
  <2>1. ObservedInOrder'
    BY <1>2, OthersKeepOrder DEF StartShell, Spawn
  <2>2. TypeOK' /\ Shape'
    BY <1>2 DEF StartShell, Spawn, chat, Frame
  <2> QED
    BY <2>1, <2>2
<1>3. CASE StartShellFails
  <2>1. ObservedInOrder'
    BY <1>3, OthersKeepOrder DEF StartShellFails, SpawnFails
  <2>2. TypeOK' /\ Shape'
    BY <1>3 DEF StartShellFails, SpawnFails, chat, Leaving
  <2> QED
    BY <2>1, <2>2
<1> QED
  BY <1>1, <1>2, <1>3

LEMMA FramesAreSound ==
    ASSUME WInv,
           \/ Pump \/ Draw \/ Fit \/ NoKey \/ CheckExit \/ FrameFails \/ Panic
           \/ \E key \in Keys : Press(key)
    PROVE  WInv'
<1> USE DEF WInv, TypeOK, PtyTypeOK, Shape
<1>1. CASE Pump \/ Draw \/ NoKey \/ FrameFails \/ CheckExit
           \/ \E key \in Keys : Press(key)
  <2>1. UNCHANGED <<pty, window, last, observed>>
    BY <1>1 DEF Pump, Draw, NoKey, FrameFails, CheckExit, Press
  <2>2. ObservedInOrder'
    BY <2>1, OthersKeepOrder DEF pty
  <2>3. /\ pc \in Frame /\ pc' \in {"pump", "drain", "resize", "check", "restore"}
        /\ UNCHANGED <<tty, guard>> /\ quit' \in BOOLEAN
    <3>1. CASE Pump \/ Draw \/ NoKey \/ FrameFails
      BY <3>1 DEF Pump, Draw, NoKey, FrameFails, Go, Frame
    <3>2. CASE CheckExit
      <4>1. quit' \in BOOLEAN
        BY <3>2 DEF CheckExit, HasExited
      <4> QED
        BY <3>2, <4>1 DEF CheckExit, Frame
    <3>3. CASE \E key \in Keys : Press(key)
      BY <3>3, KeysAssumption DEF Press, Go, Frame, Submit, chat
    <3> QED
      BY <1>1, <3>1, <3>2, <3>3
  <2>4. /\ turn' \in {"none", "running", "over", "erred"}
        /\ status' \in {"idle", "running", "completed", "failed"}
        /\ input' \in {"empty", "text"}
    BY <1>1, KeysAssumption DEF Pump, Poll, Draw, NoKey, FrameFails, CheckExit,
                Press, Submit, chat
  <2> QED
    BY <2>1, <2>2, <2>3, <2>4 DEF pty, Frame, Leaving
<1>2. CASE Fit
  <2>1. ObservedInOrder'
    BY <1>2, OthersKeepOrder DEF Fit, Resize, pty
  <2>2. TypeOK' /\ Shape'
    BY <1>2 DEF Fit, Resize, Go, chat, pty, Frame
  <2> QED
    BY <2>1, <2>2
<1>3. CASE Panic
  <2>1. ObservedInOrder'
    BY <1>3, OthersKeepOrder DEF Panic
  <2>2. poisoned' \in BOOLEAN
    BY <1>3, Zenon DEF Panic
  <2>3. TypeOK' /\ Shape'
    <3>1. /\ pc \in Frame /\ pc' = "kill"
          /\ UNCHANGED <<shell, held, written, read, reader, pending, kernel, grid>>
          /\ UNCHANGED <<tty, guard, window, last, quit, observed, turn, status, input>>
      BY <1>3 DEF Panic, chat
    <3> QED
      BY <2>2, <3>1 DEF Frame, Leaving
  <2> QED
    BY <2>1, <2>3
<1> QED
  BY <1>1, <1>2, <1>3

LEMMA LeavingIsSound ==
    ASSUME WInv, Restore \/ DropKills \/ DropJoins \/ GuardDrops
    PROVE  WInv'
<1> USE DEF WInv, TypeOK, PtyTypeOK, Shape
<1>1. ObservedInOrder'
  <2>1. UNCHANGED <<observed, pending, read, poisoned>>
    BY DEF Restore, DropKills, DropJoins, GuardDrops, Kill, pty
  <2> QED
    BY <2>1, OthersKeepOrder
<1>2. CASE Restore \/ GuardDrops
  <2>1. TypeOK' /\ Shape'
    BY <1>2 DEF Restore, GuardDrops, RestoreTerminal, chat, pty, Leaving
  <2> QED
    BY <1>1, <2>1
<1>3. CASE DropKills \/ DropJoins
  <2>1. TypeOK' /\ Shape'
    BY <1>3 DEF DropKills, DropJoins, Kill, Go, chat, pty, Leaving
  <2> QED
    BY <1>1, <2>1
<1> QED
  BY <1>2, <1>3

(* The steps beside the loop.                                              *)
LEMMA BesideIsSound ==
    ASSUME WInv, Beside(ReaderStep) \/ Beside(ShellStep) \/ TurnEnds \/ WindowResizes
    PROVE  WInv'
<1> USE DEF WInv, TypeOK, PtyTypeOK, Shape
<1>1. CASE TurnEnds \/ WindowResizes
  <2>1. ObservedInOrder'
    BY <1>1, OthersKeepOrder DEF TurnEnds, WindowResizes, pty
  <2>2. TypeOK' /\ Shape'
    BY <1>1 DEF TurnEnds, WindowResizes, chat, pty, program
  <2> QED
    BY <2>1, <2>2
<1>2. CASE Beside(ShellStep)
  <2>1. ObservedInOrder'
    BY <1>2, OthersKeepOrder DEF Beside, ShellStep, ShellWrites, ShellExits, JobStarts,
             JobEnds
  <2>2. /\ PtyTypeOK'
        /\ shell = "none" => shell' = "none"
        /\ shell' = "running" => shell = "running"
    <3>1. CASE ShellWrites
      <4>1. written' \in 0 .. MaxBytes /\ read' \in 0 .. written'
        BY <3>1, PtyAssumption DEF ShellWrites
      <4> QED
        BY <3>1, <4>1 DEF ShellWrites
    <3>2. CASE ShellExits
      BY <3>2 DEF ShellExits
    <3>3. CASE JobStarts
      BY <3>3 DEF JobStarts
    <3>4. CASE JobEnds
      BY <3>4 DEF JobEnds
    <3> QED
      BY <1>2, <3>1, <3>2, <3>3, <3>4 DEF Beside, ShellStep
  <2>3. TypeOK' /\ Shape'
    BY <1>2, <2>2 DEF Beside, chat, program
  <2> QED
    BY <2>1, <2>3
<1>3. CASE Beside(ReaderStep)
  <2>1. ObservedInOrder' /\ pending' \in Seq(1 .. MaxBytes)
    <3>1. CASE ReaderReads
      BY <1>3, <3>1, ReadingKeepsOrder DEF Beside
    <3>2. CASE ReaderEnds
      BY <1>3, <3>2, OthersKeepOrder DEF Beside, ReaderEnds
    <3>3. CASE ReaderFails
      BY <1>3, <3>3, OthersKeepOrder DEF Beside, ReaderFails
    <3> QED
      BY <1>3, <3>1, <3>2, <3>3 DEF Beside, ReaderStep
  <2>2. /\ UNCHANGED <<shell, held, written, kernel, grid>>
        /\ read' \in 0 .. written /\ poisoned' \in BOOLEAN
        /\ reader' \in {"reading", "done"}
    <3>1. CASE ReaderReads
      BY <3>1, PtyAssumption DEF ReaderReads
    <3>2. CASE ReaderEnds
      BY <3>2 DEF ReaderEnds
    <3>3. CASE ReaderFails
      <4>1. read' \in 0 .. written
        BY <3>3, PtyAssumption DEF ReaderFails
      <4>2. poisoned' \in BOOLEAN
        BY <3>3 DEF ReaderFails
      <4> QED
        BY <3>3, <4>1, <4>2 DEF ReaderFails
    <3> QED
      BY <1>3, <3>1, <3>2, <3>3 DEF Beside, ReaderStep
  <2>3. TypeOK' /\ Shape'
    BY <1>3, <2>1, <2>2 DEF Beside, chat, program
  <2> QED
    BY <2>1, <2>3
<1> QED
  BY <1>1, <1>2, <1>3

LEMMA StepsStayInOrder ==
    ASSUME WInv, [Next]_vars
    PROVE  WInv'
<1>1. CASE UNCHANGED vars
  <2>1. ObservedInOrder'
    BY <1>1, OthersKeepOrder DEF vars, pty
  <2> QED
    BY <1>1, <2>1 DEF vars, pty, program, chat, WInv, TypeOK, PtyTypeOK, Shape
<1>2. CASE Observe
  <2>1. ObservedInOrder' /\ observed' \in Seq(1 .. MaxBytes)
        /\ pending' \in Seq(1 .. MaxBytes)
    BY <1>2, DrainingKeepsOrder DEF Observe
  <2> QED
    BY <1>2, <2>1 DEF Observe, Drain, Go, chat, WInv, TypeOK, PtyTypeOK, Shape, Frame
<1> QED
  BY <1>1, <1>2, StartingIsSound, FramesAreSound, LeavingIsSound, BesideIsSound
     DEF Next, LoopStep

(* The variables of cowork and of its pty keep their shapes.               *)
THEOREM CoworkTypesHold == Spec => []TypeOK
<1>1. WInv => TypeOK
  BY DEF WInv
<1> QED
  BY <1>1, FirstIsInOrder, StepsStayInOrder, PTL DEF Spec

(* However much the shell writes and however reads and drains alternate,   *)
(* the agent is given it in order and nothing twice (ingest, next_chunk).  *)
THEOREM OutputStaysInOrder == Spec => []ObservedInOrder
<1>1. WInv => ObservedInOrder
  BY DEF WInv
<1> QED
  BY <1>1, FirstIsInOrder, StepsStayInOrder, PTL DEF Spec

(* Whatever fails, every way out of run_cowork leaves no shell running,    *)
(* and the terminal as it was unless setup_terminal itself failed at its   *)
(* second step: then it is raw, and nothing else was begun (TerminalGuard, *)
(* PtyChildGuard, setup_terminal).                                         *)
THEOREM WaysOutAreClean == Spec => []LeavesCleanly
<1>1. WInv => LeavesCleanly
  BY DEF WInv, TypeOK, Shape, LeavesCleanly, NoOrphan, TerminalComesBack
<1> QED
  BY <1>1, FirstIsInOrder, StepsStayInOrder, PTL DEF Spec
=============================================================================
