-------------------------- MODULE RecoveryTheorems --------------------------
(***************************************************************************)
(* Theorems about the Reader, the recovery proofs taken through it, and    *)
(* what is concluded from them: the verdict of a restore, fork cases, and  *)
(* the verdict of a load proof.                                            *)
(***************************************************************************)
EXTENDS RecoveryProofs, SequenceFacts

(* What the Reader and the filesystem around it do in one step of the      *)
(* specification.                                                          *)
Reset(c) ==
  /\ Goto(c, "idle") /\ head' = [head EXCEPT ![c] = None]
  /\ raced' = [raced EXCEPT ![c] = FALSE] /\ since' = [since EXCEPT ![c] = 0]
  /\ UNCHANGED << fs, ref, root >>

RootStep == NewOpen \/ NewCompare \/ CloseLock \/ CloseHandle

CallStep(c) == Replay(c) \/ RunFails(c) \/ Reset(c)

OthersStep ==
  \/ MoveAway
  \/ \E d \in Dirs : MoveIn(d) \/ Create(d) \/ \E how \in {"ref", "store"} : Tamper(d, how)

AdvanceStep == \E x \in Changes : \E d \in linked : Advance(d, x)

ReaderMoves == RootStep \/ (\E c \in Calls : CallStep(c)) \/ OthersStep \/ AdvanceStep

(* The inductive invariant.  Histories stay within their bound.            *)
ReaderTypes == ReaderTypeOK /\ \A d \in Dirs : Len(ref[d]) <= MaxLen

(* Directories that exist, and the one that the handle pins, have          *)
(* different numbers.                                                      *)
Pinned(d) == d \in linked \/ (d = handle /\ d # None)

NumbersDistinct == \A d, e \in Dirs : Pinned(d) /\ Pinned(e) /\ number[d] = number[e] => d = e

RootInv ==
  /\ path # None => path \in linked
  /\ reader = "new" => opened = None
  /\ NumbersDistinct

(* What a call that nobody raced has found out about the opened directory. *)
CallGood(c) ==
  /\ pc[c] \in {"layout", "reffile", "githead", "gitread"} => path = opened
  /\ pc[c] \in {"refroot", "reffile", "head", "githead", "read", "gitread"} =>
       redirect[opened] = {}
  /\ since[c] <= Len(ref[opened])
  /\ pc[c] \in {"read", "gitread", "done"} =>
       /\ head[c] \in Seq(Changes)
       /\ IsPrefix(head[c], ref[opened])
       /\ Len(head[c]) >= since[c]

CallsInv ==
  \A c \in Calls :
    pc[c] \notin {"idle", "failed"} => opened # None /\ (~raced[c] => CallGood(c))

ReaderInv == ReaderTypes /\ RootInv /\ CallsInv

-----------------------------------------------------------------------------
(* The filesystem check at the root: whoever passes it looks at the        *)
(* directory that was opened.                                              *)
LEMMA RootSafeIsOpened ==
  ASSUME ReaderTypes, RootInv, RootSafe
  PROVE  path = opened /\ opened # None /\ opened \in Dirs
<1>1. reader = "ready" /\ handle = opened /\ handle # None
  BY DEF ReaderTypes, ReaderTypeOK, RootSafe
<1>2. path \in linked /\ path \in Dirs /\ number[path] = number[opened] /\ opened \in Dirs
  BY <1>1 DEF RootSafe, SameFile, RootInv, ReaderTypes, ReaderTypeOK
<1>3. QED
  BY <1>1, <1>2 DEF RootInv, NumbersDistinct, Pinned

-----------------------------------------------------------------------------
(* Every step of the specification is a step of the Reader or leaves it    *)
(* alone.                                                                  *)
LEMMA ReaderFrame ==
  ASSUME scenario \in Scenarios, [Next]_vars
  PROVE  ReaderMoves \/ UNCHANGED readerVars
<1>1. CASE ReaderStep
  BY <1>1 DEF ReaderStep, ReaderMoves, RootStep
<1>2. CASE \E c \in Calls : Prove(c) \/ ReplayStep(c)
  BY <1>2 DEF Prove, ReplayStep, ReaderMoves, CallStep, Replay
<1>3. CASE Coordinate
  BY <1>3 DEF Coordinate, BaselineDone, WorkersDone, MonitorDone, Settle, RunBegin
<1>4. CASE \E w \in Workers : Work(w)
  <2>1. PICK w \in Workers : Work(w)
    BY <1>4
  <2>2. w \in Calls
    BY DEF Workers
  <2>3. CASE WorkerCall(w)
    BY <2>2, <2>3 DEF WorkerCall, ReaderMoves, CallStep, Replay
  <2>4. CASE WorkerCancelled(w)
    BY <2>4 DEF WorkerCancelled
  <2>5. CASE WorkerCompares(w)
    BY <2>2, <2>5 DEF WorkerCompares, ReaderMoves, CallStep, Reset
  <2>6. QED
    BY <2>1, <2>3, <2>4, <2>5 DEF Work
<1>5. CASE \E s \in Snapshots : Sample(s)
  BY <1>5 DEF Sample
<1>6. CASE \E proof \in {captured, primary, << >>} : \E p \in Provenances :
             \E digest \in {captured, primary} : VerifyBegin(proof, p, digest)
  BY <1>6 DEF VerifyBegin
<1>7. CASE VerifyEnd
  BY <1>7 DEF VerifyEnd
<1>8. CASE Environment
  <2>1. scenario.changes \subseteq Changes
    BY ScenarioAssumption
  <2>2. QED
    BY <1>8, <2>1 DEF Environment, Cancel, Capture, OpenCase, ResolveCase, PrimaryAdvances,
          ReaderMoves, RootStep, CallStep, OthersStep, AdvanceStep
<1>9. CASE UNCHANGED vars
  BY <1>9 DEF vars
<1>10. QED
  BY <1>1, <1>2, <1>3, <1>4, <1>5, <1>6, <1>7, <1>8, <1>9 DEF Next, Step

-----------------------------------------------------------------------------
(* Types.                                                                  *)

LEMMA RootStepTyped ==
  ASSUME ReaderTypes, RootStep PROVE ReaderTypes'
<1> USE DEF fs, replay
<1>1. CASE NewOpen
  BY <1>1, DirsAssumption DEF NewOpen, ReaderTypes, ReaderTypeOK
<1>2. CASE NewCompare
  BY <1>2 DEF NewCompare, ReaderTypes, ReaderTypeOK
<1>3. CASE CloseLock
  BY <1>3 DEF CloseLock, ReaderTypes, ReaderTypeOK
<1>4. CASE CloseHandle
  BY <1>4 DEF CloseHandle, ReaderTypes, ReaderTypeOK
<1>5. QED
  BY <1>1, <1>2, <1>3, <1>4 DEF RootStep

(* A call moves to a label, with a head and a start of its own.            *)
LEMMA CallStepMoves ==
  ASSUME ReaderTypes, NEW c \in Calls, CallStep(c)
  PROVE  /\ \E l \in ReplayLabels : pc' = [pc EXCEPT ![c] = l]
         /\ \/ UNCHANGED head
            \/ \E h \in Seq(Changes) \cup {None, Foreign} : head' = [head EXCEPT ![c] = h]
         /\ UNCHANGED raced \/ raced' = [raced EXCEPT ![c] = FALSE]
         /\ \/ UNCHANGED since
            \/ \E n \in 0..MaxLen : since' = [since EXCEPT ![c] = n]
         /\ UNCHANGED << fs, ref, root >>
<1> USE DEF Goto, Fail, ReplayLabels
<1>1. CASE ReplayBegin(c)
  <2>1. (IF opened = None THEN 0 ELSE Len(ref[opened])) \in 0..MaxLen
    BY LengthAssumption DEF ReaderTypes, ReaderTypeOK
  <2>2. QED
    BY <1>1, <2>1 DEF ReplayBegin
<1>2. CASE checkRepositoryLayoutSafety(c)
  BY <1>2 DEF checkRepositoryLayoutSafety
<1>3. CASE HeadRoot(c)
  BY <1>3 DEF HeadRoot
<1>4. CASE checkAuthoritativeRefSafety(c)
  BY <1>4 DEF checkAuthoritativeRefSafety
<1>5. CASE holdRepositoryRoot(c)
  BY <1>5 DEF holdRepositoryRoot
<1>6. CASE RunHead(c)
  <2>1. path # None => GitReads(path) \in Seq(Changes) \cup {None, Foreign}
    BY DEF GitReads, ReaderTypes, ReaderTypeOK
  <2>2. QED
    BY <1>6, <2>1 DEF RunHead
<1>7. CASE RunRead(c)
  BY <1>7 DEF RunRead
<1>8. CASE RunFails(c)
  BY <1>8 DEF RunFails
<1>9. CASE Reset(c)
  <2>1. 0 \in 0..MaxLen
    BY LengthAssumption
  <2>2. None \in Seq(Changes) \cup {None, Foreign} /\ "idle" \in ReplayLabels
    OBVIOUS
  <2>3. pc' = [pc EXCEPT ![c] = "idle"] /\ head' = [head EXCEPT ![c] = None]
    BY <1>9 DEF Reset
  <2>4. since' = [since EXCEPT ![c] = 0] /\ raced' = [raced EXCEPT ![c] = FALSE]
    BY <1>9 DEF Reset
  <2>5. UNCHANGED << fs, ref, root >>
    BY <1>9 DEF Reset
  <2>6. QED
    BY <2>1, <2>2, <2>3, <2>4, <2>5
<1>10. QED
  BY <1>1, <1>2, <1>3, <1>4, <1>5, <1>6, <1>7, <1>8, <1>9 DEF CallStep, Replay

LEMMA CallStepTyped ==
  ASSUME ReaderTypes, NEW c \in Calls, CallStep(c) PROVE ReaderTypes'
<1>1. pc' \in [Calls -> ReplayLabels]
  BY CallStepMoves DEF ReaderTypes, ReaderTypeOK
<1>2. head' \in [Calls -> Seq(Changes) \cup {None, Foreign}]
  BY CallStepMoves DEF ReaderTypes, ReaderTypeOK
<1>3. raced' \in [Calls -> BOOLEAN]
  BY CallStepMoves DEF ReaderTypes, ReaderTypeOK
<1>4. since' \in [Calls -> 0..MaxLen]
  BY CallStepMoves DEF ReaderTypes, ReaderTypeOK
<1>5. UNCHANGED << fs, ref, root >>
  BY CallStepMoves
<1>6. QED
  BY <1>1, <1>2, <1>3, <1>4, <1>5 DEF ReaderTypes, ReaderTypeOK, fs, root

LEMMA OthersStepTyped ==
  ASSUME ReaderTypes, OthersStep PROVE ReaderTypes'
<1> USE DEF Moving
<1>1. /\ moves > 0 /\ moves' = moves - 1 /\ UNCHANGED << ref, root, pc, head, since >>
      /\ \E C : Race(C)
  BY DEF OthersStep, MoveAway, MoveIn, Create, Tamper
<1>2. moves' \in 0..MaxMoves
  BY <1>1, LengthAssumption DEF ReaderTypes, ReaderTypeOK
<1>3. raced' \in [Calls -> BOOLEAN]
  BY <1>1, Zenon DEF Race
<1>4. /\ path' \in Dirs \cup {None} /\ linked' \subseteq Dirs
      /\ number' \in [Dirs -> Numbers] /\ redirect' \in [Dirs -> SUBSET {"ref", "store"}]
  <2> USE DEF ReaderTypes, ReaderTypeOK
  <2>1. CASE MoveAway
    BY <2>1 DEF MoveAway
  <2>2. ASSUME NEW d \in Dirs, MoveIn(d) PROVE <1>4!:
    BY <2>2 DEF MoveIn
  <2>3. ASSUME NEW d \in Dirs, Create(d) PROVE <1>4!:
    BY <2>3 DEF Create
  <2>4. ASSUME NEW d \in Dirs, NEW how \in {"ref", "store"}, Tamper(d, how) PROVE <1>4!:
    BY <2>4 DEF Tamper
  <2>5. QED
    BY <2>1, <2>2, <2>3, <2>4 DEF OthersStep
<1>5. QED
  BY <1>1, <1>2, <1>3, <1>4 DEF ReaderTypes, ReaderTypeOK, root

LEMMA AdvanceStepTyped ==
  ASSUME ReaderTypes, AdvanceStep PROVE ReaderTypes'
<1>1. PICK x \in Changes : \E d \in linked : Advance(d, x)
  BY DEF AdvanceStep
<1>2. PICK d \in linked : Advance(d, x)
  BY <1>1
<1>3. d \in Dirs /\ ref[d] \in Seq(Changes) /\ Len(ref[d]) < MaxLen
  BY <1>2 DEF Advance, ReaderTypes, ReaderTypeOK
<1>4. Append(ref[d], x) \in Seq(Changes) /\ Len(Append(ref[d], x)) <= MaxLen
  BY <1>3, LengthAssumption
<1>5. ref' \in [Dirs -> Seq(Changes)] /\ \A e \in Dirs : Len(ref'[e]) <= MaxLen
  BY <1>2, <1>4 DEF Advance, ReaderTypes, ReaderTypeOK
<1>6. UNCHANGED << fs, root, replay >>
  BY <1>2 DEF Advance
<1>7. QED
  BY <1>5, <1>6 DEF ReaderTypes, ReaderTypeOK, fs, root, replay

LEMMA ReaderTyped ==
  ASSUME ReaderTypes, ReaderMoves \/ UNCHANGED readerVars PROVE ReaderTypes'
<1>1. CASE UNCHANGED readerVars
  BY <1>1 DEF readerVars, fs, root, replay, ReaderTypes, ReaderTypeOK
<1>2. QED
  BY <1>1, RootStepTyped, CallStepTyped, OthersStepTyped, AdvanceStepTyped DEF ReaderMoves

-----------------------------------------------------------------------------
(* Identity: no directory is given the number of one that exists or is     *)
(* pinned by the handle.                                                   *)

LEMMA RootKept ==
  ASSUME ReaderTypes, RootInv, ReaderMoves \/ UNCHANGED readerVars
  PROVE  RootInv'
<1>1. CASE RootStep
  <2>1. UNCHANGED << path, linked, number >>
    BY <1>1 DEF RootStep, NewOpen, NewCompare, CloseLock, CloseHandle, fs
  <2>2. \A d \in Dirs : Pinned(d)' => Pinned(d)
    BY <1>1, <2>1 DEF RootStep, NewOpen, NewCompare, CloseLock, CloseHandle, Pinned, RootInv
  <2>3. reader' # "new" 
    BY <1>1 DEF RootStep, NewOpen, NewCompare, CloseLock, CloseHandle
  <2>4. QED
    BY <2>1, <2>2, <2>3 DEF RootInv, NumbersDistinct
<1>2. ASSUME NEW c \in Calls, CallStep(c) PROVE RootInv'
  <2>1. UNCHANGED << fs, ref, root >>
    BY <1>2, CallStepMoves
  <2>2. QED
    BY <2>1 DEF RootInv, NumbersDistinct, Pinned, fs, root
<1>3. CASE OthersStep
  <2> USE DEF Moving, root
  <2>1. CASE MoveAway
    BY <2>1 DEF MoveAway, RootInv, NumbersDistinct, Pinned
  <2>2. ASSUME NEW d \in Dirs, MoveIn(d) PROVE RootInv'
    BY <2>2 DEF MoveIn, RootInv, NumbersDistinct, Pinned
  <2>3. ASSUME NEW d \in Dirs, Create(d) PROVE RootInv'
    <3>1. PICK n \in Numbers \ InUse : number' = [number EXCEPT ![d] = n]
      BY <2>3 DEF Create
    <3>2. \A e \in Dirs : Pinned(e) => number[e] # n
      BY DEF Pinned, InUse
    <3>3. \A e \in Dirs \ {d} : number'[e] = number[e]
      BY <3>1 DEF ReaderTypes, ReaderTypeOK
    <3>4. number'[d] = n
      BY <3>1 DEF ReaderTypes, ReaderTypeOK
    <3>5. \A e \in Dirs \ {d} : Pinned(e)' => Pinned(e)
      BY <2>3 DEF Create, Pinned
    <3>6. NumbersDistinct'
      BY <3>2, <3>3, <3>4, <3>5 DEF RootInv, NumbersDistinct
    <3>7. QED
      BY <2>3, <3>6 DEF Create, RootInv
  <2>4. ASSUME NEW d \in Dirs, NEW how, Tamper(d, how) PROVE RootInv'
    BY <2>4 DEF Tamper, RootInv, NumbersDistinct, Pinned
  <2>5. QED
    BY <1>3, <2>1, <2>2, <2>3, <2>4 DEF OthersStep
<1>4. CASE AdvanceStep
  BY <1>4 DEF AdvanceStep, Advance, RootInv, NumbersDistinct, Pinned, fs, root
<1>5. CASE UNCHANGED readerVars
  BY <1>5 DEF readerVars, RootInv, NumbersDistinct, Pinned, fs, root
<1>6. QED
  BY <1>1, <1>2, <1>3, <1>4, <1>5 DEF ReaderMoves

-----------------------------------------------------------------------------
(* Calls.                                                                  *)

Active(c) == pc[c] \notin {"idle", "failed"}

(* The step of a call keeps what it knows about the opened directory.      *)
LEMMA CallGoodKept ==
  ASSUME ReaderInv, NEW c \in Calls, CallStep(c), Active(c)', ~raced'[c]
  PROVE  opened # None /\ CallGood(c)'
<1> USE DEF ReaderInv
<1>1. UNCHANGED << path, redirect, ref, opened >>
  BY CallStepMoves DEF fs, root
<1>2. /\ pc \in [Calls -> ReplayLabels] /\ head \in [Calls -> Seq(Changes) \cup {None, Foreign}]
      /\ raced \in [Calls -> BOOLEAN] /\ since \in [Calls -> 0..MaxLen]
      /\ ref \in [Dirs -> Seq(Changes)] /\ redirect \in [Dirs -> SUBSET {"ref", "store"}]
      /\ opened \in Dirs \cup {None}
  BY DEF ReaderTypes, ReaderTypeOK
<1>3. Active(c) /\ ~raced[c] => opened # None /\ CallGood(c)
  BY DEF CallsInv, Active
<1> USE DEF Goto, Fail
<1>4. CASE ReplayBegin(c)
  <2>1. RootSafe /\ pc'[c] = "layout"
    BY <1>4, <1>2 DEF ReplayBegin, Active
  <2>2. path = opened /\ opened # None
    BY <2>1, RootSafeIsOpened
  <2>3. since'[c] = Len(ref[opened])
    BY <1>4, <1>2, <2>2 DEF ReplayBegin
  <2>4. Len(ref[opened]) \in Nat
    BY <1>2, <2>2
  <2>5. QED
    BY <1>1, <2>1, <2>2, <2>3, <2>4 DEF CallGood
<1>5. ASSUME UNCHANGED << raced, since >>, Active(c) PROVE opened # None /\ CallGood(c)
  BY <1>3, <1>5
<1>6. CASE checkRepositoryLayoutSafety(c)
  BY <1>6, <1>1, <1>2, <1>5 DEF checkRepositoryLayoutSafety, Active, CallGood, SafeLayout
<1>7. CASE HeadRoot(c)
  BY <1>7, <1>1, <1>2, <1>5, RootSafeIsOpened DEF HeadRoot, Active, CallGood
<1>8. CASE checkAuthoritativeRefSafety(c)
  BY <1>8, <1>1, <1>2, <1>5 DEF checkAuthoritativeRefSafety, Active, CallGood
<1>9. CASE holdRepositoryRoot(c)
  BY <1>9, <1>1, <1>2, <1>5, RootSafeIsOpened DEF holdRepositoryRoot, Active, CallGood
<1>10. CASE RunHead(c)
  <2>1. path = opened /\ opened # None /\ redirect[opened] = {} /\ since[c] <= Len(ref[opened])
    BY <1>10, <1>5 DEF RunHead, Active, CallGood
  <2>2. pc'[c] = "read" /\ head'[c] = ref[opened] /\ UNCHANGED since
    BY <1>10, <1>2, <2>1 DEF RunHead, GitReads, Active
  <2>3. IsPrefix(ref[opened], ref[opened]) /\ ref[opened] \in Seq(Changes)
    BY <1>2, <2>1, PrefixReflexive
  <2>4. QED
    BY <1>1, <2>1, <2>2, <2>3 DEF CallGood
<1>11. CASE RunRead(c)
  BY <1>11, <1>1, <1>2, <1>5 DEF RunRead, Active, CallGood
<1>12. CASE RunFails(c)
  BY <1>12, <1>2 DEF RunFails, Active
<1>13. CASE Reset(c)
  BY <1>13, <1>2 DEF Reset, Active
<1>14. QED
  BY <1>4, <1>6, <1>7, <1>8, <1>9, <1>10, <1>11, <1>12, <1>13 DEF CallStep, Replay

(* An active call has an opened directory, raced or not.                   *)
LEMMA CallOpened ==
  ASSUME ReaderInv, NEW c \in Calls, CallStep(c), Active(c)' PROVE opened # None
<1> USE DEF ReaderInv, Goto, Fail
<1>1. Active(c) => opened # None
  BY DEF CallsInv, Active
<1>2. CASE ReplayBegin(c)
  BY <1>2, RootSafeIsOpened DEF ReplayBegin, Active, ReaderTypes, ReaderTypeOK
<1>3. CASE Reset(c)
  BY <1>3 DEF Reset, Active, ReaderTypes, ReaderTypeOK
<1>4. CASE ~ReplayBegin(c) /\ ~Reset(c)
  BY <1>1, <1>4 DEF CallStep, Replay, RunFails, checkRepositoryLayoutSafety, HeadRoot,
       checkAuthoritativeRefSafety, holdRepositoryRoot, RunHead, RunRead, Active
<1>5. QED
  BY <1>2, <1>3, <1>4

LEMMA CallStepKeeps ==
  ASSUME ReaderInv, NEW c \in Calls, CallStep(c) PROVE CallsInv'
<1> SUFFICES ASSUME NEW e \in Calls, Active(e)'
             PROVE  opened' # None /\ (~raced'[e] => CallGood(e)')
  BY DEF CallsInv, Active
<1> USE DEF ReaderInv
<1>1. UNCHANGED << path, redirect, ref, opened >>
  BY CallStepMoves DEF fs, root
<1>2. CASE e = c
  BY <1>1, <1>2, CallGoodKept, CallOpened
<1>3. CASE e # c
  <2>1. /\ pc'[e] = pc[e] /\ head'[e] = head[e] /\ raced'[e] = raced[e] /\ since'[e] = since[e]
    <3>1. pc'[e] = pc[e]
      BY <1>3, CallStepMoves DEF ReaderTypes, ReaderTypeOK
    <3>2. head'[e] = head[e]
      BY <1>3, CallStepMoves DEF ReaderTypes, ReaderTypeOK
    <3>3. raced'[e] = raced[e]
      <4>1. CASE UNCHANGED raced
        BY <4>1
      <4>2. CASE raced' = [raced EXCEPT ![c] = FALSE]
        BY <1>3, <4>2 DEF ReaderTypes, ReaderTypeOK
      <4>3. QED
        BY <4>1, <4>2, CallStepMoves
    <3>4. since'[e] = since[e]
      <4>1. CASE UNCHANGED since
        BY <4>1
      <4>2. ASSUME NEW n, since' = [since EXCEPT ![c] = n] PROVE since'[e] = since[e]
        BY <1>3, <4>2 DEF ReaderTypes, ReaderTypeOK
      <4>3. QED
        BY <4>1, <4>2, CallStepMoves
    <3>5. QED
      BY <3>1, <3>2, <3>3, <3>4
  <2>2. Active(e)
    BY <2>1 DEF Active
  <2>3. opened # None /\ (~raced[e] => CallGood(e))
    BY <2>2 DEF CallsInv, Active
  <2>4. QED
    BY <1>1, <2>1, <2>3 DEF CallGood
<1>4. QED
  BY <1>2, <1>3

(* Who exchanges the directory, or makes it lead elsewhere, marks the      *)
(* calls for which that matters.                                           *)
LEMMA OthersStepKeeps ==
  ASSUME ReaderInv, OthersStep PROVE CallsInv'
<1> SUFFICES ASSUME NEW e \in Calls, Active(e)'
             PROVE  opened' # None /\ (~raced'[e] => CallGood(e)')
  BY DEF CallsInv, Active
<1> USE DEF ReaderInv, Moving
<1>1. UNCHANGED << ref, opened, pc, head, since >>
  BY DEF OthersStep, MoveAway, MoveIn, Create, Tamper, root
<1>2. opened # None /\ (~raced[e] => CallGood(e))
  BY <1>1 DEF CallsInv, Active
<1>3. ASSUME NEW C, Race(C), ~raced'[e] PROVE ~raced[e] /\ e \notin C
  BY <1>3, Zenon DEF Race
<1>4. CASE MoveAway \/ \E d \in Dirs : MoveIn(d) \/ Create(d)
  <2>1. Race(Exposed) /\ UNCHANGED redirect
    BY <1>4 DEF MoveAway, MoveIn, Create
  <2>2. ASSUME ~raced'[e]
        PROVE  CallGood(e) /\ pc[e] \notin {"layout", "reffile", "githead", "gitread"}
    BY <1>2, <1>3, <2>1, <2>2 DEF Exposed
  <2>3. QED
    BY <1>1, <1>2, <2>1, <2>2 DEF CallGood
<1>5. ASSUME NEW d \in Dirs, NEW how, Tamper(d, how) PROVE opened' # None /\ (~raced'[e] => CallGood(e)')
  <2>1. Race(Examined) /\ UNCHANGED path
    BY <1>5 DEF Tamper
  <2>2. ASSUME ~raced'[e]
        PROVE  CallGood(e) /\ pc[e] \notin {"refroot", "reffile", "head", "githead", "read", "gitread"}
    BY <1>2, <1>3, <2>1, <2>2 DEF Examined
  <2>3. QED
    BY <1>1, <1>2, <2>1, <2>2 DEF CallGood
<1>6. QED
  BY <1>4, <1>5 DEF OthersStep

LEMMA AdvanceStepKeeps ==
  ASSUME ReaderInv, AdvanceStep PROVE CallsInv'
<1> SUFFICES ASSUME NEW e \in Calls, Active(e)'
             PROVE  opened' # None /\ (~raced'[e] => CallGood(e)')
  BY DEF CallsInv, Active
<1> USE DEF ReaderInv
<1>1. PICK x \in Changes : \E d \in linked : Advance(d, x)
  BY DEF AdvanceStep
<1>2. PICK d \in linked : Advance(d, x)
  BY <1>1
<1>3. UNCHANGED << path, redirect, opened, pc, head, raced, since >>
  BY <1>2 DEF Advance, fs, root, replay
<1>4. opened # None /\ opened \in Dirs /\ (~raced[e] => CallGood(e))
  BY <1>3 DEF CallsInv, Active, ReaderTypes, ReaderTypeOK
<1>5. ref \in [Dirs -> Seq(Changes)] /\ since[e] \in Nat /\ d \in Dirs
  BY LengthAssumption DEF ReaderTypes, ReaderTypeOK
<1>6. ref'[opened] = ref[opened] \/ ref'[opened] = Append(ref[opened], x)
  BY <1>2, <1>4, <1>5 DEF Advance
<1>7. /\ Len(ref'[opened]) >= Len(ref[opened]) /\ Len(ref'[opened]) \in Nat /\ Len(ref[opened]) \in Nat
      /\ \A h \in Seq(Changes) : IsPrefix(h, ref[opened]) => IsPrefix(h, ref'[opened])
  <2>1. ref[opened] \in Seq(Changes)
    BY <1>4, <1>5
  <2>2. CASE ref'[opened] = ref[opened]
    BY <2>1, <2>2
  <2>3. CASE ref'[opened] = Append(ref[opened], x)
    <3>1. ASSUME NEW h \in Seq(Changes), IsPrefix(h, ref[opened]) PROVE IsPrefix(h, ref'[opened])
      BY <2>1, <2>3, <3>1, PrefixAppend
    <3>2. Len(ref'[opened]) = Len(ref[opened]) + 1
      BY <2>1, <2>3
    <3>3. QED
      BY <2>1, <3>1, <3>2
  <2>4. QED
    BY <1>6, <2>2, <2>3
<1>8. QED
  BY <1>3, <1>4, <1>5, <1>7 DEF CallGood

LEMMA ReaderStepKeeps ==
  ASSUME ReaderInv, ReaderMoves \/ UNCHANGED readerVars PROVE ReaderInv'
<1>1. ReaderTypes' /\ RootInv'
  BY ReaderTyped, RootKept DEF ReaderInv
<1>2. CASE RootStep
  <2>1. UNCHANGED << path, redirect, ref, pc, head, raced, since >>
    BY <1>2 DEF RootStep, NewOpen, NewCompare, CloseLock, CloseHandle, fs, replay
  <2>2. UNCHANGED opened \/ opened = None
    BY <1>2 DEF RootStep, NewOpen, NewCompare, CloseLock, CloseHandle, ReaderInv, RootInv
  <2>3. CallsInv'
    BY <2>1, <2>2 DEF ReaderInv, CallsInv, CallGood
  <2>4. QED
    BY <1>1, <2>3 DEF ReaderInv
<1>3. CASE UNCHANGED readerVars
  <2>1. CallsInv'
    BY <1>3 DEF readerVars, fs, root, replay, ReaderInv, CallsInv, CallGood
  <2>2. QED
    BY <1>1, <2>1 DEF ReaderInv
<1>4. QED
  BY <1>1, <1>2, <1>3, CallStepKeeps, OthersStepKeeps, AdvanceStepKeeps DEF ReaderInv, ReaderMoves

LEMMA ReaderInitially == Init => ReaderInv /\ scenario \in Scenarios
<1> SUFFICES ASSUME Init PROVE ReaderInv
  BY DEF Init
<1> USE DEF Init, ReaderInit
<1>1. scenario \in Scenarios /\ (CHOOSE n \in Numbers : TRUE) \in Numbers
  BY DirsAssumption
<1>2. ReaderTypes
  BY <1>1, ScenarioAssumption, LengthAssumption, DirsAssumption DEF ReaderTypes, ReaderTypeOK, ReplayLabels
<1>3. RootInv
  BY <1>1 DEF RootInv, NumbersDistinct, Pinned
<1>4. CallsInv
  BY DEF CallsInv
<1>5. QED
  BY <1>2, <1>3, <1>4 DEF ReaderInv

LEMMA ReaderInvariant == Spec => [](ReaderInv /\ scenario \in Scenarios)
<1>1. ReaderInv /\ scenario \in Scenarios /\ [Next]_vars => (ReaderInv /\ scenario \in Scenarios)'
  BY ReaderFrame, ReaderStepKeeps DEF Next, vars
<1>2. QED
  BY <1>1, ReaderInitially, PTL DEF Spec

(* A recovery proof of a call that was not raced describes the repository  *)
(* that was opened, at a commit its ref had while the call ran, whatever   *)
(* is moved, deleted, recreated or given a recycled inode meanwhile        *)
(* (holdRepositoryRoot).                                                   *)
THEOREM ProofsDescribeOpened == Spec => []ProofDescribesOpened
<1>1. ReaderInv => ProofDescribesOpened
  BY DEF ReaderInv, CallsInv, CallGood, ProofDescribesOpened
<1>2. QED
  BY <1>1, ReaderInvariant, PTL

-----------------------------------------------------------------------------
(* Types of the load proof and the restore.                                *)

LoadTypes ==
  /\ cancelled \in BOOLEAN /\ run \in Phases \cup Verdicts
  /\ envelope \in Envelopes \cup {None}
  /\ before \in Snapshots \cup {None} /\ after \in Snapshots \cup {None}
  /\ gap \in BOOLEAN /\ firstErr \in BOOLEAN /\ completed \in Nat
  /\ iter \in [Workers -> Nat \cup {None}]

RestoreTypes ==
  primary \in Seq(Changes) /\ captured \in Seq(Changes) \cup {None} /\ restore \in Restores

LEMMA UpdatePeakTyped ==
  ASSUME NEW s \in Snapshots, gap \in BOOLEAN, UpdatePeak(s) PROVE gap' \in BOOLEAN
BY DEF UpdatePeak

LEMMA LoadTyped ==
  ASSUME LoadTypes, [Next]_vars PROVE LoadTypes'
<1> USE DEF LoadTypes
<1>1. CASE UNCHANGED load
  BY <1>1 DEF load
<1>2. CASE BaselineDone
  BY <1>2 DEF BaselineDone, Phases
<1>3. CASE WorkersDone
  BY <1>3 DEF WorkersDone, Phases
<1>4. ASSUME NEW s \in Snapshots, Sample(s) PROVE LoadTypes'
  BY <1>4, UpdatePeakTyped DEF Sample
<1>5. ASSUME NEW s \in Snapshots, MonitorDone(s) PROVE LoadTypes'
  BY <1>5, UpdatePeakTyped DEF MonitorDone, Phases
<1>6. ASSUME NEW s \in Snapshots, Settle(s) PROVE LoadTypes'
  <2>1. run' \in Verdicts
    BY <1>6 DEF Settle, Verdicts
  <2>2. QED
    BY <1>6, <2>1, UpdatePeakTyped DEF Settle
<1>7. ASSUME NEW s \in Snapshots, NEW e \in Envelopes, RunBegin(e, s) PROVE LoadTypes'
  <2>1. run' \in Phases
    BY <1>7 DEF RunBegin, Phases
  <2>2. QED
    BY <1>7, <2>1 DEF RunBegin
<1>8. ASSUME NEW w \in Workers, WorkerLeaves(w) PROVE LoadTypes'
  BY <1>8 DEF WorkerLeaves
<1>9. ASSUME NEW w \in Workers, WorkerCompares(w) PROVE LoadTypes'
  <2>1. CASE WorkerLeaves(w)
    BY <1>8, <2>1
  <2>2. CASE ~WorkerLeaves(w)
    <3>1. completed' = completed + 1 /\ iter' = [iter EXCEPT ![w] = @ + 1] /\ iter[w] \in Nat
      BY <1>9, <2>2 DEF WorkerCompares, Count, Working
    <3>2. UNCHANGED << cancelled, run, envelope, before, after, gap, firstErr >>
      BY <1>9, <2>2 DEF WorkerCompares
    <3>3. QED
      BY <3>1, <3>2
  <2>3. QED
    BY <2>1, <2>2
<1>10. CASE Cancel
  BY <1>10 DEF Cancel
<1>11. ASSUME NEW w \in Workers, Work(w) PROVE LoadTypes'
  BY <1>1, <1>8, <1>9, <1>11 DEF Work, WorkerCall, WorkerCancelled
<1>12. CASE Coordinate
  BY <1>2, <1>3, <1>5, <1>6, <1>7, <1>12 DEF Coordinate
<1>13. CASE Environment
  BY <1>1, <1>10, <1>13 DEF Environment, Capture, OpenCase, ResolveCase, PrimaryAdvances
<1>14. ASSUME Next, ~Coordinate, ~Environment, ~\E w \in Workers : Work(w),
              ~\E s \in Snapshots : Sample(s)
       PROVE  UNCHANGED load
  BY <1>14 DEF Next, Step, ReaderStep, Prove, ReplayStep, VerifyBegin, VerifyEnd
<1>15. QED
  BY <1>1, <1>4, <1>11, <1>12, <1>13, <1>14 DEF vars

(* What happens to the backup and its verification.                        *)
RestoreMoves ==
  \/ Capture
  \/ \E proof \in {captured, primary, << >>} : \E p \in Provenances :
       \E digest \in {captured, primary} : VerifyBegin(proof, p, digest)
  \/ VerifyEnd
  \/ \E x \in Changes : PrimaryAdvances(x)

LEMMA RestoreFrame ==
  ASSUME scenario \in Scenarios, [Next]_vars PROVE RestoreMoves \/ UNCHANGED restores
<1>1. CASE ReaderStep
  BY <1>1 DEF ReaderStep
<1>2. CASE \E c \in Calls : Prove(c) \/ ReplayStep(c)
  BY <1>2 DEF Prove, ReplayStep
<1>3. CASE Coordinate
  BY <1>3 DEF Coordinate, BaselineDone, WorkersDone, MonitorDone, Settle, RunBegin
<1>4. CASE \E w \in Workers : Work(w)
  BY <1>4 DEF Work, WorkerCall, WorkerCancelled, WorkerCompares
<1>5. CASE \E s \in Snapshots : Sample(s)
  BY <1>5 DEF Sample
<1>6. CASE Environment
  <2>1. scenario.changes \subseteq Changes
    BY ScenarioAssumption
  <2>2. QED
    BY <1>6, <2>1 DEF Environment, RestoreMoves, Cancel, OpenCase, ResolveCase
<1>7. CASE UNCHANGED vars
  BY <1>7 DEF vars
<1>8. QED
  BY <1>1, <1>2, <1>3, <1>4, <1>5, <1>6, <1>7 DEF Next, Step, RestoreMoves

LEMMA RestoreTyped ==
  ASSUME RestoreTypes, RestoreMoves \/ UNCHANGED restores PROVE RestoreTypes'
<1> USE DEF RestoreTypes
<1>1. CASE Capture
  BY <1>1 DEF Capture
<1>2. ASSUME NEW proof, NEW p, NEW digest, VerifyBegin(proof, p, digest) PROVE RestoreTypes'
  BY <1>2 DEF VerifyBegin, Restores
<1>3. CASE VerifyEnd
  BY <1>3 DEF VerifyEnd, Restores
<1>4. ASSUME NEW x \in Changes, PrimaryAdvances(x) PROVE RestoreTypes'
  BY <1>4 DEF PrimaryAdvances
<1>5. CASE UNCHANGED restores
  BY <1>5 DEF restores
<1>6. QED
  BY <1>1, <1>2, <1>3, <1>4, <1>5 DEF RestoreMoves

LEMMA TypesInvariant == Spec => [](LoadTypes /\ RestoreTypes)
<1>1. Init => LoadTypes /\ RestoreTypes
  <2> SUFFICES ASSUME Init PROVE LoadTypes /\ RestoreTypes
    OBVIOUS
  <2>1. run \in Phases /\ restore \in Restores
    BY DEF Init, Phases, Restores
  <2>2. iter \in [Workers -> Nat \cup {None}]
    BY DEF Init
  <2>3. primary \in Seq(Changes)
    BY ScenarioAssumption DEF Init
  <2>4. QED
    BY <2>1, <2>2, <2>3 DEF Init, LoadTypes, RestoreTypes
<1>2. /\ LoadTypes /\ RestoreTypes /\ scenario \in Scenarios /\ [Next]_vars
      => (LoadTypes /\ RestoreTypes)'
  BY LoadTyped, RestoreTyped, RestoreFrame
<1>3. QED
  BY <1>1, <1>2, ReaderInvariant, PTL DEF Spec

(* Every variable keeps its type, and the root handle is open exactly      *)
(* while there is a Reader to use it: no way out of New or Close leaks it. *)
THEOREM TypeCorrect == Spec => []TypeOK
<1>1. ReaderInv /\ scenario \in Scenarios /\ LoadTypes /\ RestoreTypes => TypeOK
  BY DEF ReaderInv, ReaderTypes, LoadTypes, RestoreTypes, TypeOK
<1>2. QED
  BY <1>1, ReaderInvariant, TypesInvariant, PTL

-----------------------------------------------------------------------------
(* Restores.  A captured proof stays a prefix of the primary, so does the  *)
(* proof given to Verify once it is accepted, and an equivalent restore    *)
(* stands on the finished call of the coordinator.                         *)
RestoreInv ==
  /\ captured # None => IsPrefix(captured, primary)
  /\ restore \in {"proving", "equivalent"} =>
       original \in Seq(Changes) /\ Len(original) > 0 /\ IsPrefix(original, primary)
  /\ restore = "equivalent" => pc[Base] = "done" /\ head[Base] = original

(* Nothing moves the coordinator's call once it is done.                   *)
LEMMA BaseStays ==
  ASSUME ReaderInv, scenario \in Scenarios, [Next]_vars, pc[Base] = "done"
  PROVE  pc'[Base] = "done" /\ head'[Base] = head[Base]
<1>1. Base \in Calls /\ pc \in [Calls -> ReplayLabels]
      /\ head \in [Calls -> Seq(Changes) \cup {None, Foreign}]
  BY CallsAssumption DEF ReaderInv, ReaderTypes, ReaderTypeOK
<1>2. ASSUME NEW c \in Calls, pc[c] # "done", \E l : Goto(c, l),
             UNCHANGED head \/ \E h : head' = [head EXCEPT ![c] = h]
      PROVE  pc'[Base] = "done" /\ head'[Base] = head[Base]
  BY <1>1, <1>2 DEF Goto
<1>3. CASE \E c \in Calls : Prove(c) \/ ReplayStep(c) \/ RunFails(c) \/ WorkerCall(c)
  <2>1. PICK c \in Calls : Prove(c) \/ ReplayStep(c) \/ RunFails(c) \/ WorkerCall(c)
    BY <1>3
  <2>2. pc[c] # "done"
    BY <2>1 DEF Prove, ReplayStep, RunFails, WorkerCall, ReplayBegin, checkRepositoryLayoutSafety,
         HeadRoot, checkAuthoritativeRefSafety, holdRepositoryRoot, RunHead, RunRead
  <2>3. \E l : Goto(c, l)
    BY <2>1 DEF Prove, ReplayStep, RunFails, WorkerCall, ReplayBegin, checkRepositoryLayoutSafety,
         HeadRoot, checkAuthoritativeRefSafety, holdRepositoryRoot, RunHead, RunRead, Fail
  <2>4. UNCHANGED head \/ \E h : head' = [head EXCEPT ![c] = h]
    BY <2>1 DEF Prove, ReplayStep, RunFails, WorkerCall, ReplayBegin, checkRepositoryLayoutSafety,
         HeadRoot, checkAuthoritativeRefSafety, holdRepositoryRoot, RunHead, RunRead, Fail
  <2>5. QED
    BY <1>2, <2>2, <2>3, <2>4
<1>4. CASE UNCHANGED << pc, head >>
  BY <1>4
<1>5. ASSUME NEW w \in Workers, WorkerCompares(w) PROVE pc'[Base] = "done" /\ head'[Base] = head[Base]
  <2>1. w # Base /\ w \in Calls
    BY DEF Workers
  <2>2. pc' = [pc EXCEPT ![w] = "idle"] /\ head' = [head EXCEPT ![w] = None]
    BY <1>5 DEF WorkerCompares, Goto
  <2>3. QED
    BY <1>1, <2>1, <2>2
<1>6. \/ \E c \in Calls : Prove(c) \/ ReplayStep(c) \/ RunFails(c) \/ WorkerCall(c)
      \/ UNCHANGED << pc, head >>
      \/ \E w \in Workers : WorkerCompares(w)
  <2> USE DEF readerVars, replay
  <2>1. CASE ReaderStep
    BY <2>1 DEF ReaderStep, NewOpen, NewCompare, CloseHandle
  <2>2. CASE Coordinate
    BY <2>2 DEF Coordinate, BaselineDone, WorkersDone, MonitorDone, Settle, RunBegin
  <2>3. CASE \E w \in Workers : Work(w)
    BY <2>3 DEF Work, WorkerCancelled, Workers
  <2>4. CASE Environment
    BY <2>4 DEF Environment, Cancel, Capture, OpenCase, ResolveCase, PrimaryAdvances, CloseLock,
         MoveAway, MoveIn, Create, Tamper, Advance, Moving
  <2> QED
    BY <2>1, <2>2, <2>3, <2>4 DEF vars, Step, Next, Sample, VerifyBegin, VerifyEnd
<1>7. QED
  BY <1>3, <1>4, <1>5, <1>6

LEMMA RestoreKept ==
  ASSUME ReaderInv, RestoreTypes, scenario \in Scenarios, RestoreInv, [Next]_vars
  PROVE  RestoreInv'
<1>1. pc[Base] = "done" => pc'[Base] = "done" /\ head'[Base] = head[Base]
  BY BaseStays
<1>2. RestoreMoves \/ UNCHANGED restores
  BY RestoreFrame
<1> USE DEF RestoreInv, RestoreTypes
<1>3. CASE UNCHANGED restores
  BY <1>1, <1>3 DEF restores
<1>4. CASE Capture
  <2>1. IsPrefix(primary, primary)
    BY PrefixReflexive
  <2>2. QED
    BY <1>1, <1>4, <2>1 DEF Capture
<1>5. ASSUME NEW proof \in {captured, primary, << >>}, NEW p, NEW digest, VerifyBegin(proof, p, digest)
      PROVE  RestoreInv'
  <2>1. UNCHANGED << captured, primary >> /\ restore' # "equivalent"
    BY <1>5 DEF VerifyBegin
  <2>2. CASE restore' = "proving"
    <3>1. ValidRecoveryProof(proof) /\ original' = proof
      BY <1>5, <2>2 DEF VerifyBegin
    <3>2. proof # None /\ Len(proof) > 0
      BY <3>1 DEF ValidRecoveryProof
    <3>3. proof # << >>
      BY <3>2
    <3>4. proof \in Seq(Changes) /\ IsPrefix(proof, primary)
      BY <3>2, <3>3, PrefixReflexive
    <3>5. QED
      BY <2>1, <3>1, <3>2, <3>4
  <2>3. QED
    BY <2>1, <2>2
<1>6. CASE VerifyEnd
  <2>1. UNCHANGED << captured, primary, original >> /\ restore = "proving" /\ UNCHANGED << pc, head >>
    BY <1>6 DEF VerifyEnd, readerVars, replay
  <2>2. restore' = "equivalent" => pc[Base] = "done" /\ head[Base] = original
    BY <1>6 DEF VerifyEnd, Equivalent
  <2>3. QED
    BY <2>1, <2>2
<1>7. ASSUME NEW x \in Changes, PrimaryAdvances(x) PROVE RestoreInv'
  <2>1. primary' = Append(primary, x) /\ UNCHANGED << captured, restore, original, pc, head >>
    BY <1>7 DEF PrimaryAdvances, readerVars, replay
  <2>2. \A s \in Seq(Changes) : IsPrefix(s, primary) => IsPrefix(s, primary')
    BY <2>1, PrefixAppend
  <2>3. QED
    BY <2>1, <2>2
<1>8. QED
  BY <1>2, <1>3, <1>4, <1>5, <1>6, <1>7 DEF RestoreMoves

LEMMA RestoreInvariant == Spec => []RestoreInv
<1>1. Init => RestoreInv
  BY DEF Init, RestoreInv
<1>2. QED
  BY <1>1, RestoreKept, ReaderInvariant, TypesInvariant, PTL DEF Spec

(* A restored copy that Verify reports equivalent held, while it was       *)
(* verified, exactly the history of which the recovery proof was taken,    *)
(* and that history is the primary's (CompareRecoveryProofs).              *)
THEOREM RestoresTrue == Spec => []RestoreTrue
<1>1. ReaderInv /\ RestoreInv => RestoreTrue
  BY CallsAssumption DEF ReaderInv, CallsInv, CallGood, RestoreInv, RestoreTrue
<1>2. QED
  BY <1>1, ReaderInvariant, RestoreInvariant, PTL

-----------------------------------------------------------------------------
(* Fork cases.                                                             *)

(* Up to where two histories are the same.                                 *)
Agree(p, r, n) == n <= Len(p) /\ n <= Len(r) /\ \A i \in 1..n : p[i] = r[i]

LEMMA IDsOfHistory ==
  ASSUME NEW p \in Seq(Changes)
  PROVE  /\ IDs(p) \in Seq(Seq(Changes)) /\ Len(IDs(p)) = Len(p)
         /\ \A n \in 1..Len(p) : IDs(p)[n] = SubSeq(p, 1, n)
         /\ SubSeq(p, 1, Len(p)) = p
<1>1. \A n \in 1..Len(p) : SubSeq(p, 1, n) \in Seq(Changes)
  OBVIOUS
<1>2. IDs(p) = [n \in 1..Len(p) |-> SubSeq(p, 1, n)] /\ Len(p) \in Nat
  BY DEF IDs
<1>3. IDs(p) \in Seq(Seq(Changes)) /\ Len(IDs(p)) = Len(p)
  BY <1>1, <1>2
<1>4. QED
  BY <1>2, <1>3

(* The identities of a commit and its ancestors agree as far as the        *)
(* changes do.                                                             *)
LEMMA IDsAgree ==
  ASSUME NEW p \in Seq(Changes), NEW r \in Seq(Changes), NEW n \in 1..Len(p), n <= Len(r)
  PROVE  SubSeq(IDs(p), 1, n) = SubSeq(IDs(r), 1, n) <=> Agree(p, r, n)
<1>1. /\ IDs(p) \in Seq(Seq(Changes)) /\ Len(IDs(p)) = Len(p)
      /\ IDs(r) \in Seq(Seq(Changes)) /\ Len(IDs(r)) = Len(r)
      /\ \A i \in 1..n : IDs(p)[i] = SubSeq(p, 1, i) /\ IDs(r)[i] = SubSeq(r, 1, i)
  <2>1. \A i \in 1..n : i \in 1..Len(p) /\ i \in 1..Len(r)
    OBVIOUS
  <2>2. QED
    BY <2>1, IDsOfHistory
<1>2. /\ SubSeq(IDs(p), 1, n) \in Seq(Seq(Changes)) /\ Len(SubSeq(IDs(p), 1, n)) = n
      /\ SubSeq(IDs(r), 1, n) \in Seq(Seq(Changes)) /\ Len(SubSeq(IDs(r), 1, n)) = n
      /\ \A i \in 1..n : SubSeq(IDs(p), 1, n)[i] = IDs(p)[i] /\ SubSeq(IDs(r), 1, n)[i] = IDs(r)[i]
  BY <1>1
<1>3. ASSUME SubSeq(IDs(p), 1, n) = SubSeq(IDs(r), 1, n) PROVE Agree(p, r, n)
  <2>1. SubSeq(p, 1, n) = SubSeq(r, 1, n)
    <3>1. n \in 1..n
      OBVIOUS
    <3>2. SubSeq(IDs(p), 1, n)[n] = IDs(p)[n] /\ SubSeq(IDs(r), 1, n)[n] = IDs(r)[n]
      BY <1>2, <3>1
    <3>3. QED
      BY <1>1, <1>3, <3>1, <3>2
  <2>2. \A i \in 1..n : SubSeq(p, 1, n)[i] = p[i] /\ SubSeq(r, 1, n)[i] = r[i]
    OBVIOUS
  <2>3. QED
    BY <2>1, <2>2 DEF Agree
<1>4. ASSUME Agree(p, r, n) PROVE SubSeq(IDs(p), 1, n) = SubSeq(IDs(r), 1, n)
  <2>1. ASSUME NEW i \in 1..n PROVE SubSeq(p, 1, i) = SubSeq(r, 1, i)
    <3>1. /\ SubSeq(p, 1, i) \in Seq(Changes) /\ Len(SubSeq(p, 1, i)) = i
          /\ SubSeq(r, 1, i) \in Seq(Changes) /\ Len(SubSeq(r, 1, i)) = i
          /\ \A j \in 1..i : SubSeq(p, 1, i)[j] = p[j] /\ SubSeq(r, 1, i)[j] = r[j]
      OBVIOUS
    <3>2. \A j \in 1..i : p[j] = r[j]
      BY <1>4 DEF Agree
    <3>3. QED
      BY <3>1, <3>2
  <2>2. \A i \in 1..n : SubSeq(IDs(p), 1, n)[i] = SubSeq(IDs(r), 1, n)[i]
    BY <1>1, <1>2, <2>1
  <2>3. QED
    BY <1>2, <2>2
<1>5. QED
  BY <1>3, <1>4

(* CommonLength is the length up to which two histories agree.             *)
LEMMA CommonLengthExact ==
  ASSUME NEW p \in Seq(Changes), NEW r \in Seq(Changes)
  PROVE  /\ CommonLength(IDs(p), IDs(r)) \in Nat
         /\ \A n \in Nat \ {0} : Agree(p, r, n) <=> n <= CommonLength(IDs(p), IDs(r))
<1> DEFINE D == {n \in 1..Len(IDs(p)) : n <= Len(IDs(r)) /\ SubSeq(IDs(p), 1, n) = SubSeq(IDs(r), 1, n)}
<1>1. Len(p) \in Nat /\ Len(IDs(p)) = Len(p) /\ Len(IDs(r)) = Len(r)
  BY IDsOfHistory
<1>2. ASSUME NEW n \in Nat \ {0} PROVE n \in D <=> Agree(p, r, n)
  <2>1. CASE n \in 1..Len(p) /\ n <= Len(r)
    BY <1>1, <2>1, IDsAgree
  <2>2. CASE ~(n \in 1..Len(p) /\ n <= Len(r))
    BY <1>1, <2>2 DEF Agree
  <2>3. QED
    BY <2>1, <2>2
<1>3. D \in SUBSET (1..Len(p))
  BY <1>1
<1>4. CommonLength(IDs(p), IDs(r)) = Cardinality(D)
  BY DEF CommonLength
<1> HIDE DEF D
<1>5. \A n \in D : 1..n \subseteq D
  <2> SUFFICES ASSUME NEW n \in D, NEW i \in 1..n PROVE i \in D
    OBVIOUS
  <2>1. n \in Nat \ {0} /\ i \in Nat \ {0} /\ i <= n
    BY <1>1, <1>3
  <2>2. Agree(p, r, n)
    BY <1>2, <2>1
  <2>3. Agree(p, r, i)
    BY <2>1, <2>2 DEF Agree
  <2>4. QED
    BY <1>2, <2>1, <2>3
<1>6. Cardinality(D) \in Nat /\ D = 1..Cardinality(D)
  BY <1>1, <1>3, <1>5, InitialSegment
<1>7. \A n \in Nat \ {0} : n \in D <=> n <= Cardinality(D)
  BY <1>6
<1>8. QED
  BY <1>2, <1>4, <1>6, <1>7

(* What Classify returns for histories of which neither continues the      *)
(* other: their heads, and an ancestor that holds all they have in common. *)
ForkGood(f) ==
  /\ f.headA \in Seq(Changes) /\ f.headB \in Seq(Changes)
  /\ ~IsPrefix(f.headA, f.headB) /\ ~IsPrefix(f.headB, f.headA)
  /\ \A s \in Seq(Changes) :
       Len(s) > 0 /\ IsPrefix(s, f.headA) /\ IsPrefix(s, f.headB) => IsPrefix(s, f.ancestor)

LEMMA ClassifyGood ==
  ASSUME NEW p \in Seq(Changes), NEW r \in Seq(Changes), ForkRequired(IDs(p), IDs(r))
  PROVE  /\ ForkGood(Classify(IDs(p), IDs(r)))
         /\ Classify(IDs(p), IDs(r)).headA = p /\ Classify(IDs(p), IDs(r)).headB = r
<1> DEFINE k == CommonLength(IDs(p), IDs(r))
<1>1. /\ Len(p) \in Nat /\ Len(IDs(p)) = Len(p) /\ Len(r) \in Nat /\ Len(IDs(r)) = Len(r)
  BY IDsOfHistory
<1>2. Len(p) > 0 /\ Len(r) > 0
  <2>1. IDs(p) # << >> /\ IDs(r) # << >>
    BY DEF ForkRequired, validateHistory
  <2>2. QED
    BY <1>1, <2>1, IDsOfHistory
<1>3. IDs(p)[Len(p)] = p /\ IDs(r)[Len(r)] = r
  <2>1. Len(p) \in 1..Len(p) /\ Len(r) \in 1..Len(r)
    BY <1>1, <1>2
  <2>2. QED
    BY <2>1, IDsOfHistory
<1>4. k \in Nat /\ \A n \in Nat \ {0} : Agree(p, r, n) <=> n <= k
  BY CommonLengthExact
<1>5. Classify(IDs(p), IDs(r)).kind \in {"divergent", "unrelated"}
  BY DEF ForkRequired
<1>6. /\ Classify(IDs(p), IDs(r)).headA = p /\ Classify(IDs(p), IDs(r)).headB = r
      /\ Classify(IDs(p), IDs(r)).ancestor = IF k = 0 THEN << >> ELSE IDs(p)[k]
  BY <1>1, <1>3 DEF Classify
<1>7. k <= Len(p) /\ k <= Len(r)
  <2>1. CASE k = 0
    BY <1>1, <2>1
  <2>2. CASE k # 0
    BY <1>4, <2>2 DEF Agree
  <2>3. QED
    BY <2>1, <2>2
<1>8. k # Len(p) /\ k # Len(r)
  <2>1. CASE k = Len(p) /\ k = Len(r)
    BY <1>1, <1>2, <1>5, <2>1 DEF Classify
  <2>2. CASE k = Len(p) /\ k # Len(r)
    BY <1>1, <1>2, <1>4, <1>5, <1>7, <2>2 DEF Classify
  <2>3. CASE k # Len(p) /\ k = Len(r)
    BY <1>1, <1>2, <1>4, <1>5, <1>7, <2>3 DEF Classify
  <2>4. QED
    BY <2>1, <2>2, <2>3
<1> HIDE DEF k
<1>9. ASSUME NEW s \in Seq(Changes), Len(s) > 0, IsPrefix(s, p), IsPrefix(s, r)
      PROVE  Len(s) <= k /\ IsPrefix(s, IDs(p)[k])
  <2>1. /\ Len(s) <= Len(p) /\ \A i \in 1..Len(s) : s[i] = p[i]
        /\ Len(s) <= Len(r) /\ \A i \in 1..Len(s) : s[i] = r[i]
    BY <1>9, PrefixElements
  <2>2. Agree(p, r, Len(s))
    BY <2>1 DEF Agree
  <2>3. Len(s) \in Nat \ {0} /\ Len(s) <= k
    BY <1>4, <1>9, <2>2
  <2>4. k \in 1..Len(p)
    BY <1>1, <1>4, <1>7, <2>3
  <2>5. IDs(p)[k] = SubSeq(p, 1, k)
    BY <2>4, IDsOfHistory
  <2>6. /\ SubSeq(p, 1, k) \in Seq(Changes) /\ Len(SubSeq(p, 1, k)) = k
        /\ \A i \in 1..k : SubSeq(p, 1, k)[i] = p[i]
    BY <2>4
  <2>7. \A i \in 1..Len(s) : s[i] = SubSeq(p, 1, k)[i]
    BY <2>1, <2>3, <2>4, <2>6
  <2>8. QED
    BY <2>3, <2>5, <2>6, <2>7, PrefixElements
<1>10. ~IsPrefix(p, r) /\ ~IsPrefix(r, p)
  <2>1. IsPrefix(p, p) /\ IsPrefix(r, r)
    BY PrefixReflexive
  <2>2. QED
    BY <1>1, <1>2, <1>4, <1>7, <1>8, <1>9, <2>1
<1>11. ASSUME NEW s \in Seq(Changes), Len(s) > 0, IsPrefix(s, p), IsPrefix(s, r)
       PROVE  IsPrefix(s, Classify(IDs(p), IDs(r)).ancestor)
  <2>1. Len(s) \in Nat /\ Len(s) <= k /\ IsPrefix(s, IDs(p)[k])
    BY <1>9, <1>11
  <2>2. k # 0
    BY <1>4, <1>11, <2>1
  <2>3. QED
    BY <1>6, <2>1, <2>2
<1>12. QED
  BY <1>6, <1>10, <1>11 DEF ForkGood

(* The opened directory stays the one that was opened, and its history     *)
(* only goes on.                                                           *)
LEMMA OpenedGoesOn ==
  ASSUME ReaderInv, scenario \in Scenarios, [Next]_vars, opened # None
  PROVE  /\ opened' = opened /\ ref[opened] \in Seq(Changes)
         /\ \A s \in Seq(Changes) : IsPrefix(s, ref[opened]) => IsPrefix(s, ref'[opened])
<1>1. ref \in [Dirs -> Seq(Changes)] /\ opened \in Dirs /\ reader # "new" /\ linked \subseteq Dirs
  BY DEF ReaderInv, ReaderTypes, ReaderTypeOK, RootInv
<1>2. CASE AdvanceStep
  <2>1. PICK x \in Changes : \E d \in linked : Advance(d, x)
    BY <1>2 DEF AdvanceStep
  <2>2. PICK d \in linked : Advance(d, x)
    BY <2>1
  <2>3. opened' = opened /\ (ref'[opened] = ref[opened] \/ ref'[opened] = Append(ref[opened], x))
    BY <1>1, <2>2 DEF Advance, root
  <2>4. ASSUME NEW s \in Seq(Changes), IsPrefix(s, ref[opened]) PROVE IsPrefix(s, ref'[opened])
    BY <1>1, <2>3, <2>4, PrefixAppend
  <2>5. QED
    BY <1>1, <2>3, <2>4
<1>3. CASE RootStep
  BY <1>1, <1>3 DEF RootStep, NewOpen, NewCompare, CloseLock, CloseHandle
<1>4. ASSUME NEW c \in Calls, CallStep(c) PROVE UNCHANGED << opened, ref >>
  BY <1>4, CallStepMoves DEF ReaderInv, root
<1>5. CASE OthersStep
  BY <1>1, <1>5 DEF OthersStep, MoveAway, MoveIn, Create, Tamper, Moving, root
<1>6. CASE UNCHANGED readerVars
  BY <1>1, <1>6 DEF readerVars, root
<1>7. QED
  BY <1>1, <1>2, <1>3, <1>4, <1>5, <1>6, ReaderFrame DEF ReaderMoves

(* The heads of a fork case stay in the histories they were taken from.    *)
ForkInv ==
  fork # None =>
    /\ ForkGood(fork.fork)
    /\ IsPrefix(fork.fork.headA, primary)
    /\ opened # None /\ IsPrefix(fork.fork.headB, ref[opened])

LEMMA ForkFrame ==
  ASSUME [Next]_vars PROVE OpenCase \/ ResolveCase \/ UNCHANGED fork
<1>1. CASE ReaderStep
  BY <1>1 DEF ReaderStep
<1>2. CASE \E c \in Calls : Prove(c) \/ ReplayStep(c)
  BY <1>2 DEF Prove, ReplayStep
<1>3. CASE Coordinate
  BY <1>3 DEF Coordinate, BaselineDone, WorkersDone, MonitorDone, Settle, RunBegin
<1>4. CASE \E w \in Workers : Work(w)
  BY <1>4 DEF Work, WorkerCall, WorkerCancelled, WorkerCompares
<1>5. CASE Environment
  BY <1>5 DEF Environment, Cancel, Capture, PrimaryAdvances
<1>6. CASE UNCHANGED vars
  BY <1>6 DEF vars
<1>7. QED
  BY <1>1, <1>2, <1>3, <1>4, <1>5, <1>6 DEF Next, Step, Sample, VerifyBegin, VerifyEnd

LEMMA ForkKept ==
  ASSUME ReaderInv, RestoreTypes, scenario \in Scenarios, ForkInv, [Next]_vars PROVE ForkInv'
<1>1. CASE OpenCase
  <2>1. /\ opened # None /\ ForkRequired(IDs(primary), IDs(ref[opened]))
        /\ fork' = OpenForkCase(IDs(primary), IDs(ref[opened]))
        /\ UNCHANGED << opened, ref, primary >>
    BY <1>1 DEF OpenCase, readerVars, root, restores
  <2>2. primary \in Seq(Changes) /\ ref[opened] \in Seq(Changes)
    BY <2>1 DEF RestoreTypes, ReaderInv, ReaderTypes, ReaderTypeOK
  <2>3. fork'.fork = Classify(IDs(primary), IDs(ref[opened]))
    BY <2>1 DEF OpenForkCase
  <2>4. ForkGood(fork'.fork) /\ fork'.fork.headA = primary /\ fork'.fork.headB = ref[opened]
    BY <2>1, <2>2, <2>3, ClassifyGood
  <2>5. ForkGood(fork.fork)' 
    BY <2>4 DEF ForkGood
  <2>6. QED
    BY <2>1, <2>2, <2>4, <2>5, PrefixReflexive DEF ForkInv
<1>2. ASSUME fork # None, fork'.fork = fork.fork PROVE ForkInv'
  <2>1. ForkGood(fork.fork) /\ IsPrefix(fork.fork.headA, primary) /\ opened # None
        /\ IsPrefix(fork.fork.headB, ref[opened])
    BY <1>2 DEF ForkInv
  <2>2. fork.fork.headA \in Seq(Changes) /\ fork.fork.headB \in Seq(Changes)
    BY <2>1 DEF ForkGood
  <2>3. opened' = opened /\ IsPrefix(fork.fork.headB, ref'[opened])
    BY <2>1, <2>2, OpenedGoesOn
  <2>4. \A s \in Seq(Changes) : IsPrefix(s, primary) => IsPrefix(s, primary')
    <3>1. CASE UNCHANGED primary
      BY <3>1
    <3>2. ASSUME NEW x \in Changes, PrimaryAdvances(x)
          PROVE  \A s \in Seq(Changes) : IsPrefix(s, primary) => IsPrefix(s, primary')
      BY <3>2, PrefixAppend DEF PrimaryAdvances, RestoreTypes
    <3>3. QED
      BY <3>1, <3>2, RestoreFrame DEF RestoreMoves, Capture, VerifyBegin, VerifyEnd, restores
  <2>5. ForkGood(fork.fork)'
    BY <1>2, <2>1 DEF ForkGood
  <2>6. QED
    BY <1>2, <2>1, <2>2, <2>3, <2>4, <2>5 DEF ForkInv
<1>3. CASE ResolveCase
  <2>1. fork # None /\ fork'.fork = fork.fork
    BY <1>3 DEF ResolveCase
  <2>2. QED
    BY <1>2, <2>1
<1>4. CASE UNCHANGED fork
  BY <1>2, <1>4 DEF ForkInv
<1>5. QED
  BY <1>1, <1>3, <1>4, ForkFrame

LEMMA ForkInvariant == Spec => []ForkInv
<1>1. Init => ForkInv
  BY DEF Init, ForkInv
<1>2. QED
  BY <1>1, ForkKept, ReaderInvariant, TypesInvariant, PTL DEF Spec

(* After an equivalent restore a fork case exists only where both sides    *)
(* went on from all that was captured (OpenForkCase).                      *)
THEOREM ForksMeanSplit == Spec => []ForkMeansSplit
<1>1. ReaderInv /\ RestoreTypes /\ RestoreInv /\ RestoreTrue /\ ForkInv => ForkMeansSplit
  <2> SUFFICES ASSUME ReaderInv, RestoreTypes, RestoreInv, RestoreTrue, ForkInv, fork # None,
                      restore = "equivalent", ~raced[Base]
               PROVE  /\ IsPrefix(original, fork.fork.ancestor)
                      /\ Len(fork.fork.headA) > Len(original)
                      /\ Len(fork.fork.headB) > Len(original)
    BY DEF ForkMeansSplit
  <2> DEFINE a == fork.fork.headA
             b == fork.fork.headB
             r == ref[opened]
  <2>1. original \in Seq(Changes) /\ Len(original) > 0 /\ IsPrefix(original, primary) /\ IsPrefix(original, r)
    BY DEF RestoreInv, RestoreTrue
  <2>2. /\ a \in Seq(Changes) /\ b \in Seq(Changes) /\ ~IsPrefix(a, b) /\ ~IsPrefix(b, a)
        /\ IsPrefix(a, primary) /\ IsPrefix(b, r)
        /\ \A s \in Seq(Changes) :
             Len(s) > 0 /\ IsPrefix(s, a) /\ IsPrefix(s, b) => IsPrefix(s, fork.fork.ancestor)
    BY DEF ForkInv, ForkGood
  <2>3. primary \in Seq(Changes) /\ r \in Seq(Changes)
    BY DEF ForkInv, RestoreTypes, ReaderInv, ReaderTypes, ReaderTypeOK
  <2> HIDE DEF a, b, r
  <2>4. Len(original) < Len(a)
    <3> SUFFICES ASSUME Len(a) <= Len(original) PROVE FALSE
      BY <2>1, <2>2
    <3>1. IsPrefix(a, original)
      BY <2>1, <2>2, <2>3, PrefixesCompare
    <3>2. IsPrefix(a, r)
      BY <2>1, <2>2, <2>3, <3>1, PrefixTransitive
    <3>3. Len(a) <= Len(b) \/ Len(b) <= Len(a)
      BY <2>2
    <3>4. QED
      BY <2>2, <2>3, <3>2, <3>3, PrefixesCompare
  <2>5. Len(original) < Len(b)
    <3> SUFFICES ASSUME Len(b) <= Len(original) PROVE FALSE
      BY <2>1, <2>2
    <3>1. IsPrefix(b, original)
      BY <2>1, <2>2, <2>3, PrefixesCompare
    <3>2. IsPrefix(b, primary)
      BY <2>1, <2>2, <2>3, <3>1, PrefixTransitive
    <3>3. Len(a) <= Len(b) \/ Len(b) <= Len(a)
      BY <2>2
    <3>4. QED
      BY <2>2, <2>3, <3>2, <3>3, PrefixesCompare
  <2>6. IsPrefix(original, a) /\ IsPrefix(original, b)
    BY <2>1, <2>2, <2>3, <2>4, <2>5, PrefixesCompare
  <2>7. QED
    BY <2>1, <2>2, <2>4, <2>5, <2>6 DEF a, b
<1>2. QED
  BY <1>1, RestoresTrue, ReaderInvariant, TypesInvariant, RestoreInvariant, ForkInvariant, PTL

-----------------------------------------------------------------------------
(* The load proof.                                                         *)

(* A worker has compared a proof with the baseline and counts it.          *)
Counts(w) ==
  /\ head[w] = baseline
  /\ completed' = completed + 1
  /\ iter' = [iter EXCEPT ![w] = @ + 1]
  /\ ops' = ops \cup {<< w, iter[w], baseline >>}
  /\ UNCHANGED << run, envelope, baseline, before, peak, after, gap, firstErr, seen >>

LoadMoves ==
  \/ BaselineDone \/ WorkersDone
  \/ \E s \in Snapshots : \/ Sample(s) \/ MonitorDone(s) \/ Settle(s)
                          \/ \E e \in Envelopes : RunBegin(e, s)
  \/ \E w \in Workers : Working(w) /\ (WorkerLeaves(w) \/ Counts(w))

(* All of the load proof but the context, which is only read.              *)
proofState == << run, envelope, baseline, before, peak, after, gap, iter, completed, firstErr,
                 ops, seen >>

LEMMA LoadFrame ==
  ASSUME [Next]_vars PROVE LoadMoves \/ UNCHANGED proofState
<1> USE DEF proofState
<1>1. CASE ReaderStep
  BY <1>1 DEF ReaderStep, load
<1>2. CASE \E c \in Calls : Prove(c) \/ ReplayStep(c)
  BY <1>2 DEF Prove, ReplayStep, load
<1>3. CASE Coordinate
  BY <1>3 DEF Coordinate, LoadMoves
<1>4. ASSUME NEW w \in Workers, Work(w) PROVE LoadMoves \/ UNCHANGED proofState
  <2>1. CASE WorkerCall(w)
    BY <2>1 DEF WorkerCall, load
  <2>2. CASE WorkerCancelled(w)
    BY <2>2 DEF WorkerCancelled, LoadMoves
  <2>3. CASE WorkerCompares(w)
    <3>1. Working(w) /\ (WorkerLeaves(w) \/ Counts(w))
      BY <2>3 DEF WorkerCompares, Counts, Count, Reproduces
    <3>2. QED
      BY <3>1 DEF LoadMoves
  <2>4. QED
    BY <1>4, <2>1, <2>2, <2>3 DEF Work
<1>5. CASE \E s \in Snapshots : Sample(s)
  BY <1>5 DEF LoadMoves
<1>6. CASE Environment
  BY <1>6 DEF Environment, Cancel, Capture, OpenCase, ResolveCase, PrimaryAdvances, load
<1>7. CASE UNCHANGED vars
  BY <1>7 DEF vars, load
<1>8. QED
  BY <1>1, <1>2, <1>3, <1>4, <1>5, <1>6, <1>7 DEF Next, Step, VerifyBegin, VerifyEnd, load

Ended   == {"draining", "settling"} \cup Verdicts   \* every worker has returned
Started == {"working"} \cup Ended

Validated(e) == e \in Envelopes /\ ValidEnvelope(e)

(* What was carried out, as far as each worker got.                        *)
OpsInv ==
  IF run \notin Started
  THEN ops = {} /\ completed = 0 /\ firstErr = FALSE /\ iter = [w \in Workers |-> 0]
  ELSE /\ IsFiniteSet(ops) /\ completed = Cardinality(ops)
       /\ ops \subseteq envelope.workers \X (0..(envelope.iterations - 1)) \X {baseline}
       /\ \A w \in envelope.workers : \A i \in 0..(envelope.iterations - 1) :
            iter[w] # None => (<< w, i, baseline >> \in ops <=> i < iter[w])
       /\ \A w \in envelope.workers : iter[w] = None =>
            \E i \in 0..(envelope.iterations - 1) : << w, i, baseline >> \notin ops
       /\ firstErr <=> \E w \in envelope.workers : iter[w] = None

DeclaredInv ==
  /\ run \in Started => Validated(envelope)
  /\ run \in Ended => \A w \in envelope.workers : iter[w] \in {None, envelope.iterations}

LEMMA WorkingFacts ==
  ASSUME LoadTypes, DeclaredInv, NEW w \in Workers, Working(w)
  PROVE  /\ run = "working" /\ run \in Started /\ run \notin Ended /\ Validated(envelope)
         /\ envelope.iterations \in Nat /\ w \in envelope.workers /\ envelope.workers \subseteq Workers
         /\ iter[w] \in 0..(envelope.iterations - 1) /\ iter[w] \in Nat /\ iter[w] # None
         /\ iter \in [Workers -> Nat \cup {None}]
<1>1. run = "working" /\ run \in Started /\ run \notin Ended
  BY DEF Working, Started, Ended, Verdicts
<1>2. Validated(envelope)
  BY <1>1 DEF DeclaredInv
<1>3. envelope.iterations \in Nat /\ envelope.workers \subseteq Workers
  BY <1>2, EnvelopeAssumption DEF Validated, ValidEnvelope
<1>4. w \in envelope.workers /\ iter[w] \in 0..(envelope.iterations - 1)
  BY DEF Working
<1>5. iter[w] \in Nat /\ iter[w] # None
  BY <1>3, <1>4, NoneAssumption
<1>6. QED
  BY <1>1, <1>2, <1>3, <1>4, <1>5 DEF LoadTypes

LEMMA WorkerLeavesKeeps ==
  ASSUME LoadTypes, DeclaredInv, OpsInv, NEW w \in Workers, Working(w), WorkerLeaves(w)
  PROVE  DeclaredInv' /\ OpsInv'
<1>1. /\ run = "working" /\ run \in Started /\ run \notin Ended /\ Validated(envelope)
      /\ envelope.iterations \in Nat /\ w \in envelope.workers /\ envelope.workers \subseteq Workers
      /\ iter[w] \in 0..(envelope.iterations - 1) /\ iter[w] \in Nat /\ iter[w] # None
      /\ iter \in [Workers -> Nat \cup {None}]
  BY WorkingFacts
<1>2. /\ UNCHANGED << run, envelope, baseline, completed, ops >> /\ firstErr' = TRUE
      /\ iter' = [iter EXCEPT ![w] = None]
  BY DEF WorkerLeaves
<1>3. DeclaredInv'
  BY <1>1, <1>2 DEF DeclaredInv, Validated, ValidEnvelope
<1>4. iter'[w] = None /\ \A v \in envelope.workers \ {w} : iter'[v] = iter[v]
  BY <1>1, <1>2
<1>5. << w, iter[w], baseline >> \notin ops
  BY <1>1 DEF OpsInv
<1>6. \A v \in envelope.workers : iter'[v] = None =>
        \E i \in 0..(envelope.iterations - 1) : << v, i, baseline >> \notin ops
  BY <1>1, <1>4, <1>5 DEF OpsInv
<1>7. \A v \in envelope.workers : \A i \in 0..(envelope.iterations - 1) :
        iter'[v] # None => (<< v, i, baseline >> \in ops <=> i < iter'[v])
  BY <1>1, <1>4 DEF OpsInv
<1>8. QED
  BY <1>1, <1>2, <1>3, <1>4, <1>6, <1>7 DEF OpsInv

LEMMA CountsKeeps ==
  ASSUME LoadTypes, DeclaredInv, OpsInv, NEW w \in Workers, Working(w), Counts(w)
  PROVE  DeclaredInv' /\ OpsInv'
<1>1. /\ run = "working" /\ run \in Started /\ run \notin Ended /\ Validated(envelope)
      /\ envelope.iterations \in Nat /\ w \in envelope.workers /\ envelope.workers \subseteq Workers
      /\ iter[w] \in 0..(envelope.iterations - 1) /\ iter[w] \in Nat /\ iter[w] # None
      /\ iter \in [Workers -> Nat \cup {None}]
  BY WorkingFacts
<1> DEFINE op == << w, iter[w], baseline >>
<1>2. /\ UNCHANGED << run, envelope, baseline, firstErr >> /\ completed' = completed + 1
      /\ iter' = [iter EXCEPT ![w] = @ + 1] /\ ops' = ops \cup {op}
  BY DEF Counts
<1>3. DeclaredInv'
  BY <1>1, <1>2 DEF DeclaredInv, Validated, ValidEnvelope
<1>4. iter'[w] = iter[w] + 1 /\ iter'[w] # None /\ \A v \in envelope.workers \ {w} : iter'[v] = iter[v]
  BY <1>1, <1>2, NoneAssumption
<1>5. op \notin ops /\ IsFiniteSet(ops) /\ completed = Cardinality(ops)
  BY <1>1 DEF OpsInv
<1>6. IsFiniteSet(ops') /\ completed' = Cardinality(ops')
  BY <1>2, <1>5, FS_AddElement
<1>7. ops' \subseteq envelope.workers \X (0..(envelope.iterations - 1)) \X {baseline}
  BY <1>1, <1>2 DEF OpsInv
<1>8. ASSUME NEW v \in envelope.workers, NEW i \in 0..(envelope.iterations - 1), iter'[v] # None
      PROVE  << v, i, baseline >> \in ops' <=> i < iter'[v]
  <2>1. CASE v # w
    <3>1. << v, i, baseline >> # op
      BY <2>1
    <3>2. QED
      BY <1>1, <1>2, <1>4, <1>8, <2>1, <3>1 DEF OpsInv
  <2>2. CASE v = w /\ i = iter[w]
    BY <1>1, <1>2, <1>4, <2>2
  <2>3. CASE v = w /\ i # iter[w]
    <3>1. << v, i, baseline >> # op
      BY <2>3
    <3>2. << v, i, baseline >> \in ops <=> i < iter[w]
      BY <1>1, <2>3 DEF OpsInv
    <3>3. QED
      BY <1>1, <1>2, <1>4, <2>3, <3>1, <3>2
  <2>4. QED
    BY <2>1, <2>2, <2>3
<1>9. ASSUME NEW v \in envelope.workers, iter'[v] = None
      PROVE  \E i \in 0..(envelope.iterations - 1) : << v, i, baseline >> \notin ops'
  <2>1. v # w /\ iter[v] = None
    BY <1>4, <1>9
  <2>2. PICK i \in 0..(envelope.iterations - 1) : << v, i, baseline >> \notin ops
    BY <1>1, <2>1 DEF OpsInv
  <2>3. << v, i, baseline >> # op
    BY <2>1
  <2>4. QED
    BY <1>2, <2>2, <2>3
<1>10. firstErr <=> \E v \in envelope.workers : iter'[v] = None
  BY <1>1, <1>4 DEF OpsInv
<1>11. QED
  BY <1>1, <1>2, <1>3, <1>6, <1>7, <1>8, <1>9, <1>10 DEF OpsInv

LEMMA OpsKept ==
  ASSUME LoadTypes, DeclaredInv, OpsInv, [Next]_vars PROVE DeclaredInv' /\ OpsInv'
<1>1. CASE UNCHANGED proofState
  BY <1>1 DEF proofState, DeclaredInv, OpsInv, Validated, ValidEnvelope
<1>2. ASSUME NEW w \in Workers, Working(w), WorkerLeaves(w) \/ Counts(w) PROVE DeclaredInv' /\ OpsInv'
  BY <1>2, WorkerLeavesKeeps, CountsKeeps
<1>3. ASSUME run \notin Started, run' \notin Started, UNCHANGED << ops, completed, firstErr, iter >>
      PROVE  DeclaredInv' /\ OpsInv'
  BY <1>3 DEF DeclaredInv, OpsInv, Started
<1>4. ASSUME run \in Started, run' \in Started, run \in Ended \/ run' \notin Ended,
             UNCHANGED << envelope, baseline, ops, completed, firstErr, iter >>
      PROVE  DeclaredInv' /\ OpsInv'
  BY <1>4 DEF DeclaredInv, OpsInv, Validated, ValidEnvelope
<1>5. CASE BaselineDone
  BY <1>3, <1>5 DEF BaselineDone, Started, Ended, Verdicts
<1>6. CASE WorkersDone
  <2>1. /\ UNCHANGED << envelope, baseline, ops, completed, firstErr, iter >>
        /\ run \in Started /\ run' \in Started
        /\ \A w \in envelope.workers : iter[w] \in {None, envelope.iterations}
    BY <1>6 DEF WorkersDone, Started, Ended
  <2>2. QED
    BY <2>1 DEF DeclaredInv, OpsInv, Validated, ValidEnvelope
<1>7. ASSUME NEW s \in Snapshots, Sample(s) PROVE DeclaredInv' /\ OpsInv'
  <2>1. run \in Started /\ run' = run /\ UNCHANGED << envelope, baseline, ops, completed, firstErr, iter >>
    BY <1>7 DEF Sample, Started, Ended
  <2>2. QED
    BY <1>4, <2>1
<1>8. ASSUME NEW s \in Snapshots, MonitorDone(s) PROVE DeclaredInv' /\ OpsInv'
  BY <1>4, <1>8 DEF MonitorDone, Started, Ended
<1>9. ASSUME NEW s \in Snapshots, Settle(s) PROVE DeclaredInv' /\ OpsInv'
  <2>1. run' \in Verdicts /\ run \in Ended /\ UNCHANGED << envelope, baseline, ops, completed, firstErr, iter >>
    BY <1>9 DEF Settle, Verdicts, Ended
  <2>2. QED
    BY <1>4, <2>1 DEF Started, Ended
<1>10. ASSUME NEW s \in Snapshots, NEW e \in Envelopes, RunBegin(e, s) PROVE DeclaredInv' /\ OpsInv'
  <2>1. run \notin Started /\ UNCHANGED << baseline, ops, completed, firstErr, iter >> /\ envelope' = e
    BY <1>10 DEF RunBegin, Started, Ended, Verdicts
  <2>2. CASE run' \notin Started
    BY <1>3, <2>1, <2>2
  <2>3. CASE run' \in Started
    <3>1. run' = "working" /\ ValidEnvelope(e)
      BY <1>10, <2>3 DEF RunBegin, Started, Ended, Verdicts
    <3>2. run' \notin Ended
      BY <3>1 DEF Ended, Verdicts
    <3>3. Validated(envelope)'
      BY <2>1, <3>1 DEF Validated, ValidEnvelope
    <3>4. /\ ops' = {} /\ completed' = 0 /\ firstErr' = FALSE /\ iter' = [w \in Workers |-> 0]
          /\ e.workers \subseteq Workers /\ e.iterations \in Nat
      BY <2>1, <3>1, EnvelopeAssumption DEF OpsInv, ValidEnvelope
    <3>5. IsFiniteSet({}) /\ Cardinality({}) = 0
      BY FS_EmptySet
    <3>6. \A w \in e.workers : iter'[w] = 0 /\ iter'[w] # None
      BY <3>4, NoneAssumption
    <3>7. OpsInv'
      BY <2>1, <2>3, <3>4, <3>5, <3>6 DEF OpsInv
    <3>8. QED
      BY <3>2, <3>3, <3>7 DEF DeclaredInv
  <2>4. QED
    BY <2>2, <2>3
<1>11. QED
  BY <1>1, <1>2, <1>5, <1>6, <1>7, <1>8, <1>9, <1>10, LoadFrame DEF LoadMoves

(* The peak, and whether a sample lacked the metric, are exact.            *)
PeakGood(S, p, missing) ==
  /\ p.use \in Nat /\ p.handles \in Nat /\ p.available \in BOOLEAN
  /\ missing <=> \E s \in S : ~s.available
  /\ \A s \in S : s.use <= p.use
  /\ \E s \in S : s.use = p.use
  /\ p.available <=> \E s \in S : s.available
  /\ p.available =>
       /\ \A s \in S : s.available => s.handles <= p.handles
       /\ \E s \in S : s.available /\ s.handles = p.handles

PeakInv ==
  run \in Started =>
    /\ seen \subseteq Snapshots /\ before \in seen
    /\ PeakGood(seen, peak, gap)

LEMMA UpdatePeakGood ==
  ASSUME seen \subseteq Snapshots, PeakGood(seen, peak, gap), NEW s \in Snapshots, UpdatePeak(s)
  PROVE  seen' = seen \cup {s} /\ seen' \subseteq Snapshots /\ PeakGood(seen', peak', gap')
<1>1. s.use \in Nat /\ s.handles \in Nat /\ s.available \in BOOLEAN
  BY SnapshotAssumption
<1>2. \A t \in seen : t.use \in Nat /\ t.handles \in Nat /\ t.available \in BOOLEAN
  BY SnapshotAssumption
<1>3. seen' = seen \cup {s}
  BY DEF UpdatePeak
<1>4. peak'.use = IF s.use > peak.use THEN s.use ELSE peak.use
  BY DEF UpdatePeak
<1>5. peak'.handles = IF s.available /\ (~peak.available \/ s.handles > peak.handles)
                      THEN s.handles ELSE peak.handles
  BY DEF UpdatePeak
<1>6. peak'.available = (peak.available \/ s.available) /\ gap' = (gap \/ ~s.available)
  BY DEF UpdatePeak
<1>7. peak'.use \in Nat /\ peak'.handles \in Nat /\ peak'.available \in BOOLEAN
  BY <1>1, <1>4, <1>5, <1>6 DEF PeakGood
<1>8. gap' <=> \E t \in seen' : ~t.available
  BY <1>3, <1>6 DEF PeakGood
<1>9. (\A t \in seen' : t.use <= peak'.use) /\ (\E t \in seen' : t.use = peak'.use)
  BY <1>1, <1>2, <1>3, <1>4 DEF PeakGood
<1>10. peak'.available <=> \E t \in seen' : t.available
  BY <1>3, <1>6 DEF PeakGood
<1>11. ASSUME peak'.available
       PROVE  /\ \A t \in seen' : t.available => t.handles <= peak'.handles
              /\ \E t \in seen' : t.available /\ t.handles = peak'.handles
  <2>1. CASE peak.available
    BY <1>1, <1>2, <1>3, <1>5, <2>1 DEF PeakGood
  <2>2. CASE ~peak.available
    <3>1. s.available /\ peak'.handles = s.handles
      BY <1>5, <1>6, <1>11, <2>2
    <3>2. \A t \in seen : ~t.available
      BY <2>2 DEF PeakGood
    <3>3. QED
      BY <1>1, <1>3, <3>1, <3>2
  <2>3. QED
    BY <2>1, <2>2
<1>12. QED
  BY <1>3, <1>7, <1>8, <1>9, <1>10, <1>11 DEF PeakGood

LEMMA PeakKept ==
  ASSUME LoadTypes, PeakInv, [Next]_vars PROVE PeakInv'
<1>1. ASSUME run' \notin Started \/ run \in Started, UNCHANGED << seen, before, peak, gap >> PROVE PeakInv'
  BY <1>1 DEF PeakInv, PeakGood
<1>2. ASSUME run \in Started, NEW s \in Snapshots, UpdatePeak(s), UNCHANGED before PROVE PeakInv'
  BY <1>2, UpdatePeakGood DEF PeakInv
<1>3. CASE UNCHANGED proofState
  BY <1>1, <1>3 DEF proofState
<1>4. ASSUME NEW w \in Workers, WorkerLeaves(w) \/ Counts(w) PROVE PeakInv'
  BY <1>1, <1>4 DEF WorkerLeaves, Counts
<1>5. CASE BaselineDone \/ WorkersDone
  BY <1>1, <1>5 DEF BaselineDone, WorkersDone, Started, Ended, Verdicts
<1>6. ASSUME NEW s \in Snapshots, Sample(s) \/ MonitorDone(s) \/ Settle(s) PROVE PeakInv'
  BY <1>2, <1>6 DEF Sample, MonitorDone, Settle, Started, Ended
<1>7. ASSUME NEW s \in Snapshots, NEW e \in Envelopes, RunBegin(e, s) PROVE PeakInv'
  <2>1. before' = s /\ peak' = s /\ gap' = ~s.available /\ seen' = {s}
    BY <1>7 DEF RunBegin
  <2>2. s.use \in Nat /\ s.handles \in Nat /\ s.available \in BOOLEAN
    BY SnapshotAssumption
  <2>3. PeakGood(seen', peak', gap')
    <3>1. (~s.available) <=> \E t \in {s} : ~t.available
      BY Zenon
    <3>2. s.available <=> \E t \in {s} : t.available
      BY Zenon
    <3>3. /\ \A t \in {s} : t.use <= s.use
          /\ \E t \in {s} : t.use = s.use
          /\ \A t \in {s} : t.available => t.handles <= s.handles
      BY <2>2
    <3>4. s.available => \E t \in {s} : t.available /\ t.handles = s.handles
      BY Zenon
    <3>5. PeakGood({s}, s, ~s.available)
      BY <2>2, <3>1, <3>2, <3>3, <3>4, Zenon DEF PeakGood
    <3>6. QED
      BY <2>1, <3>5
  <2>4. QED
    BY <2>1, <2>3 DEF PeakInv
<1>8. QED
  BY <1>3, <1>4, <1>5, <1>6, <1>7, LoadFrame DEF LoadMoves

(* evaluate judges every sample, although it only sees the peak.           *)
Within(S, b, a, e) ==
  /\ e.required => \A s \in S : s.available
  /\ \A s \in S : s.use <= b.use + e.peakUse
  /\ a.use <= b.use + e.settledUse
  /\ b.available /\ a.available =>
       /\ \A s \in S : s.available => s.handles <= b.handles + e.peakHandles
       /\ a.handles <= b.handles + e.settledHandles

LEMMA EvaluateExact ==
  ASSUME NEW e \in Envelopes, NEW S \in SUBSET Snapshots, NEW a \in S, NEW b \in S,
         NEW p, NEW missing, PeakGood(S, p, missing)
  PROVE  evaluate(e, b, p, a, missing) <=> Within(S, b, a, e)
<1>1. \A s \in S : s.use \in Nat /\ s.handles \in Nat /\ s.available \in BOOLEAN
  BY SnapshotAssumption
<1>2. /\ e.peakUse \in Nat /\ e.settledUse \in Nat /\ e.peakHandles \in Nat
      /\ e.settledHandles \in Nat /\ e.required \in BOOLEAN
  BY EnvelopeAssumption
<1>3. (\A s \in S : s.use <= b.use + e.peakUse) <=> p.use <= b.use + e.peakUse
  BY <1>1, <1>2 DEF PeakGood
<1>4. ASSUME p.available
      PROVE  (\A s \in S : s.available => s.handles <= b.handles + e.peakHandles)
               <=> p.handles <= b.handles + e.peakHandles
  BY <1>1, <1>2, <1>4 DEF PeakGood
<1>5. (\A s \in S : s.available) <=> ~missing /\ b.available /\ p.available /\ a.available
  BY <1>1 DEF PeakGood
<1>6. b.available => p.available
  BY DEF PeakGood
<1>7. evaluate(e, b, p, a, missing) <=>
        /\ e.required => ~missing /\ b.available /\ p.available /\ a.available
        /\ p.use <= b.use + e.peakUse /\ a.use <= b.use + e.settledUse
        /\ b.available /\ p.available /\ a.available =>
             /\ p.handles <= b.handles + e.peakHandles
             /\ a.handles <= b.handles + e.settledHandles
  BY DEF evaluate, WithinGrowth
<1>8. QED
  BY <1>3, <1>4, <1>5, <1>6, <1>7 DEF Within

(* The operations of a load proof are as many as declared.                 *)
LEMMA OperationsCounted ==
  ASSUME NEW W, IsFiniteSet(W), NEW n \in Nat, NEW b
  PROVE  LET all == W \X (0..(n - 1)) \X {b}
         IN  IsFiniteSet(all) /\ Cardinality(all) = Cardinality(W) * n
<1> DEFINE pairs == W \X (0..(n - 1))
           all == W \X (0..(n - 1)) \X {b}
           f == [x \in pairs |-> << x[1], x[2], b >>]
<1>1. IsFiniteSet(0..(n - 1)) /\ Cardinality(0..(n - 1)) = n
  BY FS_Interval
<1>2. IsFiniteSet(pairs) /\ Cardinality(pairs) = Cardinality(W) * n
  BY <1>1, FS_Product
<1>3. f \in [pairs -> all]
  OBVIOUS
<1>4. \A x, y \in pairs : f[x] = f[y] => x = y
  OBVIOUS
<1>5. \A t \in all : \E x \in pairs : f[x] = t
  <2> SUFFICES ASSUME NEW t \in all PROVE \E x \in pairs : f[x] = t
    OBVIOUS
  <2>1. t[1] \in W /\ t[2] \in 0..(n - 1) /\ t = << t[1], t[2], b >>
    OBVIOUS
  <2>2. << t[1], t[2] >> \in pairs /\ f[<< t[1], t[2] >>] = << t[1], t[2], b >>
    BY <2>1
  <2>3. QED
    BY <2>1, <2>2
<1> HIDE DEF pairs, all, f
<1>6. f \in Bijection(pairs, all)
  BY <1>3, <1>4, <1>5 DEF Bijection, Injection, Surjection, IsInjective
<1>7. ExistsBijection(pairs, all)
  BY <1>6 DEF ExistsBijection
<1>8. IsFiniteSet(all) /\ Cardinality(all) = Cardinality(pairs)
  BY <1>2, <1>7, FS_Bijection
<1>9. QED
  BY <1>2, <1>8 DEF all

(* Once every worker has returned, the counter and the error flag say      *)
(* whether every operation was carried out.                                *)
LEMMA WorkDone ==
  ASSUME LoadTypes, DeclaredInv, OpsInv, run \in Ended
  PROVE  ~firstErr /\ completed = Cardinality(envelope.workers) * envelope.iterations
           <=> ops = envelope.workers \X (0..(envelope.iterations - 1)) \X {baseline}
<1> DEFINE W == envelope.workers
           n == envelope.iterations
           all == W \X (0..(n - 1)) \X {baseline}
<1>1. run \in Started /\ Validated(envelope) /\ \A w \in W : iter[w] \in {None, n}
  BY DEF DeclaredInv, Started
<1>2. n \in Nat /\ n # 0 /\ W \subseteq Calls
  BY <1>1, EnvelopeAssumption DEF Validated, ValidEnvelope, Workers
<1>3. IsFiniteSet(W)
  BY <1>2, CallsAssumption, FS_Subset
<1>4. Cardinality(all) = Cardinality(W) * n
  BY <1>2, <1>3, OperationsCounted
<1>5. completed = Cardinality(ops) /\ ops \subseteq all
  BY <1>1 DEF OpsInv
<1>6. ASSUME ~firstErr PROVE ops = all
  <2>1. \A w \in W : iter[w] = n /\ iter[w] # None
    BY <1>1, <1>6 DEF OpsInv
  <2>2. \A w \in W : \A i \in 0..(n - 1) : << w, i, baseline >> \in ops
    BY <1>1, <1>2, <2>1 DEF OpsInv
  <2>3. all \subseteq ops
    BY <2>2
  <2>4. QED
    BY <1>5, <2>3
<1>7. ASSUME ops = all PROVE ~firstErr
  <2>1. \A w \in W : \A i \in 0..(n - 1) : << w, i, baseline >> \in ops
    BY <1>7
  <2>2. QED
    BY <1>1, <2>1 DEF OpsInv
<1>8. QED
  BY <1>4, <1>5, <1>6, <1>7

LEMMA SettleTrue ==
  ASSUME LoadTypes, DeclaredInv, OpsInv, PeakInv, NEW s \in Snapshots, Settle(s)
  PROVE  LoadVerdictTrue'
<1>1. /\ run = "settling" /\ UpdatePeak(s) /\ after' = s
      /\ UNCHANGED << envelope, baseline, before, ops >>
  BY DEF Settle
<1>2. run \in Ended /\ run \in Started
  BY <1>1 DEF Started, Ended
<1>3. envelope \in Envelopes /\ seen \subseteq Snapshots /\ before \in seen /\ PeakGood(seen, peak, gap)
  BY <1>2 DEF DeclaredInv, Validated, PeakInv
<1>4. seen' = seen \cup {s} /\ seen' \in SUBSET Snapshots /\ PeakGood(seen', peak', gap')
  BY <1>1, <1>3, UpdatePeakGood
<1>5. evaluate(envelope, before, peak', s, gap') <=> Within(seen', before, s, envelope)
  BY <1>3, <1>4, EvaluateExact
<1>6. run' = "passed" <=>
        /\ ~firstErr /\ completed = Cardinality(envelope.workers) * envelope.iterations
        /\ evaluate(envelope, before, peak', s, gap')
  BY DEF Settle
<1>7. run' = "passed" <=>
        /\ ops = envelope.workers \X (0..(envelope.iterations - 1)) \X {baseline}
        /\ Within(seen', before, s, envelope)
  BY <1>2, <1>5, <1>6, WorkDone
<1>8. QED
  BY <1>1, <1>7 DEF LoadVerdictTrue, Within

LEMMA VerdictKept ==
  ASSUME LoadTypes, DeclaredInv, OpsInv, PeakInv, LoadVerdictTrue, [Next]_vars
  PROVE  LoadVerdictTrue'
<1>1. ASSUME run' \notin Verdicts PROVE LoadVerdictTrue'
  BY <1>1 DEF LoadVerdictTrue
<1>2. CASE UNCHANGED proofState
  BY <1>2 DEF proofState, LoadVerdictTrue
<1>3. ASSUME NEW s \in Snapshots, Settle(s) PROVE LoadVerdictTrue'
  BY <1>3, SettleTrue
<1>4. CASE BaselineDone \/ WorkersDone
  BY <1>1, <1>4 DEF BaselineDone, WorkersDone, Verdicts
<1>5. ASSUME NEW s \in Snapshots, Sample(s) \/ MonitorDone(s) \/ \E e \in Envelopes : RunBegin(e, s)
      PROVE  LoadVerdictTrue'
  BY <1>1, <1>5 DEF Sample, MonitorDone, RunBegin, Verdicts
<1>6. ASSUME NEW w \in Workers, Working(w), WorkerLeaves(w) \/ Counts(w) PROVE LoadVerdictTrue'
  BY <1>1, <1>6 DEF Working, WorkerLeaves, Counts, Verdicts
<1>7. QED
  BY <1>2, <1>3, <1>4, <1>5, <1>6, LoadFrame DEF LoadMoves

(* The verdict of a load proof is exactly what happened: it passes if and  *)
(* only if every declared operation was carried out and reproduced the     *)
(* baseline and every sample was within its limits (Run, evaluate).        *)
THEOREM LoadVerdictsTrue == Spec => []LoadVerdictTrue
<1> DEFINE Inv == DeclaredInv /\ OpsInv /\ PeakInv /\ LoadVerdictTrue
<1>1. Init => Inv
  <2> SUFFICES ASSUME Init PROVE Inv
    OBVIOUS
  <2>1. run \notin Started /\ run \notin Ended /\ run \notin Verdicts
    BY DEF Init, Started, Ended, Verdicts
  <2>2. QED
    BY <2>1 DEF Init, DeclaredInv, OpsInv, PeakInv, LoadVerdictTrue
<1>2. LoadTypes /\ Inv /\ [Next]_vars => Inv'
  BY OpsKept, PeakKept, VerdictKept
<1>3. QED
  BY <1>1, <1>2, TypesInvariant, PTL DEF Spec
=============================================================================
