------------------------ MODULE QuarantineStoreProofs ------------------------
(***************************************************************************)
(* Proofs about QuarantineStore, for any number of publishers, sweepers    *)
(* and cleaners, any assignment of IDs and contents, and every scenario.   *)
(***************************************************************************)
EXTENDS QuarantineStore, TLAPS

-----------------------------------------------------------------------------
(* Type correctness.  The number of attempts stays within its bound only   *)
(* because an attempt starts where one is left.                            *)

TriesInv ==
  \A p \in Publishers :
    /\ pc[p] = "idle" => tries[p] = 0
    /\ pc[p] = "retry" => tries[p] < MaxTries
    /\ pc[p] \in {"write", "sync", "link"} => File(p) \in Files

TInv == TypeOK /\ TriesInv

LEMMA TypeInit == Init => TInv
PROOF
  <1> SUFFICES ASSUME Init PROVE TInv
    OBVIOUS
  <1>1. Sweepers \subseteq Procs /\ Publishers \subseteq Procs /\ 0 \in 0..MaxTries
    BY BoundsAssumption DEF Procs
  <1> QED
    BY <1>1 DEF Init, TInv, TypeOK, TriesInv, Labels, Results

(* A publisher's step moves the publisher, and no sweep.                   *)
LEMMA EnsureMoves ==
  ASSUME TInv, NEW p \in Publishers, Ensure(p)
  PROVE  /\ p \in Procs /\ p \notin Sweepers
         /\ \E l \in Labels \ {"idle"} :
              pc' = [pc EXCEPT ![p] = l] /\ (l = "retry" => tries'[p] < MaxTries)
         /\ UNCHANGED << list, at, due >>
         /\ \E r \in Results : result' = [result EXCEPT ![p] = r] \/ result' = result
PROOF
  <1> USE DEF Goto, Return, ReturnPut, sweep, Labels, Results
  <1>1. p \in Procs /\ p \notin Sweepers
    BY ProcsAssumption DEF Procs
  <1>2. CASE PutCreate(p) \/ PutWrite(p) \/ PutSync(p) \/ PutVerify(p)
    BY <1>1, <1>2 DEF PutCreate, PutWrite, PutSync, PutVerify
  <1>3. CASE PutLink(p) \/ PutDirSync(p) \/ EnsureSync(p)
    BY <1>1, <1>3 DEF PutLink, PutDirSync, EnsureSync
  <1>4. CASE EnsureRead(p) \/ EnsureReread(p)
    BY <1>1, <1>4 DEF EnsureRead, EnsureReread, RetryOrFail
  <1> QED
    BY <1>2, <1>3, <1>4 DEF Ensure

(* What a publisher's step does to its own attempt: only put starts one,   *)
(* with a file that no attempt had before; a publisher that holds no link  *)
(* yet has just started, stays without, or takes the free final name.      *)
LEMMA EnsureAttempts ==
  ASSUME TInv, NEW p \in Publishers, Ensure(p)
  PROVE  \/ /\ pc[p] \in {"idle", "retry"} /\ pc'[p] = "write"
            /\ tries[p] < MaxTries /\ tries' = [tries EXCEPT ![p] = @ + 1]
            /\ temps' = temps \cup {File(p)'}
         \/ /\ tries' = tries /\ temps' \subseteq temps
            /\ pc'[p] \notin {"idle", "write"}
            /\ pc'[p] = "sync" => pc[p] = "write"
            /\ pc'[p] = "link" => pc[p] = "sync"
PROOF
  <1> USE DEF Goto, Return, ReturnPut, RemovePrivate, files
  <1>1. p \in Procs /\ pc \in [Procs -> Labels] /\ tries \in [Publishers -> 0..MaxTries]
    BY EnsureMoves DEF TInv, TypeOK
  <1>2. CASE PutCreate(p)
    <2>1. tries[p] < MaxTries
      BY <1>1, <1>2, BoundsAssumption DEF PutCreate, TInv, TriesInv
    <2> QED
      BY <1>1, <1>2, <2>1 DEF PutCreate
  <1>3. CASE PutWrite(p) \/ PutSync(p) \/ PutVerify(p)
    BY <1>1, <1>3 DEF PutWrite, PutSync, PutVerify
  <1>4. CASE PutLink(p)
    BY <1>1, <1>4 DEF PutLink
  <1>5. CASE PutDirSync(p) \/ EnsureSync(p)
    BY <1>1, <1>5 DEF PutDirSync, EnsureSync
  <1>6. CASE EnsureRead(p) \/ EnsureReread(p)
    BY <1>1, <1>6 DEF EnsureRead, EnsureReread, RetryOrFail
  <1> QED
    BY <1>2, <1>3, <1>4, <1>5, <1>6 DEF Ensure

LEMMA EnsureType ==
  ASSUME TInv, NEW p \in Publishers, Ensure(p), UNCHANGED scenario
  PROVE  TInv'
PROOF
  <1> USE DEF Goto, Return, ReturnPut, files, sweep
  <1>1. PICK l \in Labels \ {"idle"} :
          pc' = [pc EXCEPT ![p] = l] /\ (l = "retry" => tries'[p] < MaxTries)
    BY EnsureMoves
  <1>2. /\ p \in Procs /\ p \notin Sweepers /\ id[p] \in Ids
        /\ MaxTries \in Nat /\ MaxTries > 0
    BY ProcsAssumption, BoundsAssumption DEF Procs
  <1>3. /\ pc' \in [Procs -> Labels] /\ result' \in [Procs -> Results]
        /\ UNCHANGED << list, at, due >>
        /\ \A s \in Sweepers : pc'[s] = pc[s]
    <2>1. pc \in [Procs -> Labels] /\ result \in [Procs -> Results]
      BY DEF TInv, TypeOK
    <2> QED
      BY <1>1, <1>2, <2>1, EnsureMoves DEF Procs
  <1>4. tries' \in [Publishers -> 0..MaxTries] /\ TriesInv' /\ temps' \subseteq Files
    <2>1. /\ \A q \in Publishers : pc[q] = "idle" => tries[q] = 0
          /\ \A q \in Publishers : pc[q] = "retry" => tries[q] < MaxTries
          /\ \A q \in Publishers : pc[q] \in {"write", "sync", "link"} => File(q) \in Files
          /\ tries \in [Publishers -> 0..MaxTries] /\ temps \subseteq Files
          /\ pc \in [Procs -> Labels] /\ Publishers \subseteq Procs
      BY DEF TInv, TriesInv, TypeOK, Procs
    <2>2. CASE /\ tries' = tries /\ temps' \subseteq temps
               /\ pc'[p] \notin {"idle", "write"}
               /\ pc'[p] = "sync" => pc[p] = "write"
               /\ pc'[p] = "link" => pc[p] = "sync"
      <3>1. \A q \in Publishers : File(q)' = File(q)
        BY <2>2 DEF File
      <3> QED
        BY <1>1, <1>2, <2>1, <2>2, <3>1 DEF TriesInv
    <2>3. CASE /\ tries[p] < MaxTries /\ tries' = [tries EXCEPT ![p] = @ + 1]
               /\ pc'[p] = "write" /\ temps' = temps \cup {File(p)'}
      <3>1. tries[p] \in 0..MaxTries /\ tries[p] + 1 \in 1..MaxTries
        BY <1>2, <2>1, <2>3
      <3>2. File(p)' \in Files
        BY <2>1, <2>3, <3>1 DEF File, Files
      <3>3. \A q \in Publishers \ {p} : File(q)' = File(q) /\ tries'[q] = tries[q]
        BY <2>1, <2>3 DEF File
      <3>4. tries' \in [Publishers -> 0..MaxTries]
        BY <1>2, <2>1, <2>3, <3>1
      <3> QED
        BY <1>1, <1>2, <2>1, <2>3, <3>2, <3>3, <3>4 DEF TriesInv
    <2> QED
      BY <2>2, <2>3, EnsureAttempts
  <1>5. /\ final' \in [Ids -> Files \cup {None}]
        /\ pending' \in [Ids -> SUBSET (Files \cup {None})]
        /\ written' \subseteq Files /\ synced' \subseteq Files /\ old' \subseteq Files
    <2>1. /\ final \in [Ids -> Files \cup {None}]
          /\ pending \in [Ids -> SUBSET (Files \cup {None})]
          /\ written \subseteq Files /\ synced \subseteq Files /\ old \subseteq Files
          /\ pc[p] \in {"write", "sync", "link"} => File(p) \in Files
      BY DEF TInv, TypeOK, TriesInv
    <2>2. CASE PutCreate(p) \/ PutWrite(p) \/ PutSync(p) \/ PutVerify(p)
      BY <1>2, <2>1, <2>2 DEF PutCreate, PutWrite, PutSync, PutVerify
    <2>3. CASE PutLink(p)
      BY <1>2, <2>1, <2>3 DEF PutLink, Link
    <2>4. CASE PutDirSync(p) \/ EnsureSync(p)
      BY <1>2, <2>1, <2>4 DEF PutDirSync, EnsureSync, syncRootDirectory
    <2>5. CASE EnsureRead(p) \/ EnsureReread(p)
      BY <1>2, <2>1, <2>5 DEF EnsureRead, EnsureReread
    <2> QED
      BY <2>2, <2>3, <2>4, <2>5 DEF Ensure
  <1> QED
    BY <1>3, <1>4, <1>5 DEF TInv, TypeOK

(* A sweep's step moves the sweep, and no publisher.                       *)
LEMMA SweepMoves ==
  ASSUME TInv, NEW s \in Sweepers, PruneBefore(s) \/ Remove(s)
  PROVE  /\ s \in Procs /\ s \notin Publishers
         /\ \E l \in Labels : pc' = [pc EXCEPT ![s] = l]
         /\ tries' = tries /\ UNCHANGED << written, synced, old >>
         /\ \E r \in Results : result' = [result EXCEPT ![s] = r] \/ result' = result
PROOF
  <1> USE DEF Goto, Return, files, sweep, Labels, Results
  <1>1. s \in Procs /\ s \notin Publishers /\ pc \in [Procs -> Labels]
    BY ProcsAssumption DEF Procs, TInv, TypeOK
  <1>2. CASE SweepList(s) \/ SweepEnd(s) \/ SweepFails(s)
    BY <1>1, <1>2 DEF SweepList, SweepEnd, SweepFails
  <1>3. CASE SweepStat(s)
    <2>1. pc = [pc EXCEPT ![s] = pc[s]]
      BY <1>1
    <2> QED
      BY <1>1, <1>3, <2>1 DEF SweepStat, SweepAborts
  <1>4. CASE SweepUnlink(s)
    BY <1>1, <1>4 DEF SweepUnlink, SweepAborts
  <1>5. CASE Remove(s)
    BY <1>1, <1>5 DEF Remove, RemoveStat, RemoveUnlink
  <1> QED
    BY <1>2, <1>3, <1>4, <1>5 DEF PruneBefore

(* What a sweep leaves of the directory.                                   *)
LEMMA UnlinkType ==
  ASSUME TypeOK, NEW n \in Names, Unlink(n)
  PROVE  /\ final' \in [Ids -> Files \cup {None}]
         /\ pending' \in [Ids -> SUBSET (Files \cup {None})]
         /\ temps' \subseteq temps
PROOF
  <1>1. CASE n.kind = "final"
    BY <1>1 DEF Unlink, TypeOK
  <1>2. CASE n.kind # "final"
    BY <1>2 DEF Unlink, TypeOK
  <1> QED
    BY <1>1, <1>2

LEMMA NamesApart ==
  ASSUME NEW n \in Names
  PROVE  \/ n.kind = "final" /\ n.of \in Ids
         \/ n.kind = "temp" /\ n.kind # "final" /\ n.of \in Files
PROOF
  BY DEF Names

(* A listed name is one, and leads to a file.                              *)
LEMMA ListedType ==
  ASSUME TypeOK, NEW n \in Listing
  PROVE  n \in Names /\ Inode(n) \in Files
PROOF
  BY NamesApart DEF TypeOK, Listing, Inode

LEMMA SweepType ==
  ASSUME TInv, NEW s \in Sweepers, PruneBefore(s), UNCHANGED scenario
  PROVE  TInv'
PROOF
  <1> USE DEF Goto, Return, files, sweep, EndSweep
  <1>1. PICK l \in Labels : pc' = [pc EXCEPT ![s] = l]
    BY SweepMoves
  <1>2. /\ s \in Procs /\ s \notin Publishers /\ Publishers \subseteq Procs
        /\ Listing \subseteq Names
    BY ProcsAssumption DEF Procs, Listing
  <1>3. /\ pc' \in [Procs -> Labels] /\ result' \in [Procs -> Results] /\ tries' = tries
        /\ UNCHANGED << written, synced, old >>
        /\ \A p \in Procs \ {s} : pc'[p] = pc[p]
    BY <1>1, <1>2, SweepMoves DEF TInv, TypeOK
  <1>4. TriesInv'
    BY <1>2, <1>3 DEF TInv, TriesInv, File
  <1>5. /\ final' \in [Ids -> Files \cup {None}]
        /\ pending' \in [Ids -> SUBSET (Files \cup {None})]
        /\ temps' \subseteq Files
    <2>1. CASE UNCHANGED << final, pending, temps >>
      BY <2>1 DEF TInv, TypeOK
    <2>2. CASE ~UNCHANGED << final, pending, temps >>
      <3>1. at[s] \in Listing /\ Unlink(at[s])
        BY <2>2 DEF PruneBefore, SweepList, SweepStat, SweepUnlink, SweepEnd,
                    SweepFails, SweepAborts
      <3> QED
        BY <1>2, <3>1, UnlinkType DEF TInv, TypeOK
    <2> QED
      BY <2>1, <2>2
  <1>6. /\ list' \in [Sweepers -> SUBSET Names] /\ at' \in [Sweepers -> Names \cup {None}]
        /\ due' \in [Sweepers -> SUBSET (Names \X Files)]
        /\ \A q \in Sweepers : pc'[q] # "dead" => (at'[q] # None <=> pc'[q] = "prune")
    <2>1. /\ list \in [Sweepers -> SUBSET Names] /\ at \in [Sweepers -> Names \cup {None}]
          /\ due \in [Sweepers -> SUBSET (Names \X Files)]
          /\ \A q \in Sweepers : pc[q] # "dead" => (at[q] # None <=> pc[q] = "prune")
          /\ pc \in [Procs -> Labels] /\ Sweepers \subseteq Procs
      BY DEF TInv, TypeOK, Procs
    <2>2. CASE SweepList(s)
      <3>1. \A n \in Expired : << n, Inode(n) >> \in Names \X Files
        BY ListedType DEF Expired, TInv
      <3>2. {<< n, Inode(n) >> : n \in Expired} \subseteq Names \X Files
        BY <3>1
      <3>3. due' \in [Sweepers -> SUBSET (Names \X Files)]
        BY <2>1, <2>2, <3>2 DEF SweepList
      <3> QED
        BY <1>2, <2>1, <2>2, <3>3 DEF SweepList
    <2>3. CASE SweepStat(s)
      <3>1. PICK n \in list[s] :
              \/ n \notin Listing /\ SweepAborts(s)
              \/ /\ n \in Listing /\ Inode(n) \notin old
                 /\ Swept(s, n) /\ UNCHANGED << files, pc, due, result >>
              \/ /\ n \in Listing /\ Inode(n) \in old
                 /\ at' = [at EXCEPT ![s] = n] /\ Goto(s, "prune")
                 /\ UNCHANGED << files, list, due, result >>
        BY <2>3 DEF SweepStat
      <3>2. n \in Names /\ n # None /\ pc[s] = "stat"
        BY <2>1, <2>3, <3>1, NoneAssumption DEF SweepStat
      <3>3. CASE SweepAborts(s)
        BY <1>2, <2>1, <3>3 DEF SweepAborts
      <3>4. CASE Swept(s, n) /\ UNCHANGED << pc, due >>
        BY <1>2, <2>1, <3>2, <3>4 DEF Swept
      <3>5. CASE at' = [at EXCEPT ![s] = n] /\ Goto(s, "prune") /\ UNCHANGED << list, due >>
        BY <1>2, <2>1, <3>2, <3>5
      <3> QED
        BY <3>1, <3>3, <3>4, <3>5
    <2>4. CASE SweepUnlink(s)
      BY <1>2, <2>1, <2>4 DEF SweepUnlink, SweepAborts, Swept
    <2>5. CASE SweepEnd(s) \/ SweepFails(s)
      BY <1>2, <2>1, <2>5 DEF SweepEnd, SweepFails
    <2> QED
      BY <2>2, <2>3, <2>4, <2>5 DEF PruneBefore
  <1> QED
    BY <1>3, <1>4, <1>5, <1>6 DEF TInv, TypeOK

LEMMA RemoveType ==
  ASSUME TInv, NEW c \in Cleaners, Remove(c), UNCHANGED scenario
  PROVE  TInv'
PROOF
  <1> USE DEF Goto, Return, files, sweep
  <1>1. /\ c \in Procs /\ c \in Sweepers /\ c \notin Publishers /\ id[c] \in Ids
        /\ Publishers \subseteq Procs /\ Sweepers \subseteq Procs
    BY ProcsAssumption DEF Procs, Sweepers
  <1>2. PICK l \in {"done", "unlink"} : pc' = [pc EXCEPT ![c] = l]
    BY DEF Remove, RemoveStat, RemoveUnlink
  <1>3. /\ pc' \in [Procs -> Labels] /\ result' \in [Procs -> Results]
        /\ UNCHANGED << tries, list, at, due, written, synced, old >>
    <2>1. /\ pc \in [Procs -> Labels] /\ result \in [Procs -> Results]
          /\ l \in Labels
      BY DEF TInv, TypeOK, Labels
    <2>2. PICK r \in Results : result' = [result EXCEPT ![c] = r] \/ result' = result
      BY <1>1, SweepMoves
    <2>3. UNCHANGED << tries, list, at, due, written, synced, old >>
      BY DEF Remove, RemoveStat, RemoveUnlink
    <2> QED
      BY <1>1, <1>2, <2>1, <2>2, <2>3
  <1>4. TriesInv'
    BY <1>1, <1>2, <1>3 DEF TInv, TypeOK, TriesInv, File
  <1>5. /\ final' \in [Ids -> Files \cup {None}]
        /\ pending' \in [Ids -> SUBSET (Files \cup {None})]
        /\ temps' \subseteq Files
    <2>1. CASE UNCHANGED << final, pending, temps >>
      BY <2>1 DEF TInv, TypeOK
    <2>2. CASE ~UNCHANGED << final, pending, temps >>
      <3>1. Unlink(FinalName(id[c]))
        BY <2>2 DEF Remove, RemoveStat, RemoveUnlink
      <3>2. FinalName(id[c]) \in Names
        BY <1>1 DEF Names, FinalName
      <3> QED
        BY <3>1, <3>2, UnlinkType DEF TInv, TypeOK
    <2> QED
      BY <2>1, <2>2
  <1>6. \A q \in Sweepers : pc'[q] # "dead" => (at'[q] # None <=> pc'[q] = "prune")
    <2>1. /\ \A q \in Sweepers : pc[q] # "dead" => (at[q] # None <=> pc[q] = "prune")
          /\ pc \in [Procs -> Labels] /\ pc[c] \in {"remove", "unlink"}
      BY DEF TInv, TypeOK, Remove, RemoveStat, RemoveUnlink
    <2> QED
      BY <1>1, <1>2, <1>3, <2>1
  <1> QED
    BY <1>3, <1>4, <1>5, <1>6 DEF TInv, TypeOK

LEMMA EnvironmentType ==
  ASSUME TInv, (\E p \in Procs : Kill(p)) \/ PowerFailure \/ Age, UNCHANGED scenario
  PROVE  TInv'
PROOF
  <1> USE DEF TInv, TypeOK, TriesInv, File, Goto, files, sweep, Labels
  <1>1. Sweepers \subseteq Procs /\ Publishers \subseteq Procs
    BY DEF Procs
  <1>2. ASSUME NEW p \in Procs, Kill(p) PROVE TInv'
    BY <1>1, <1>2 DEF Kill, Running
  <1>3. CASE PowerFailure
    <2>1. final' \in [Ids -> Files \cup {None}]
      BY <1>3 DEF PowerFailure
    <2>2. pending' \in [Ids -> SUBSET (Files \cup {None})]
      BY <1>3, <2>1 DEF PowerFailure
    <2>3. /\ pc' = [p \in Procs |-> IF Running(p) THEN "dead" ELSE pc[p]]
          /\ temps' \subseteq temps /\ written' \subseteq written
          /\ UNCHANGED << synced, old, tries, list, at, due, result >>
      BY <1>3 DEF PowerFailure
    <2> QED
      BY <1>1, <2>1, <2>2, <2>3 DEF Running
  <1>4. CASE Age
    <2>1. old' \subseteq Files
      BY <1>4, ListedType DEF Age
    <2> QED
      BY <1>4, <2>1 DEF Age
  <1> QED
    BY <1>2, <1>3, <1>4

LEMMA TypeNext == TInv /\ [Next]_vars => TInv'
PROOF
  <1> SUFFICES ASSUME TInv, [Next]_vars PROVE TInv'
    OBVIOUS
  <1>1. CASE UNCHANGED vars
    BY <1>1 DEF vars, files, sweep, TInv, TypeOK, TriesInv, File
  <1>2. CASE Next
    BY <1>2, EnsureType, SweepType, RemoveType, EnvironmentType DEF Next, Step
  <1> QED
    BY <1>1, <1>2

(* Type correctness of the store, in which a sweep holds an entry to       *)
(* remove exactly while it is about to remove it, and Ensure never starts  *)
(* more attempts than its deadline allows.                                 *)
THEOREM TypeCorrect == Spec => []TypeOK
PROOF
  <1>1. TInv => TypeOK
    BY DEF TInv
  <1> QED
    BY <1>1, TypeInit, TypeNext, PTL DEF Spec

LEMMA Typing == Spec => []TInv
PROOF
  BY TypeInit, TypeNext, PTL DEF Spec

-----------------------------------------------------------------------------
(* What a final name may show.  The name alone says nothing about crashes: *)
(* the invariant speaks of every inode that a power failure may leave      *)
(* under the name, and of the attempt that made it.                        *)

(* A publisher that has not linked the file of its present attempt.        *)
Private == {"idle", "retry", "write", "sync", "link", "exists", "settle", "reread"}

Started(q) == q.try <= tries[q.of]

(* No attempt will link q any more: its own is past the link, or another   *)
(* one took its place.                                                     *)
Linked(q) == q.try < tries[q.of] \/ (q.try = tries[q.of] /\ pc[q.of] \notin Private)

LinkInv ==
  /\ \A i \in Ids :
       /\ final[i] \in pending[i]
       /\ \A q \in pending[i] \ {None} : q \in written /\ q \in synced /\ Linked(q)
  /\ \A q \in temps : Started(q)
  /\ \A p \in Publishers :
       /\ pc[p] = "sync" => File(p) \in written
       /\ pc[p] = "link" => File(p) \in written /\ File(p) \in synced

(* Whatever anybody does, a file once started or linked stays so.          *)
LEMMA LinkedStays ==
  ASSUME TInv, [Next]_vars, NEW q \in Files
  PROVE  (Started(q) => Started(q)') /\ (Linked(q) => Linked(q)')
PROOF
  <1>0. /\ q.of \in Publishers /\ q.try \in 1..MaxTries /\ Publishers \subseteq Procs
        /\ MaxTries \in Nat
        /\ pc \in [Procs -> Labels] /\ tries \in [Publishers -> 0..MaxTries]
    BY BoundsAssumption DEF Files, Procs, TInv, TypeOK
  <1>1. ASSUME NEW p \in Publishers, Ensure(p)
        PROVE  (Started(q) => Started(q)') /\ (Linked(q) => Linked(q)')
    <2>1. CASE p # q.of
      <3>1. pc'[q.of] = pc[q.of]
        BY <1>0, <1>1, <2>1, EnsureMoves
      <3>2. tries'[q.of] = tries[q.of]
        BY <1>0, <1>1, <2>1, EnsureAttempts
      <3> QED
        BY <3>1, <3>2 DEF Started, Linked
    <2>2. CASE p = q.of
      <3>1. CASE tries' = [tries EXCEPT ![p] = @ + 1]
        BY <1>0, <2>2, <3>1 DEF Started, Linked
      <3>2. CASE tries' = tries
        <4>1. pc[p] \notin Private => pc'[p] \notin Private
          BY <1>0, <1>1 DEF Ensure, PutCreate, PutWrite, PutSync, PutLink, PutDirSync,
                            PutVerify, EnsureRead, EnsureSync, EnsureReread, ReturnPut,
                            Return, Goto, Private
        <4> QED
          BY <2>2, <3>2, <4>1 DEF Started, Linked
      <3> QED
        BY <1>1, <3>1, <3>2, EnsureAttempts
    <2> QED
      BY <2>1, <2>2
  <1>2. ASSUME NEW s \in Sweepers, PruneBefore(s) \/ Remove(s)
        PROVE  (Started(q) => Started(q)') /\ (Linked(q) => Linked(q)')
    BY <1>0, <1>2, SweepMoves DEF Started, Linked
  <1>3. CASE (\E p \in Procs : Kill(p)) \/ PowerFailure
    <2>1. tries' = tries /\ pc'[q.of] \in {pc[q.of], "dead"}
      BY <1>0, <1>3 DEF Kill, PowerFailure, Goto
    <2> QED
      BY <2>1 DEF Started, Linked, Private
  <1>4. CASE Age \/ UNCHANGED vars
    BY <1>4 DEF Age, vars, Started, Linked
  <1> QED
    BY <1>1, <1>2, <1>3, <1>4 DEF Next, Step, Sweepers

LEMMA EnsureLink ==
  ASSUME TInv, LinkInv, NEW p \in Publishers, Ensure(p), UNCHANGED scenario
  PROVE  LinkInv'
PROOF
  <1> USE DEF Goto, Return, ReturnPut, files
  <1>1. /\ p \in Procs /\ Publishers \subseteq Procs /\ id[p] \in Ids
        /\ pc \in [Procs -> Labels] /\ final \in [Ids -> Files \cup {None}]
        /\ pending \in [Ids -> SUBSET (Files \cup {None})]
        /\ temps \subseteq Files /\ tries \in [Publishers -> 0..MaxTries]
        /\ pc[p] \in {"write", "sync", "link"} => File(p) \in Files
        /\ None \notin Files /\ MaxTries \in Nat
    BY ProcsAssumption, NoneAssumption, BoundsAssumption DEF Procs, TInv, TypeOK, TriesInv
  <1>2. [Next]_vars
    BY DEF Next, Step
  <1>3. \A q \in Publishers \ {p} : pc'[q] = pc[q] /\ File(q)' = File(q)
    BY <1>1, EnsureMoves, EnsureAttempts DEF File
  <1>4. written \subseteq written' /\ synced \subseteq synced'
    BY DEF Ensure, PutCreate, PutWrite, PutSync, PutLink, PutDirSync, PutVerify,
           EnsureRead, EnsureSync, EnsureReread
  <1>5. \A q \in temps' : Started(q)'
    <2>1. \A q \in temps : Started(q)'
      BY <1>1, <1>2, LinkedStays DEF LinkInv
    <2>2. Started(File(p))'
      <3>1. tries'[p] \in Nat
        BY <1>1, EnsureAttempts
      <3> QED
        BY <3>1 DEF Started, File
    <2> QED
      BY <2>1, <2>2, EnsureAttempts
  <1>6. /\ pc'[p] = "sync" => File(p)' \in written'
        /\ pc'[p] = "link" => File(p)' \in written' /\ File(p)' \in synced'
    <2>1. CASE pc'[p] \notin {"sync", "link"}
      BY <2>1
    <2>2. CASE pc'[p] \in {"sync", "link"}
      <3>1. tries' = tries /\ File(p)' = File(p)
        BY <1>1, <2>2, EnsureAttempts DEF File
      <3>2. PutWrite(p) \/ PutSync(p)
        BY <1>1, <2>2 DEF Ensure, PutCreate, PutWrite, PutSync, PutLink, PutDirSync,
                          PutVerify, EnsureRead, EnsureSync, EnsureReread, RetryOrFail
      <3> QED
        BY <1>1, <2>2, <3>1, <3>2 DEF PutWrite, PutSync, LinkInv
    <2> QED
      BY <2>1, <2>2
  <1>7. \A q \in Publishers : /\ pc'[q] = "sync" => File(q)' \in written'
                              /\ pc'[q] = "link" => File(q)' \in written' /\ File(q)' \in synced'
    BY <1>3, <1>4, <1>6 DEF LinkInv
  <1>8. ASSUME NEW i \in Ids
        PROVE  /\ final'[i] \in pending'[i]
               /\ \A q \in pending'[i] \ {None} : q \in written' /\ q \in synced' /\ Linked(q)'
    <2>1. \A q \in pending[i] \ {None} : q \in written' /\ q \in synced' /\ Linked(q)'
      BY <1>1, <1>2, <1>4, LinkedStays DEF LinkInv
    <2>2. CASE UNCHANGED << final, pending >>
      BY <2>1, <2>2 DEF LinkInv
    <2>3. CASE PutDirSync(p) \/ EnsureSync(p)
      <3>1. pending'[i] \subseteq pending[i] /\ final'[i] \in pending'[i]
        BY <1>1, <2>3 DEF PutDirSync, EnsureSync, syncRootDirectory, LinkInv
      <3> QED
        BY <2>1, <3>1
    <2>4. CASE PutLink(p) /\ Link(id[p], File(p)) /\ Goto(p, "dirsync")
      <3>1. File(p) \in written /\ File(p) \in synced /\ tries' = tries /\ pc[p] = "link"
        BY <2>4 DEF PutLink, LinkInv
      <3>2. \A q \in Files : q = File(p) => Linked(q)'
        BY <1>1, <2>4, <3>1 DEF Linked, File, Private
      <3>3. \/ final'[i] = final[i] /\ pending'[i] = pending[i]
            \/ final'[i] = File(p) /\ pending'[i] = pending[i] \cup {File(p)}
        BY <1>1, <2>4 DEF Link
      <3> QED
        BY <1>1, <1>4, <2>1, <3>1, <3>2, <3>3 DEF LinkInv
    <2> QED
      BY <2>2, <2>3, <2>4 DEF Ensure, PutCreate, PutWrite, PutSync, PutLink, PutVerify,
                              EnsureRead, EnsureReread
  <1> QED
    BY <1>5, <1>7, <1>8 DEF LinkInv

(* Removing a name adds only its absence to what a power failure may show. *)
LEMMA UnlinkLink ==
  ASSUME TypeOK, NEW n \in Names, Unlink(n), NEW i \in Ids
  PROVE  \/ final'[i] = final[i] /\ pending'[i] = pending[i]
         \/ final'[i] = None /\ pending'[i] = pending[i] \cup {None}
PROOF
  BY DEF Unlink, TypeOK

(* A sweep removes names, and nothing else.                                *)
LEMMA SweepRemoves ==
  ASSUME TInv, NEW s \in Sweepers, PruneBefore(s) \/ (s \in Cleaners /\ Remove(s))
  PROVE  UNCHANGED << final, temps, pending >> \/ \E n \in Names : Unlink(n)
PROOF
  <1> USE DEF Goto, Return, files
  <1>1. CASE PruneBefore(s)
    <2>1. UNCHANGED << final, temps, pending >> \/ (at[s] \in Listing /\ Unlink(at[s]))
      BY <1>1 DEF PruneBefore, SweepList, SweepStat, SweepUnlink, SweepEnd, SweepFails,
                  SweepAborts
    <2> QED
      BY <2>1 DEF Listing
  <1>2. CASE s \in Cleaners /\ Remove(s)
    <2>1. UNCHANGED << final, temps, pending >> \/ Unlink(FinalName(id[s]))
      BY <1>2 DEF Remove, RemoveStat, RemoveUnlink
    <2>2. FinalName(id[s]) \in Names
      BY <1>2, ProcsAssumption DEF Names, FinalName
    <2> QED
      BY <2>1, <2>2
  <1> QED
    BY <1>1, <1>2

LEMMA SweepLink ==
  ASSUME TInv, LinkInv, NEW s \in Sweepers, PruneBefore(s) \/ (s \in Cleaners /\ Remove(s))
  PROVE  LinkInv'
PROOF
  <1>1. /\ UNCHANGED << written, synced, tries >>
        /\ \A p \in Publishers : pc'[p] = pc[p]
    BY SweepMoves DEF TInv, TypeOK, Procs
  <1>2. temps' \subseteq temps /\ temps \subseteq Files
    BY SweepRemoves, UnlinkType DEF TInv, TypeOK
  <1>3. \A p \in Publishers : File(p)' = File(p)
    BY <1>1 DEF File
  <1>4. \A q \in Files : Linked(q)' = Linked(q) /\ Started(q)' = Started(q)
    BY <1>1 DEF Linked, Started, Files
  <1>5. ASSUME NEW i \in Ids
        PROVE  /\ final'[i] \in pending'[i]
               /\ \A q \in pending'[i] \ {None} : q \in written' /\ q \in synced' /\ Linked(q)'
    <2>1. pending[i] \subseteq Files \cup {None}
      BY DEF TInv, TypeOK
    <2>2. \/ final'[i] = final[i] /\ pending'[i] = pending[i]
          \/ final'[i] = None /\ pending'[i] = pending[i] \cup {None}
      BY SweepRemoves, UnlinkLink DEF TInv
    <2> QED
      BY <1>1, <1>4, <2>1, <2>2 DEF LinkInv
  <1> QED
    BY <1>1, <1>2, <1>3, <1>4, <1>5 DEF LinkInv

(* What survives a power failure was linked, hence synced, before.         *)
LEMMA EnvironmentLink ==
  ASSUME TInv, LinkInv, (\E p \in Procs : Kill(p)) \/ PowerFailure \/ Age, [Next]_vars
  PROVE  LinkInv'
PROOF
  <1>0. /\ Publishers \subseteq Procs /\ pc \in [Procs -> Labels]
        /\ pending \in [Ids -> SUBSET (Files \cup {None})] /\ temps \subseteq Files
    BY DEF Procs, TInv, TypeOK
  <1>1. /\ tries' = tries /\ temps' \subseteq temps /\ synced' = synced
        /\ written \cap synced \subseteq written'
        /\ \A p \in Publishers : pc'[p] \in {pc[p], "dead"} /\ File(p)' = File(p)
    BY <1>0 DEF Kill, PowerFailure, Age, Goto, files, File
  <1>2. \A i \in Ids : final'[i] \in pending'[i] /\ pending'[i] \subseteq pending[i]
    BY DEF Kill, PowerFailure, Age, files, LinkInv
  <1>3. \A q \in Files : (Started(q) => Started(q)') /\ (Linked(q) => Linked(q)')
    BY LinkedStays
  <1>4. \A i \in Ids : \A q \in pending'[i] \ {None} :
          q \in written' /\ q \in synced' /\ Linked(q)'
    BY <1>0, <1>1, <1>2, <1>3 DEF LinkInv
  <1>5. \A q \in temps' : Started(q)'
    BY <1>0, <1>1, <1>3 DEF LinkInv
  <1>6. \A p \in Publishers : /\ pc'[p] = "sync" => File(p)' \in written'
                              /\ pc'[p] = "link" => File(p)' \in written' /\ File(p)' \in synced'
    <2>1. CASE PowerFailure
      BY <1>0, <2>1 DEF PowerFailure, Running
    <2>2. CASE (\E p \in Procs : Kill(p)) \/ Age
      <3>1. written' = written
        BY <2>2 DEF Kill, Age, files
      <3> QED
        BY <1>1, <3>1 DEF LinkInv
    <2> QED
      BY <2>1, <2>2
  <1> QED
    BY <1>2, <1>4, <1>5, <1>6 DEF LinkInv

LEMMA LinkInvariance == Spec => [](TInv /\ LinkInv)
PROOF
  <1>1. Init => LinkInv
    BY DEF Init, LinkInv, Procs
  <1>2. TInv /\ LinkInv /\ [Next]_vars => LinkInv'
    <2> SUFFICES ASSUME TInv, LinkInv, [Next]_vars PROVE LinkInv'
      OBVIOUS
    <2>1. CASE UNCHANGED vars
      BY <2>1 DEF vars, files, LinkInv, Started, Linked, File
    <2>2. CASE Next
      <3>1. ASSUME NEW c \in Cleaners, Remove(c) PROVE LinkInv'
        BY <3>1, SweepLink DEF Sweepers
      <3> QED
        BY <2>2, <3>1, EnsureLink, SweepLink, EnvironmentLink DEF Next, Step
    <2> QED
      BY <2>1, <2>2
  <1> QED
    BY <1>1, <1>2, Typing, PTL DEF Spec

(* A final name never exposes partial bytes, whoever publishes, sweeps or  *)
(* cleans at the same time and whatever a power failure keeps of the       *)
(* unsynced directory: put links only what it has written and synced, and  *)
(* a private file that its removal failed to take is never written again.  *)
THEOREM FinalAlwaysComplete == Spec => []FinalComplete
PROOF
  <1>1. LinkInv /\ TInv => FinalComplete
    BY DEF LinkInv, FinalComplete
  <1> QED
    BY <1>1, LinkInvariance, PTL

-----------------------------------------------------------------------------
(* What a prune that reports success has reclaimed.                        *)

(* A file that a sweep found expired under a name n does not come under n  *)
(* a second time, and is on the sweep's list, still expired, as long as it *)
(* is there.  That needs each attempt to have a file of its own: then one  *)
(* that is linked, or that another attempt follows, is never linked again. *)
DueInv ==
  \A s \in Sweepers : pc[s] \in {"stat", "prune"} =>
    \A n \in Names, q \in Files : << n, q >> \in due[s] =>
      /\ IF n.kind = "final" THEN Linked(q) ELSE n.of = q /\ Started(q)
      /\ n \in Listing /\ Inode(n) = q => n \in list[s] /\ q \in old

LEMMA NeverAgain ==
  ASSUME TInv, [Next]_vars, ~PowerFailure, NEW n \in Names, NEW q \in Files,
         IF n.kind = "final" THEN Linked(q) ELSE n.of = q /\ Started(q),
         (n \in Listing)', Inode(n)' = q
  PROVE  n \in Listing /\ Inode(n) = q
PROOF
  <1> USE DEF files
  <1>0. /\ q.of \in Publishers /\ q.try \in Nat /\ q # None
        /\ tries \in [Publishers -> 0..MaxTries]
        /\ final \in [Ids -> Files \cup {None}] /\ MaxTries \in Nat
        /\ \A p \in Publishers : id[p] \in Ids
    BY BoundsAssumption, NoneAssumption, ProcsAssumption DEF Files, TInv, TypeOK
  <1>1. /\ n.kind = "final" => n.of \in Ids /\ final'[n.of] = q
        /\ n.kind # "final" => n.of = q /\ q \in temps'
    BY NamesApart DEF Listing, Inode
  <1>2. /\ n.kind = "final" => final[n.of] = q
        /\ n.kind # "final" => q \in temps
    <2>1. ASSUME NEW p \in Publishers, Ensure(p)
          PROVE  /\ n.kind = "final" => final[n.of] = q
                 /\ n.kind # "final" => q \in temps
      <3>1. CASE n.kind = "final"
        <4>1. CASE UNCHANGED final
          BY <1>1, <3>1, <4>1
        <4>2. CASE PutLink(p) /\ Link(id[p], File(p))
          <5>1. q # File(p)
            BY <1>0, <3>1, <4>2 DEF PutLink, Linked, File, Private
          <5> QED
            BY <1>0, <1>1, <3>1, <4>2, <5>1 DEF Link
        <4> QED
          BY <2>1, <4>1, <4>2 DEF Ensure, PutCreate, PutWrite, PutSync, PutLink, PutDirSync,
                                  PutVerify, EnsureRead, EnsureSync, EnsureReread
      <3>2. CASE n.kind # "final"
        <4>1. CASE tries' = [tries EXCEPT ![p] = @ + 1] /\ temps' = temps \cup {File(p)'}
          <5>1. q # File(p)'
            BY <1>0, <3>2, <4>1 DEF Started, File
          <5> QED
            BY <1>1, <3>2, <4>1, <5>1
        <4>2. CASE temps' \subseteq temps
          BY <1>1, <3>2, <4>2
        <4> QED
          BY <2>1, <4>1, <4>2, EnsureAttempts
      <3> QED
        BY <3>1, <3>2
    <2>2. ASSUME NEW s \in Sweepers, PruneBefore(s) \/ (s \in Cleaners /\ Remove(s))
          PROVE  /\ n.kind = "final" => final[n.of] = q
                 /\ n.kind # "final" => q \in temps
      BY <1>0, <1>1, <2>2, SweepRemoves, UnlinkLink, UnlinkType DEF TInv
    <2>3. CASE (\E p \in Procs : Kill(p)) \/ Age \/ UNCHANGED vars
      BY <1>1, <2>3 DEF Kill, Age, vars
    <2> QED
      BY <2>1, <2>2, <2>3 DEF Next, Step, Sweepers
  <1> QED
    BY <1>0, <1>1, <1>2 DEF Listing, Inode

(* A sweep strikes a name off only while nothing expired is left under it. *)
LEMMA SweepStrikes ==
  ASSUME TInv, NEW s \in Sweepers, PruneBefore(s), pc[s] \in {"stat", "prune"},
         pc'[s] \in {"stat", "prune"}, NEW n \in list[s], n \notin list'[s]
  PROVE  ~(n \in Listing)' \/ (Inode(n) \notin old /\ UNCHANGED files)
PROOF
  <1> USE DEF Goto, Return, files
  <1>0. /\ s \in Procs /\ pc \in [Procs -> Labels]
        /\ list \in [Sweepers -> SUBSET Names]
        /\ final \in [Ids -> Files \cup {None}]
    BY DEF Procs, TInv, TypeOK
  <1>1. CASE SweepStat(s)
    <2>1. PICK m \in list[s] :
            \/ m \notin Listing /\ SweepAborts(s)
            \/ /\ m \in Listing /\ Inode(m) \notin old
               /\ Swept(s, m) /\ UNCHANGED << files, pc, due, result >>
            \/ /\ m \in Listing /\ Inode(m) \in old
               /\ at' = [at EXCEPT ![s] = m] /\ Goto(s, "prune")
               /\ UNCHANGED << files, list, due, result >>
      BY <1>1 DEF SweepStat
    <2>2. Inode(m) \notin old /\ Swept(s, m) /\ UNCHANGED files
      BY <1>0, <2>1 DEF SweepAborts
    <2>3. n = m
      BY <1>0, <2>2 DEF Swept
    <2> QED
      BY <2>2, <2>3
  <1>2. CASE SweepUnlink(s)
    <2>1. at[s] \in Listing /\ Unlink(at[s]) /\ Swept(s, at[s])
      BY <1>0, <1>2 DEF SweepUnlink, SweepAborts
    <2>2. n = at[s] /\ n \in Names
      BY <1>0, <2>1 DEF Swept
    <2>3. IF n.kind = "final" THEN n.of \in Ids /\ final'[n.of] = None ELSE n.of \notin temps'
      BY <1>0, <2>1, <2>2, NamesApart DEF Unlink
    <2> QED
      BY <2>3 DEF Listing
  <1>3. CASE SweepList(s) \/ SweepEnd(s) \/ SweepFails(s)
    BY <1>0, <1>3 DEF SweepList, SweepEnd, SweepFails
  <1> QED
    BY <1>1, <1>2, <1>3 DEF PruneBefore

(* A step of anybody else than s leaves the progress of s alone.           *)
LEMMA OthersDue ==
  ASSUME TInv, [Next]_vars, NEW s \in Sweepers, pc'[s] \in {"stat", "prune"}
  PROVE  \/ PruneBefore(s)
         \/ /\ pc[s] = pc'[s] /\ UNCHANGED << list[s], due[s] >>
            /\ old' = old \/ Age
            /\ ~PowerFailure
PROOF
  <1> USE DEF Goto, files, sweep
  <1>0. /\ Sweepers \subseteq Procs /\ pc \in [Procs -> Labels]
        /\ list \in [Sweepers -> SUBSET Names]
        /\ due \in [Sweepers -> SUBSET (Names \X Files)]
    BY DEF Procs, TInv, TypeOK
  <1>1. ASSUME NEW p \in Publishers, Ensure(p)
        PROVE  pc[s] = pc'[s] /\ UNCHANGED << list, due, old >> /\ ~PowerFailure
    <2>1. pc' \in [Procs -> Labels] /\ pc'[s] = pc[s] /\ UNCHANGED << list, due >>
      BY <1>0, <1>1, EnsureMoves
    <2>2. old' = old
      BY <1>1 DEF Ensure, PutCreate, PutWrite, PutSync, PutLink, PutDirSync, PutVerify,
                  EnsureRead, EnsureSync, EnsureReread
    <2>3. ~PowerFailure
      BY <1>0, <2>1 DEF PowerFailure, Running
    <2> QED
      BY <2>1, <2>2, <2>3
  <1>2. ASSUME NEW r \in Sweepers, r # s, PruneBefore(r)
        PROVE  pc[s] = pc'[s] /\ UNCHANGED << list[s], due[s], old >> /\ ~PowerFailure
    <2>1. pc'[s] = pc[s] /\ old' = old
      BY <1>0, <1>2, SweepMoves
    <2>2. UNCHANGED << list[s], due[s] >>
      BY <1>0, <1>2 DEF PruneBefore, SweepList, SweepStat, SweepUnlink, SweepEnd, SweepFails,
                        SweepAborts, Swept, EndSweep
    <2>3. ~PowerFailure
      BY <1>0, <2>1 DEF PowerFailure, Running
    <2> QED
      BY <2>1, <2>2, <2>3
  <1>3. ASSUME NEW c \in Cleaners, Remove(c)
        PROVE  pc[s] = pc'[s] /\ UNCHANGED << list, due, old >> /\ ~PowerFailure
    <2>1. pc'[c] \in {"done", "unlink"} /\ UNCHANGED << list, due, old >>
          /\ \A r \in Procs \ {c} : pc'[r] = pc[r]
      BY <1>0, <1>3 DEF Remove, RemoveStat, RemoveUnlink, Return, Unlink, Sweepers
    <2>2. s # c
      BY <2>1
    <2>3. pc'[s] = pc[s] /\ ~PowerFailure
      BY <1>0, <2>1, <2>2 DEF PowerFailure, Running
    <2> QED
      BY <2>1, <2>3
  <1>4. ASSUME NEW p \in Procs, Kill(p)
        PROVE  pc[s] = pc'[s] /\ UNCHANGED << list, due, old >> /\ ~PowerFailure
    <2>1. p # s /\ pc'[s] = pc[s]
      BY <1>0, <1>4 DEF Kill
    <2> QED
      BY <1>0, <1>4, <2>1 DEF Kill, PowerFailure, Running
  <1>5. CASE Age
    BY <1>0, <1>5 DEF Age, PowerFailure, Running
  <1>6. CASE PowerFailure
    BY <1>0, <1>6 DEF PowerFailure, Running
  <1>7. CASE UNCHANGED vars
    BY <1>0, <1>7 DEF vars, PowerFailure, Running
  <1> QED
    BY <1>1, <1>2, <1>3, <1>4, <1>5, <1>6, <1>7 DEF Next, Step

LEMMA DueNext == TInv /\ LinkInv /\ DueInv /\ [Next]_vars => DueInv'
PROOF
  <1> SUFFICES ASSUME TInv, LinkInv, DueInv, [Next]_vars,
                      NEW s \in Sweepers, pc'[s] \in {"stat", "prune"},
                      NEW n \in Names, NEW q \in Files, << n, q >> \in due'[s]
               PROVE  /\ IF n.kind = "final" THEN Linked(q)' ELSE n.of = q /\ Started(q)'
                      /\ (n \in Listing)' /\ Inode(n)' = q => n \in list'[s] /\ q \in old'
    BY DEF DueInv
  <1>0. /\ s \in Procs /\ pc \in [Procs -> Labels]
        /\ due \in [Sweepers -> SUBSET (Names \X Files)]
        /\ list \in [Sweepers -> SUBSET Names]
        /\ pending \in [Ids -> SUBSET (Files \cup {None})] /\ None \notin Files
    BY NoneAssumption DEF Procs, TInv, TypeOK
  <1>1. CASE SweepList(s)
    <2>1. UNCHANGED files /\ list' = [list EXCEPT ![s] = Listing]
          /\ due' = [due EXCEPT ![s] = {<< m, Inode(m) >> : m \in Expired}]
      BY <1>1 DEF SweepList
    <2>2. n \in Expired /\ q = Inode(n)
      BY <1>0, <2>1
    <2>3. IF n.kind = "final" THEN Linked(q) ELSE n.of = q /\ Started(q)
      <3>1. CASE n.kind = "final"
        <4>1. n.of \in Ids /\ q = final[n.of] /\ q # None
          BY <1>0, <2>2, <3>1, NamesApart DEF Inode
        <4> QED
          BY <3>1, <4>1 DEF LinkInv
      <3>2. CASE n.kind # "final"
        BY <2>2, <3>2 DEF Inode, Expired, Listing, LinkInv
      <3> QED
        BY <3>1, <3>2
    <2> QED
      BY <1>0, <2>1, <2>2, <2>3, LinkedStays DEF Expired, files
  <1>2. CASE ~SweepList(s)
    <2>1. /\ pc[s] \in {"stat", "prune"} /\ due'[s] = due[s]
          /\ ~PowerFailure /\ (old' = old \/ Age)
          /\ PruneBefore(s) \/ list'[s] = list[s]
      <3>1. CASE PruneBefore(s)
        <4>1. pc[s] \in {"stat", "prune"} /\ due'[s] = due[s]
          BY <1>0, <1>2, <3>1 DEF PruneBefore, SweepStat, SweepUnlink, SweepEnd, SweepFails,
                                  SweepAborts, Return, Goto
        <4>2. old' = old
          BY <3>1, SweepMoves
        <4>3. ~PowerFailure
          BY <1>0 DEF PowerFailure, Running
        <4> QED
          BY <3>1, <4>1, <4>2, <4>3
      <3>2. CASE ~PruneBefore(s)
        BY <3>2, OthersDue
      <3> QED
        BY <3>1, <3>2
    <2>2. /\ IF n.kind = "final" THEN Linked(q) ELSE n.of = q /\ Started(q)
          /\ n \in Listing /\ Inode(n) = q => n \in list[s] /\ q \in old
      BY <2>1 DEF DueInv
    <2>3. ASSUME (n \in Listing)', Inode(n)' = q PROVE n \in list'[s] /\ q \in old'
      <3>1. n \in Listing /\ Inode(n) = q
        BY <2>1, <2>2, <2>3, NeverAgain
      <3>2. n \in list[s] /\ q \in old
        BY <2>2, <3>1
      <3>3. q \in old'
        BY <2>1, <3>1, <3>2 DEF Age
      <3>4. n \in list'[s]
        BY <2>1, <2>3, <3>1, <3>2, SweepStrikes
      <3> QED
        BY <3>3, <3>4
    <2> QED
      BY <2>2, <2>3, LinkedStays
  <1> QED
    BY <1>1, <1>2

(* A prune that reports success has reclaimed everything that was expired  *)
(* when it listed the directory, whatever else goes on: for any number of  *)
(* publishers and sweeps, with failing removals, expiry and crashes, such  *)
(* a file is gone from its name when the prune returns.                    *)
THEOREM ExpiredAlwaysReclaimed == Spec => ExpiredReclaimed
PROOF
  <1>1. Init => DueInv
    BY DEF Init, DueInv, Procs
  <1>2. TInv /\ DueInv /\ [Next]_vars =>
          [\A s \in Pruners :
             result[s] # "ok" /\ result'[s] = "ok" =>
               \A e \in due[s] : e[1] \in Listing' => Inode(e[1])' # e[2]]_vars
    <2> SUFFICES ASSUME TInv, DueInv, Next, NEW s \in Pruners,
                        result[s] # "ok", result'[s] = "ok"
                 PROVE  \A e \in due[s] : e[1] \in Listing' => Inode(e[1])' # e[2]
      BY DEF vars
    <2>0. /\ s \in Sweepers /\ s \notin Cleaners /\ s \in Procs /\ s \notin Publishers
          /\ result \in [Procs -> Results] /\ Sweepers \subseteq Procs
          /\ due[s] \subseteq Names \X Files
      BY ProcsAssumption DEF Procs, Sweepers, TInv, TypeOK
    <2>1. ASSUME NEW p \in Publishers, Ensure(p) PROVE FALSE
      BY <2>0, <2>1, EnsureMoves
    <2>2. ASSUME NEW r \in Sweepers, r # s, PruneBefore(r) \/ Remove(r) PROVE FALSE
      BY <2>0, <2>2, SweepMoves
    <2>3. ASSUME (\E p \in Procs : Kill(p)) \/ PowerFailure \/ Age PROVE FALSE
      BY <2>3 DEF Kill, PowerFailure, Age
    <2>4. PruneBefore(s)
      BY <2>0, <2>1, <2>2, <2>3 DEF Next, Step, Sweepers
    <2>5. pc[s] = "stat" /\ list[s] = {} /\ UNCHANGED files
      BY <2>0, <2>4 DEF PruneBefore, SweepList, SweepStat, SweepUnlink, SweepEnd, SweepFails,
                        SweepAborts, Return
    <2>6. ASSUME NEW e \in due[s] PROVE e[1] \in Listing => Inode(e[1]) # e[2]
      <3>1. e[1] \in Names /\ e[2] \in Files /\ << e[1], e[2] >> \in due[s]
        BY <2>0
      <3> QED
        BY <2>0, <2>5, <3>1 DEF DueInv
    <2>7. Listing' = Listing /\ \A n \in Names : Inode(n)' = Inode(n)
      BY <2>5 DEF files, Listing, Inode
    <2> QED
      BY <2>0, <2>6, <2>7 DEF Listing, Inode
  <1> QED
    BY <1>1, <1>2, DueNext, LinkInvariance, PTL DEF Spec, ExpiredReclaimed

-----------------------------------------------------------------------------
(* Durability among publishers.                                            *)

(* Without sweepers a final name stays what it is, and a publisher that    *)
(* has synced the directory after seeing it has made it durable.           *)
DurableInv ==
  scenario.procs \subseteq Publishers =>
    /\ \A s \in Sweepers : pc[s] = "done"
    /\ \A p \in Publishers :
         /\ pc[p] \in {"dirsync", "settle", "verify", "reread"} => final[id[p]] # None
         /\ pc[p] \in {"verify", "reread"} => pending[id[p]] = {final[id[p]]}

LEMMA EnsureDurably ==
  ASSUME TInv, DurableInv, NEW p \in Publishers, Ensure(p), UNCHANGED scenario
  PROVE  DurableInv'
PROOF
  <1> USE DEF Goto, Return, ReturnPut, files
  <1> SUFFICES ASSUME scenario.procs \subseteq Publishers
               PROVE  /\ \A s \in Sweepers : pc'[s] = "done"
                      /\ \A q \in Publishers :
                           /\ pc'[q] \in {"dirsync", "settle", "verify", "reread"} =>
                                final'[id[q]] # None
                           /\ pc'[q] \in {"verify", "reread"} =>
                                pending'[id[q]] = {final'[id[q]]}
    BY DEF DurableInv
  <1>1. /\ Publishers \subseteq Procs /\ Sweepers \subseteq Procs /\ pc \in [Procs -> Labels]
        /\ final \in [Ids -> Files \cup {None}]
        /\ pending \in [Ids -> SUBSET (Files \cup {None})]
        /\ None \notin Files /\ \A q \in Publishers : id[q] \in Ids
        /\ pc[p] = "link" => File(p) \in Files
    BY ProcsAssumption, NoneAssumption DEF Procs, TInv, TypeOK, TriesInv
  <1>2. \A s \in Sweepers : pc'[s] = "done"
    BY <1>1, EnsureMoves DEF DurableInv
  (* The directory only gains names, and is as durable as before for those *)
  (* that exist.                                                           *)
  <1>3. ASSUME NEW i \in Ids, final[i] # None
        PROVE  /\ final'[i] = final[i]
               /\ pending[i] = {final[i]} => pending'[i] = {final'[i]}
    <2>1. CASE PutLink(p)
      BY <1>1, <1>3, <2>1 DEF PutLink, Link
    <2>2. CASE PutDirSync(p) \/ EnsureSync(p)
      BY <1>1, <1>3, <2>2 DEF PutDirSync, EnsureSync, syncRootDirectory
    <2>3. CASE ~(PutLink(p) \/ PutDirSync(p) \/ EnsureSync(p))
      BY <2>3 DEF Ensure, PutCreate, PutWrite, PutSync, PutVerify, EnsureRead, EnsureReread
    <2> QED
      BY <2>1, <2>2, <2>3
  <1>4. ASSUME NEW q \in Publishers \ {p}
        PROVE  /\ pc'[q] \in {"dirsync", "settle", "verify", "reread"} =>
                    final'[id[q]] # None
               /\ pc'[q] \in {"verify", "reread"} => pending'[id[q]] = {final'[id[q]]}
    <2>1. pc'[q] = pc[q]
      BY <1>1, EnsureMoves
    <2> QED
      BY <1>1, <1>3, <2>1 DEF DurableInv
  <1>5. /\ pc'[p] \in {"dirsync", "settle", "verify", "reread"} => final'[id[p]] # None
        /\ pc'[p] \in {"verify", "reread"} => pending'[id[p]] = {final'[id[p]]}
    <2>1. CASE PutLink(p)
      BY <1>1, <2>1 DEF PutLink, Link
    <2>2. CASE PutDirSync(p) \/ EnsureSync(p)
      BY <1>1, <2>2 DEF PutDirSync, EnsureSync, syncRootDirectory, DurableInv
    <2>3. CASE EnsureRead(p) \/ EnsureReread(p)
      BY <1>1, <2>3 DEF EnsureRead, EnsureReread, RetryOrFail, Holds
    <2>4. CASE PutCreate(p) \/ PutWrite(p) \/ PutSync(p) \/ PutVerify(p)
      BY <1>1, <2>4 DEF PutCreate, PutWrite, PutSync, PutVerify
    <2> QED
      BY <2>1, <2>2, <2>3, <2>4 DEF Ensure
  <1> QED
    BY <1>2, <1>4, <1>5

LEMMA DurableNext == TInv /\ DurableInv /\ [Next]_vars => DurableInv'
PROOF
  <1> SUFFICES ASSUME TInv, DurableInv, [Next]_vars PROVE DurableInv'
    OBVIOUS
  <1>0. Publishers \subseteq Procs /\ Sweepers \subseteq Procs /\ pc \in [Procs -> Labels]
    BY DEF Procs, TInv, TypeOK
  <1>1. UNCHANGED scenario
    BY DEF Next, vars
  <1>2. ASSUME NEW s \in Sweepers, PruneBefore(s) \/ (s \in Cleaners /\ Remove(s)),
               scenario.procs \subseteq Publishers
        PROVE  FALSE
    BY <1>2 DEF DurableInv, PruneBefore, SweepList, SweepStat, SweepUnlink, SweepEnd,
                SweepFails, Remove, RemoveStat, RemoveUnlink
  <1>3. ASSUME NEW p \in Procs, Kill(p) PROVE DurableInv'
    BY <1>0, <1>1, <1>3 DEF Kill, Goto, Running, files, DurableInv
  <1>4. CASE PowerFailure
    <2>1. \A p \in Procs : pc'[p] = IF Running(p) THEN "dead" ELSE pc[p]
      BY <1>0, <1>4 DEF PowerFailure
    <2> QED
      BY <1>0, <1>1, <2>1 DEF Running, DurableInv
  <1>5. CASE Age \/ UNCHANGED vars
    BY <1>1, <1>5 DEF Age, vars, files, DurableInv
  <1>6. ASSUME NEW s \in Sweepers, PruneBefore(s) \/ (s \in Cleaners /\ Remove(s))
        PROVE  DurableInv'
    BY <1>1, <1>2, <1>6 DEF DurableInv
  <1>7. ASSUME NEW c \in Cleaners, Remove(c) PROVE DurableInv'
    BY <1>6, <1>7 DEF Sweepers
  <1> QED
    BY <1>1, <1>3, <1>4, <1>5, <1>6, <1>7, EnsureDurably DEF Next, Step

(* Ensure reports success only for a durable publication, among any number *)
(* of publishers that crash, collide and converge on the same or on        *)
(* different bytes: whatever part of the unsynced directory a power        *)
(* failure keeps, the ID names the bytes of the publisher.                 *)
THEOREM EnsureIsDurable == Spec => EnsureDurable
PROOF
  <1>1. Init => DurableInv
    BY ProcsAssumption DEF Init, DurableInv, Procs
  <1>2. TInv /\ DurableInv /\ [Next]_vars =>
          [\A p \in Publishers :
             scenario.procs \subseteq Publishers /\ result[p] # "ok" /\ result'[p] = "ok" =>
               \A q \in pending'[id[p]] : q # None /\ content[q.of] = content[p]]_vars
    <2> SUFFICES ASSUME TInv, DurableInv, [Next]_vars, NEW p \in Publishers,
                        scenario.procs \subseteq Publishers,
                        result[p] # "ok", result'[p] = "ok"
                 PROVE  \A q \in pending'[id[p]] : q # None /\ content[q.of] = content[p]
      OBVIOUS
    <2>0. p \in Procs /\ p \notin Sweepers /\ result \in [Procs -> Results]
      BY ProcsAssumption DEF Procs, TInv, TypeOK
    <2>1. Ensure(p)
      <3>1. ASSUME NEW q \in Publishers, q # p, Ensure(q) PROVE FALSE
        BY <2>0, <3>1, EnsureMoves
      <3>2. ASSUME NEW s \in Sweepers, PruneBefore(s) \/ Remove(s) PROVE FALSE
        BY <2>0, <3>2, SweepMoves
      <3>3. ASSUME (\E q \in Procs : Kill(q)) \/ PowerFailure \/ Age \/ UNCHANGED vars
            PROVE  FALSE
        BY <3>3 DEF Kill, PowerFailure, Age, vars
      <3> QED
        BY <3>1, <3>2, <3>3 DEF Next, Step, Sweepers
    <2>2. /\ pc[p] \in {"verify", "reread"} /\ Holds(id[p], p) /\ pending' = pending
      BY <2>0, <2>1 DEF Ensure, PutCreate, PutWrite, PutSync, PutLink, PutDirSync,
                        PutVerify, EnsureRead, EnsureSync, EnsureReread, RetryOrFail,
                        Return, ReturnPut, files
    <2> QED
      BY <2>2 DEF DurableInv, Holds
  <1> QED
    BY <1>1, <1>2, DurableNext, Typing, PTL DEF Spec, EnsureDurable

-----------------------------------------------------------------------------
(* What a lone sweep takes.                                                *)

(* The entry that a lone sweep has judged is still the one it judged: its  *)
(* final name is taken, and whatever is there is past retention.  Sweeps   *)
(* that take no part in the scenario do not run.                           *)
Alone(s) == scenario.procs \cap Sweepers = {s}

JudgedInv ==
  /\ \A s \in Sweepers \ scenario.procs : pc[s] = "done"
  /\ \A s \in Sweepers : Alone(s) /\ pc[s] = "prune" =>
       /\ at[s].kind = "final" => final[at[s].of] # None
       /\ at[s].kind = "temp" => Started(at[s].of)
       /\ at[s] \in Listing => Inode(at[s]) \in old

(* A publisher puts no other file under a name that is taken, and none     *)
(* under the private name of an attempt that has begun.                    *)
LEMMA EnsureJudged ==
  ASSUME TInv, JudgedInv, NEW p \in Publishers, Ensure(p), UNCHANGED scenario
  PROVE  JudgedInv'
PROOF
  <1>1. /\ UNCHANGED << at, list >> /\ \A s \in Sweepers : pc'[s] = pc[s]
        /\ p \in Procs /\ pc \in [Procs -> Labels]
        /\ final \in [Ids -> Files \cup {None}] /\ tries \in [Publishers -> 0..MaxTries]
        /\ at \in [Sweepers -> Names \cup {None}] /\ MaxTries \in Nat
        /\ \A s \in Sweepers : pc[s] = "prune" => at[s] \in Names
        /\ \A q \in Publishers : id[q] \in Ids
    BY EnsureMoves, ProcsAssumption, BoundsAssumption DEF TInv, TypeOK, Procs
  <1>2. SUFFICES ASSUME NEW s \in Sweepers, Alone(s), pc[s] = "prune"
                 PROVE  /\ at[s].kind = "final" => final'[at[s].of] # None
                        /\ at[s].kind = "temp" => Started(at[s].of)'
                        /\ (at[s] \in Listing)' => Inode(at[s])' \in old'
    BY <1>1 DEF JudgedInv, Alone
  <1> DEFINE n == at[s]
  <1>3. n \in Names /\ Listing \subseteq Names
    BY <1>1, <1>2 DEF Listing
  <1>4. /\ n.kind = "final" => final[n.of] # None
        /\ n.kind = "temp" => Started(n.of)
        /\ n \in Listing => Inode(n) \in old
    BY <1>2 DEF JudgedInv
  <1>5. old' = old /\ \A i \in Ids : final[i] # None => final'[i] = final[i]
    BY <1>1 DEF Ensure, PutCreate, PutWrite, PutSync, PutLink, PutDirSync, PutVerify,
                EnsureRead, EnsureSync, EnsureReread, Link, files
  <1>6. CASE n.kind = "final"
    <2>1. n.of \in Ids /\ final[n.of] # None /\ final'[n.of] = final[n.of]
      BY <1>3, <1>4, <1>5, <1>6, NamesApart
    <2> QED
      BY <1>1, <1>3, <1>4, <1>5, <1>6, <2>1 DEF Inode, Listing
  <1>7. CASE n.kind # "final"
    <2>1. /\ n.kind = "temp" /\ n.of \in Files /\ Started(n.of)
          /\ n.of.of \in Publishers /\ n.of.try \in Nat
      BY <1>3, <1>4, <1>7, NamesApart DEF Files
    <2>2. CASE tries' = tries /\ temps' \subseteq temps
      BY <1>1, <1>3, <1>4, <1>5, <1>7, <2>1, <2>2 DEF Listing, Inode, Started
    <2>3. CASE tries' = [tries EXCEPT ![p] = @ + 1] /\ temps' = temps \cup {File(p)'}
      <3>1. n.of # File(p)' /\ Started(n.of)'
        BY <1>1, <2>1, <2>3 DEF Started, File
      <3> QED
        BY <1>1, <1>3, <1>4, <1>5, <1>7, <2>1, <2>3, <3>1 DEF Listing, Inode
    <2> QED
      BY <2>2, <2>3, EnsureAttempts
  <1> QED
    BY <1>6, <1>7

(* A lone sweep comes to judge an entry only by finding it old.            *)
LEMMA SweepJudged ==
  ASSUME TInv, LinkInv, JudgedInv, NEW s \in Sweepers, PruneBefore(s) \/ (s \in Cleaners /\ Remove(s)),
         UNCHANGED scenario
  PROVE  JudgedInv'
PROOF
  <1>1. /\ s \in Procs /\ \E l \in Labels : pc' = [pc EXCEPT ![s] = l]
        /\ pc \in [Procs -> Labels] /\ Sweepers \subseteq Procs
        /\ tries' = tries /\ old' = old
    BY SweepMoves DEF TInv, TypeOK, Procs
  <1>2. s \in scenario.procs
    BY DEF JudgedInv, PruneBefore, SweepList, SweepStat, SweepUnlink, SweepEnd,
           SweepFails, Remove, RemoveStat, RemoveUnlink
  <1>3. \A q \in Sweepers \ scenario.procs : pc'[q] = "done"
    BY <1>1, <1>2 DEF JudgedInv
  <1>4. SUFFICES ASSUME Alone(s), pc'[s] = "prune"
                 PROVE  /\ at'[s].kind = "final" => final'[at'[s].of] # None
                        /\ at'[s].kind = "temp" => Started(at[s].of)'
                        /\ (at[s] \in Listing)' => Inode(at[s])' \in old'
    BY <1>1, <1>2, <1>3 DEF JudgedInv, Alone
  <1>5. PICK n \in list[s] : /\ n \in Listing /\ Inode(n) \in old
                             /\ at' = [at EXCEPT ![s] = n]
                             /\ UNCHANGED files
    BY <1>1, <1>4 DEF PruneBefore, SweepList, SweepStat, SweepUnlink, SweepEnd, SweepFails,
                      SweepAborts, Remove, RemoveStat, RemoveUnlink, Goto, Return
  <1>6. /\ at'[s] = n /\ n \in Names
        /\ UNCHANGED << final, temps, old >>
        /\ n.kind = "final" => final[n.of] # None
        /\ n.kind # "final" => Started(n.of)
    BY <1>5, NamesApart DEF TInv, TypeOK, LinkInv, Listing, files
  <1>7. (at[s] \in Listing)' => Inode(at[s])' \in old'
    BY <1>5, <1>6 DEF Inode
  <1>8. Started(at[s].of)' = Started(n.of)
    BY <1>1, <1>6 DEF Started
  <1> QED
    BY <1>6, <1>7, <1>8

LEMMA EnvironmentJudged ==
  ASSUME TInv, JudgedInv, (\E p \in Procs : Kill(p)) \/ PowerFailure \/ Age,
         UNCHANGED scenario
  PROVE  JudgedInv'
PROOF
  <1>1. Sweepers \subseteq Procs /\ pc \in [Procs -> Labels]
    BY DEF Procs, TInv, TypeOK
  <1>2. ASSUME NEW p \in Procs, Kill(p) PROVE JudgedInv'
    <2>1. /\ pc' = [pc EXCEPT ![p] = "dead"] /\ pc[p] # "done"
          /\ UNCHANGED << final, temps, old, tries, at >>
      BY <1>2 DEF Kill, Goto, Running, files, sweep
    <2>2. \A s \in Sweepers : pc'[s] = "prune" => pc[s] = "prune"
      BY <1>1, <2>1
    <2> QED
      BY <1>1, <2>1, <2>2 DEF JudgedInv, Alone, Started, Listing, Inode
  <1>3. CASE PowerFailure
    <2>1. \A p \in Procs : pc'[p] = IF Running(p) THEN "dead" ELSE pc[p]
      BY <1>1, <1>3 DEF PowerFailure
    <2> QED
      BY <1>1, <2>1 DEF JudgedInv, Running
  <1>4. CASE Age
    <2>1. /\ UNCHANGED << final, temps, tries, pc, at >>
          /\ old' = {Inode(n) : n \in Listing}
      BY <1>4 DEF Age, sweep
    <2>2. Listing' = Listing /\ \A n \in Names : Inode(n)' = Inode(n)
      BY <2>1 DEF Listing, Inode
    <2>3. Listing \subseteq Names
      BY DEF Listing
    <2>4. \A s \in Sweepers : at'[s] \in Listing' => Inode(at[s])' \in old'
      BY <2>1, <2>2, <2>3
    <2> QED
      BY <2>1, <2>4 DEF JudgedInv, Alone, Started
  <1> QED
    BY <1>2, <1>3, <1>4

LEMMA JudgedInvariance == Spec => [](TInv /\ LinkInv /\ JudgedInv)
PROOF
  <1>1. Init => JudgedInv
    BY DEF Init, JudgedInv, Procs
  <1>2. TInv /\ LinkInv /\ JudgedInv /\ [Next]_vars => JudgedInv'
    <2> SUFFICES ASSUME TInv, LinkInv, JudgedInv, [Next]_vars PROVE JudgedInv'
      OBVIOUS
    <2>1. CASE UNCHANGED vars
      BY <2>1 DEF vars, files, sweep, JudgedInv, Alone, Started, Listing, Inode
    <2>2. CASE Next
      <3>1. ASSUME NEW c \in Cleaners, Remove(c), UNCHANGED scenario PROVE JudgedInv'
        BY <3>1, SweepJudged DEF Sweepers
      <3> QED
        BY <2>2, <3>1, EnsureJudged, SweepJudged, EnvironmentJudged DEF Next, Step
    <2> QED
      BY <2>1, <2>2
  <1> QED
    BY <1>1, <1>2, LinkInvariance, PTL DEF Spec

(* As long as nobody else removes entries, a sweep takes only what is past *)
(* retention when it takes it, however late after its Lstat that is and    *)
(* whatever any number of publishers do in between.                        *)
THEOREM SweepsTakeOldOnly == Spec => SweepTakesOldOnly
PROOF
  <1>1. TInv /\ JudgedInv /\ [Next]_vars =>
          [\A s \in Sweepers :
             scenario.procs \cap Sweepers = {s} /\ pc[s] = "prune" /\ pc'[s] = "stat" =>
               Inode(at[s]) \in old]_vars
    <2> SUFFICES ASSUME TInv, JudgedInv, Next, NEW s \in Sweepers,
                        Alone(s), pc[s] = "prune", pc'[s] = "stat"
                 PROVE  Inode(at[s]) \in old
      BY DEF Alone, vars
    <2>0. s \in Procs /\ s \notin Publishers /\ pc \in [Procs -> Labels]
      BY ProcsAssumption DEF Procs, TInv, TypeOK
    <2>1. ASSUME NEW p \in Publishers, Ensure(p) PROVE FALSE
      BY <2>0, <2>1, EnsureMoves
    <2>2. ASSUME NEW q \in Sweepers, q # s, PruneBefore(q) \/ Remove(q) PROVE FALSE
      BY <2>0, <2>2, SweepMoves
    <2>3. ASSUME (\E q \in Procs : Kill(q)) \/ PowerFailure \/ Age PROVE FALSE
      BY <2>0, <2>3 DEF Kill, PowerFailure, Age, Goto, Running
    <2>4. PruneBefore(s) \/ Remove(s)
      BY <2>1, <2>2, <2>3 DEF Next, Step, Sweepers
    <2>5. at[s] \in Listing
      BY <2>0, <2>4 DEF PruneBefore, SweepList, SweepStat, SweepUnlink, SweepEnd, SweepFails,
                        SweepAborts, Remove, RemoveStat, RemoveUnlink, Goto, Return
    <2> QED
      BY <2>5 DEF JudgedInv
  <1> QED
    BY <1>1, JudgedInvariance, PTL DEF Spec, SweepTakesOldOnly

-----------------------------------------------------------------------------
(* The refinement: the store is one register per candidate ID.             *)

(* What readers find, without asking whether the file is complete: LinkInv *)
(* says that it is, for every inode that a name links or may link to.      *)
Shown(q) == IF q = None THEN None ELSE content[q.of]

entries == [i \in Ids |-> Shown(final[i])]
keeps   == [i \in Ids |-> {Shown(q) : q \in pending[i]}]
answers == [p \in Publishers |-> result[p]]

LEMMA Complete ==
  ASSUME LinkInv
  PROVE  /\ [i \in Ids |-> Bytes(final[i])] = entries
         /\ [i \in Ids |-> {Bytes(q) : q \in pending[i]}] = keeps
PROOF
  <1>1. \A i \in Ids : final[i] \in pending[i] /\ \A q \in pending[i] : Bytes(q) = Shown(q)
    BY DEF LinkInv, Bytes, Shown
  <1>2. \A i \in Ids : {Bytes(q) : q \in pending[i]} = {Shown(q) : q \in pending[i]}
    BY <1>1
  <1> QED
    BY <1>1, <1>2 DEF entries, keeps

(* A publisher that runs has not been answered.                            *)
AnswerInv ==
  \A p \in Publishers : pc[p] \notin {"done", "dead"} => result[p] = "none"

LEMMA AnswerNext == TInv /\ AnswerInv /\ [Next]_vars => AnswerInv'
PROOF
  <1> SUFFICES ASSUME TInv, AnswerInv, [Next]_vars PROVE AnswerInv'
    OBVIOUS
  <1>0. /\ Publishers \subseteq Procs /\ pc \in [Procs -> Labels]
        /\ result \in [Procs -> Results]
    BY DEF Procs, TInv, TypeOK
  <1>1. ASSUME NEW p \in Publishers, Ensure(p) PROVE AnswerInv'
    <2>1. \/ pc'[p] = "done" \/ result' = result
      BY <1>0, <1>1 DEF Ensure, PutCreate, PutWrite, PutSync, PutLink, PutDirSync, PutVerify,
                        EnsureRead, EnsureSync, EnsureReread, RetryOrFail, Return,
                        ReturnPut, Goto
    <2>2. \A q \in Publishers \ {p} : pc'[q] = pc[q] /\ result'[q] = result[q]
      BY <1>0, <1>1, EnsureMoves
    <2>3. pc[p] \notin {"done", "dead"}
      BY <1>1 DEF Ensure, PutCreate, PutWrite, PutSync, PutLink, PutDirSync, PutVerify,
                  EnsureRead, EnsureSync, EnsureReread
    <2> QED
      BY <2>1, <2>2, <2>3 DEF AnswerInv
  <1>2. ASSUME NEW s \in Sweepers, PruneBefore(s) \/ Remove(s) PROVE AnswerInv'
    <2>1. \A p \in Publishers : pc'[p] = pc[p] /\ result'[p] = result[p]
      BY <1>0, <1>2, SweepMoves
    <2> QED
      BY <2>1 DEF AnswerInv
  <1>3. ASSUME NEW p \in Procs, Kill(p) PROVE AnswerInv'
    BY <1>0, <1>3 DEF Kill, Goto, AnswerInv
  <1>4. CASE PowerFailure
    <2>1. \A p \in Publishers : pc'[p] = IF Running(p) THEN "dead" ELSE pc[p]
      BY <1>0, <1>4 DEF PowerFailure
    <2>2. result' = result
      BY <1>4 DEF PowerFailure
    <2> QED
      BY <2>1, <2>2 DEF AnswerInv
  <1>5. CASE Age \/ UNCHANGED vars
    BY <1>5 DEF Age, vars, AnswerInv
  <1> QED
    BY <1>1, <1>2, <1>3, <1>4, <1>5 DEF Next, Step, Sweepers

(* The four things that a step of Ensure can be to a reader.               *)
LEMMA EnsureShows ==
  ASSUME TInv, LinkInv, NEW p \in Publishers, Ensure(p)
  PROVE  \/ UNCHANGED << final, pending, result >>
         \/ /\ pc[p] = "link" /\ final[id[p]] = None
            /\ Link(id[p], File(p)) /\ UNCHANGED result
         \/ syncRootDirectory /\ UNCHANGED << final, result >>
         \/ /\ UNCHANGED << final, pending >> /\ pc[p] \notin {"done", "dead"}
            /\ \E a \in {"ok", "conflict", "error"} :
                 /\ result' = [result EXCEPT ![p] = a]
                 /\ a = "ok" => Holds(id[p], p)
                 /\ a = "conflict" => final[id[p]] # None /\ ~Holds(id[p], p)
PROOF
  <1> USE DEF Return, ReturnPut, files
  <1>1. CASE PutCreate(p) \/ PutWrite(p) \/ PutSync(p) \/ PutVerify(p)
    BY <1>1 DEF PutCreate, PutWrite, PutSync, PutVerify
  <1>2. CASE PutLink(p) \/ PutDirSync(p) \/ EnsureSync(p)
    BY <1>2 DEF PutLink, PutDirSync, EnsureSync
  <1>3. CASE EnsureRead(p) \/ EnsureReread(p)
    BY <1>3 DEF EnsureRead, EnsureReread, RetryOrFail
  <1> QED
    BY <1>1, <1>2, <1>3 DEF Ensure

(* The primed form of Complete.                                            *)
LEMMA CompleteNext ==
  ASSUME LinkInv'
  PROVE  /\ [i \in Ids |-> Bytes(final[i])]' = entries'
         /\ [i \in Ids |-> {Bytes(q) : q \in pending[i]}]' = keeps'
PROOF
  <1>1. \A i \in Ids :
          final'[i] \in pending'[i] /\ \A q \in pending'[i] : Bytes(q)' = Shown(q)
    BY DEF LinkInv, Bytes, Shown
  <1>2. \A i \in Ids : {Bytes(q) : q \in pending[i]}' = {Shown(q) : q \in pending'[i]}
    BY <1>1
  <1> QED
    BY <1>1, <1>2 DEF entries, keeps

(* The steps of the register, in terms of entries, keeps and answers.      *)
LEMMA Publishes ==
  ASSUME LinkInv, LinkInv',
         NEW p \in Publishers, answers[p] = "none", entries[id[p]] = None,
         entries' = [entries EXCEPT ![id[p]] = content[p]],
         keeps' = [keeps EXCEPT ![id[p]] = @ \cup {content[p]}], answers' = answers
  PROVE  Register!Next
PROOF
  <1>1. Register!Publish(p)
    BY Complete, CompleteNext DEF Register!Publish, Register!Becomes, answers
  <1> QED
    BY <1>1 DEF Register!Next

LEMMA Answers ==
  ASSUME LinkInv, LinkInv',
         NEW p \in Publishers, NEW a \in {"ok", "conflict", "error"},
         answers[p] = "none", answers' = [answers EXCEPT ![p] = a],
         a = "ok" => entries[id[p]] = content[p],
         a = "conflict" => entries[id[p]] \notin {None, content[p]},
         UNCHANGED << entries, keeps >>
  PROVE  Register!Next
PROOF
  <1>1. Register!Answer(p, a)
    BY Complete, CompleteNext DEF Register!Answer, Register!Truthful, answers
  <1> QED
    BY <1>1 DEF Register!Next

LEMMA Withdraws ==
  ASSUME LinkInv, LinkInv',
         NEW i \in Ids, entries[i] # None, entries' = [entries EXCEPT ![i] = None],
         keeps' = [keeps EXCEPT ![i] = @ \cup {None}], answers' = answers
  PROVE  Register!Next
PROOF
  <1>1. Register!Withdraw(i)
    BY Complete, CompleteNext DEF Register!Withdraw, Register!Becomes, answers
  <1> QED
    BY <1>1 DEF Register!Next

LEMMA Settles ==
  ASSUME LinkInv, LinkInv',
         keeps' = [i \in Ids |-> {entries[i]}], UNCHANGED << entries, answers >>
  PROVE  Register!Next
PROOF
  <1>1. Register!Settle
    BY Complete, CompleteNext DEF Register!Settle, answers
  <1> QED
    BY <1>1 DEF Register!Next

LEMMA Fails ==
  ASSUME LinkInv, LinkInv',
         \A i \in Ids : entries'[i] \in keeps[i],
         keeps' = [i \in Ids |-> {entries'[i]}], answers' = answers
  PROVE  Register!Next
PROOF
  <1>1. Register!Fail
    BY Complete, CompleteNext DEF Register!Fail, answers
  <1> QED
    BY <1>1 DEF Register!Next

LEMMA Stutters ==
  ASSUME LinkInv, LinkInv',
         UNCHANGED << entries, keeps, answers >>
  PROVE  UNCHANGED Register!vars
PROOF
  BY Complete, CompleteNext DEF Register!vars, answers

(* Each step of the store is a step of the register or changes nothing of  *)
(* it.                                                                     *)
LEMMA RegisterNext ==
  ASSUME TInv, LinkInv, AnswerInv, [Next]_vars, LinkInv'
  PROVE  [Register!Next]_(Register!vars)
PROOF
  <1>0. /\ Publishers \subseteq Procs /\ result \in [Procs -> Results]
        /\ final \in [Ids -> Files \cup {None}]
        /\ pending \in [Ids -> SUBSET (Files \cup {None})]
        /\ None \notin Files
        /\ \A p \in Publishers : id[p] \in Ids /\ content[p] # None
        /\ \A p \in Publishers : pc[p] = "link" => File(p) \in Files
    BY ProcsAssumption, NoneAssumption DEF Procs, TInv, TypeOK, TriesInv
  <1>a. \A q \in Files : q # None /\ Shown(q) = content[q.of] /\ content[q.of] # None
    BY <1>0 DEF Files, Shown
  <1>b. Shown(None) = None
    BY DEF Shown
  <1>1. ASSUME UNCHANGED << final, pending, result >>
        PROVE  UNCHANGED Register!vars
    BY <1>1, Stutters DEF entries, keeps, answers
  <1>2. ASSUME NEW p \in Publishers, Ensure(p)
        PROVE  [Register!Next]_(Register!vars)
    <2>1. CASE pc[p] = "link" /\ final[id[p]] = None /\ Link(id[p], File(p)) /\ UNCHANGED result
      <3>1. answers[p] = "none" /\ answers' = answers
        BY <2>1 DEF AnswerInv, answers
      <3>0. File(p) \in Files /\ Shown(File(p)) = content[p]
        BY <1>0, <1>a, <2>1 DEF File
      <3>2. entries[id[p]] = None /\ entries' = [entries EXCEPT ![id[p]] = content[p]]
        <4>1. entries[id[p]] = None
          BY <1>0, <1>b, <2>1 DEF entries
        <4>2. \A i \in Ids : entries'[i] = IF i = id[p] THEN content[p] ELSE entries[i]
          BY <1>0, <2>1, <3>0 DEF Link, entries
        <4> QED
          BY <1>0, <4>1, <4>2 DEF entries
      <3>3. keeps' = [keeps EXCEPT ![id[p]] = @ \cup {content[p]}]
        <4>1. \A i \in Ids : pending'[i] = IF i = id[p] THEN pending[i] \cup {File(p)} ELSE pending[i]
          BY <1>0, <2>1 DEF Link
        <4>2. {Shown(q) : q \in pending[id[p]] \cup {File(p)}}
                = {Shown(q) : q \in pending[id[p]]} \cup {content[p]}
          BY <3>0
        <4> QED
          BY <1>0, <4>1, <4>2 DEF keeps
      <3> QED
        BY <3>1, <3>2, <3>3, Publishes
    <2>2. CASE syncRootDirectory /\ UNCHANGED << final, result >>
      <3>1. keeps' = [i \in Ids |-> {entries[i]}]
        BY <2>2 DEF syncRootDirectory, keeps, entries
      <3>2. UNCHANGED << entries, answers >>
        BY <2>2 DEF entries, answers
      <3> QED
        BY <3>1, <3>2, Settles
    <2>3. ASSUME NEW a \in {"ok", "conflict", "error"},
                 UNCHANGED << final, pending >>, pc[p] \notin {"done", "dead"},
                 result' = [result EXCEPT ![p] = a],
                 a = "ok" => Holds(id[p], p),
                 a = "conflict" => final[id[p]] # None /\ ~Holds(id[p], p)
          PROVE  Register!Next
      <3>1. answers[p] = "none" /\ answers' = [answers EXCEPT ![p] = a]
        BY <1>0, <2>3 DEF AnswerInv, answers
      <3>2. UNCHANGED << entries, keeps >>
        BY <2>3 DEF entries, keeps
      <3>3. /\ a = "ok" => entries[id[p]] = content[p]
            /\ a = "conflict" => entries[id[p]] \notin {None, content[p]}
        <4>1. entries[id[p]] = Shown(final[id[p]])
          BY <1>0 DEF entries
        <4>2. final[id[p]] \in Files \cup {None}
          BY <1>0
        <4> QED
          BY <1>0, <1>a, <2>3, <4>1, <4>2 DEF Holds
      <3> QED
        BY <3>1, <3>2, <3>3, Answers
    <2> QED
      BY <1>1, <1>2, <2>1, <2>2, <2>3, EnsureShows
  <1>3. ASSUME NEW n \in Names, Unlink(n), \A p \in Publishers : result'[p] = result[p]
        PROVE  [Register!Next]_(Register!vars)
    <2>0. answers' = answers
      BY <1>3 DEF answers
    <2>1. CASE n.kind = "final" /\ final[n.of] # None
      <3>1. n.of \in Ids /\ final[n.of] \in Files
        BY <1>0, <2>1, NamesApart
      <3>2. entries[n.of] # None /\ entries' = [entries EXCEPT ![n.of] = None]
        <4>1. entries[n.of] # None
          BY <1>a, <3>1 DEF entries
        <4>2. \A i \in Ids : entries'[i] = IF i = n.of THEN None ELSE entries[i]
          BY <1>0, <1>b, <1>3, <2>1, <3>1 DEF Unlink, entries
        <4> QED
          BY <4>1, <4>2 DEF entries
      <3>3. keeps' = [keeps EXCEPT ![n.of] = @ \cup {None}]
        <4>1. \A i \in Ids :
                pending'[i] = IF i = n.of THEN pending[i] \cup {None} ELSE pending[i]
          BY <1>0, <1>3, <2>1 DEF Unlink
        <4>2. {Shown(q) : q \in pending[n.of] \cup {None}}
                = {Shown(q) : q \in pending[n.of]} \cup {None}
          BY DEF Shown
        <4> QED
          BY <3>1, <4>1, <4>2 DEF keeps
      <3> QED
        BY <2>0, <3>1, <3>2, <3>3, Withdraws
    <2>2. CASE n.kind # "final" \/ final[n.of] = None
      <3>1. CASE n.kind # "final"
        BY <1>3, <2>0, <3>1, Stutters DEF Unlink, entries, keeps
      <3>2. CASE n.kind = "final" /\ final[n.of] = None
        <4>1. n.of \in Ids /\ None \in pending[n.of]
          BY <3>2, NamesApart DEF LinkInv
        <4>2. /\ final' = [final EXCEPT ![n.of] = None]
              /\ pending' = [pending EXCEPT ![n.of] = @ \cup {None}]
          BY <1>3, <3>2 DEF Unlink
        <4>3. final' = final
          BY <1>0, <3>2, <4>1, <4>2
        <4>4. pending' = pending
          <5>1. pending[n.of] \cup {None} = pending[n.of]
            BY <4>1
          <5> QED
            BY <1>0, <4>1, <4>2, <5>1
        <4> QED
          BY <2>0, <4>3, <4>4, Stutters DEF entries, keeps
      <3> QED
        BY <2>2, <3>1, <3>2
    <2> QED
      BY <2>1, <2>2
  <1>4. ASSUME NEW s \in Sweepers, PruneBefore(s) \/ (s \in Cleaners /\ Remove(s))
        PROVE  [Register!Next]_(Register!vars)
    <2>1. \A p \in Publishers : result'[p] = result[p]
      BY <1>0, <1>4, SweepMoves
    <2>2. CASE UNCHANGED << final, pending >>
      BY <2>1, <2>2, Stutters DEF entries, keeps, answers
    <2>3. CASE ~UNCHANGED << final, pending >>
      <3>1. PICK n \in Names : Unlink(n)
        BY <1>4, <2>3, SweepRemoves
      <3> QED
        BY <1>3, <2>1, <3>1
    <2> QED
      BY <2>2, <2>3
  <1>5. CASE PowerFailure
    <2>1. /\ \A i \in Ids : final'[i] \in pending[i]
          /\ pending' = [i \in Ids |-> {final'[i]}] /\ result' = result
      BY <1>5 DEF PowerFailure
    <2>2. \A i \in Ids : entries'[i] \in keeps[i]
      BY <2>1 DEF entries, keeps
    <2>3. keeps' = [i \in Ids |-> {entries'[i]}] /\ answers' = answers
      BY <2>1 DEF entries, keeps, answers
    <2> QED
      BY <2>2, <2>3, Fails
  <1>6. CASE (\E p \in Procs : Kill(p)) \/ Age \/ UNCHANGED vars
    BY <1>1, <1>6 DEF Kill, Age, vars, files
  <1>7. ASSUME NEW c \in Cleaners, Remove(c) PROVE [Register!Next]_(Register!vars)
    BY <1>4, <1>7 DEF Sweepers
  <1> QED
    BY <1>2, <1>4, <1>5, <1>6, <1>7 DEF Next, Step

(* The quarantine is what candidate write takes it for: one entry per      *)
(* candidate ID, published complete or not at all, never replaced, found   *)
(* again by a converging publisher, and taken back by a power failure only *)
(* to something it was since the last directory sync.                      *)
THEOREM RegisterImplemented == Spec => ImplementsRegister
PROOF
  <1>1. Init => Register!Init /\ AnswerInv
    BY DEF Init, Register!Init, AnswerInv, Bytes, Procs
  <1>2. TInv /\ LinkInv /\ AnswerInv /\ [Next]_vars /\ LinkInv' => [Register!Next]_(Register!vars)
    BY RegisterNext
  <1> QED
    BY <1>1, <1>2, AnswerNext, LinkInvariance, PTL DEF Spec, ImplementsRegister, Register!Spec
=============================================================================
