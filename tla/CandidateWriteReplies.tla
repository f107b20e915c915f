------------------------ MODULE CandidateWriteReplies ------------------------
(***************************************************************************)
(* What the callers of PrepareWriteCandidate and AcceptWriteCandidate are  *)
(* told, for any number of invocations and requests: proofs that the       *)
(* answers agree with the authoritative history, and that candidate write  *)
(* implements AbstractLedger.                                              *)
(***************************************************************************)
EXTENDS CandidateWriteProofs, CandidateWriteRefinement

-----------------------------------------------------------------------------
(* Histories, as prefixes.                                                 *)

LEMMA InHistoryReflexive ==
  ASSUME NEW h \in Commits
  PROVE  InHistory(h, h)
PROOF
  BY DEF InHistory, Commits

LEMMA InHistoryTransitive ==
  ASSUME NEW f \in Commits, NEW g \in Commits, NEW h \in Commits,
         InHistory(f, g), InHistory(g, h)
  PROVE  InHistory(f, h)
PROOF
  <1>1. Len(f) \in Nat /\ Len(g) \in Nat /\ Len(h) \in Nat
    BY DEF Commits
  <1> QED
    BY <1>1 DEF InHistory

LEMMA InHistoryAppend ==
  ASSUME NEW h \in Commits, NEW r \in Requests
  PROVE  InHistory(h, Append(h, r))
PROOF
  <1>1. Len(h) \in Nat
    BY DEF Commits
  <1> QED
    BY <1>1, AppendType DEF InHistory

(* One more event adds one commit to the history.                          *)
LEMMA InHistoryOfAppend ==
  ASSUME NEW g \in Commits, NEW h \in Commits, NEW r \in Requests,
         InHistory(g, Append(h, r)), ~InHistory(g, h)
  PROVE  g = Append(h, r)
PROOF
  <1> DEFINE k == Append(h, r)
  <1>1. /\ Len(g) \in Nat /\ Len(h) \in Nat
        /\ k \in Commits /\ Len(k) = Len(h) + 1
        /\ \A i \in 1..Len(h) : k[i] = h[i]
    BY AppendType DEF Commits
  <1> HIDE DEF k
  <1>2. Len(g) <= Len(k) /\ \A i \in 1..Len(g) : g[i] = k[i]
    BY DEF InHistory, k
  <1>3. ~(Len(g) <= Len(h))
    BY <1>1, <1>2 DEF InHistory
  <1>4. Len(g) = Len(k)
    BY <1>1, <1>2, <1>3
  <1>5. g = k
    BY <1>1, <1>2, <1>4, SeqEqual DEF Commits
  <1> QED
    BY <1>5 DEF k

(* A commit is a prefix of every history it is in.                         *)
LEMMA InHistoryPrefix ==
  ASSUME NEW g \in Commits, NEW h \in Commits, InHistory(g, h)
  PROVE  SubSeq(h, 1, Len(g)) = g
PROOF
  <1>1. Len(g) \in 0..Len(h) /\ \A i \in 1..Len(g) : g[i] = h[i]
    BY DEF InHistory, Commits
  <1>2. /\ SubSeq(h, 1, Len(g)) \in Commits
        /\ Len(SubSeq(h, 1, Len(g))) = Len(g)
        /\ \A i \in 1..Len(g) : SubSeq(h, 1, Len(g))[i] = h[i]
    BY <1>1, PrefixType
  <1> QED
    BY <1>1, <1>2, SeqEqual DEF Commits

LEMMA PrefixInHistory ==
  ASSUME NEW h \in Commits, NEW n \in 0..Len(h)
  PROVE  InHistory(SubSeq(h, 1, n), h)
PROOF
  <1>1. n \in Nat /\ n <= Len(h)
    BY DEF Commits
  <1> QED
    BY <1>1, PrefixType DEF InHistory

-----------------------------------------------------------------------------
(* Lookups in a history that Replay accepts.                               *)

(* Replay demands unique keys, and of every event the parent it names.     *)
LEMMA ReplayedEvent ==
  ASSUME NEW h \in Commits, Replayable(h), NEW i \in 1..Len(h)
  PROVE  /\ expected[h[i]] = SubSeq(h, 1, i - 1)
         /\ \A j \in 1..Len(h) : key[h[j]] = key[h[i]] => j = i
PROOF
  <1>1. Len(h) \in Nat
    BY DEF Commits
  <1>2. ASSUME NEW m \in 1..Len(h), NEW j \in 1..(m - 1)
        PROVE  key[h[j]] # key[h[m]]
    <2>1. m - 1 \in 0..Len(h)
      BY <1>1
    <2>2. Len(SubSeq(h, 1, m - 1)) = m - 1 /\ SubSeq(h, 1, m - 1)[j] = h[j]
      BY <2>1, PrefixType
    <2>3. KeyFree(SubSeq(h, 1, m - 1), h[m])
      BY DEF Replayable
    <2> QED
      BY <2>2, <2>3 DEF KeyFree
  <1>3. ASSUME NEW j \in 1..Len(h), key[h[j]] = key[h[i]]
        PROVE  j = i
    <2>1. ~(j \in 1..(i - 1)) /\ ~(i \in 1..(j - 1))
      BY <1>2, <1>3
    <2> QED
      BY <1>1, <2>1
  <1> QED
    BY <1>3 DEF Replayable, Admissible

(* The event with r's key is the one that the lookup finds.                *)
LEMMA FoundAtUnique ==
  ASSUME NEW h \in Commits, Replayable(h), NEW r \in Requests,
         NEW i \in 1..Len(h), key[h[i]] = key[r]
  PROVE  ~KeyFree(h, r) /\ FoundAt(h, r) = i
PROOF
  <1>1. ~KeyFree(h, r)
    BY DEF KeyFree
  <1>2. FoundAt(h, r) \in 1..Len(h) /\ key[h[FoundAt(h, r)]] = key[r]
    BY <1>1, FoundAtIndex
  <1> QED
    BY <1>1, <1>2, ReplayedEvent

(* Some event of h is the identical request.                               *)
Durable(h, r) == \E i \in 1..Len(h) : SameRequest(h[i], r)

LEMMA HistoryRequests ==
  ASSUME NEW h \in Commits, NEW i \in 1..Len(h)
  PROVE  h[i] \in Requests
PROOF
  BY DEF Commits

(* The idempotency lookup on a replayable history is exact: it finds a     *)
(* retry exactly when the identical request is durable, a conflict exactly *)
(* when another request holds the key.                                     *)
LEMMA LookupExact ==
  ASSUME NEW h \in Commits, Replayable(h), NEW r \in Requests
  PROVE  /\ Retry(h, r) <=> Durable(h, r)
         /\ Conflict(h, r) <=> ~KeyFree(h, r) /\ ~Durable(h, r)
         /\ KeyFree(h, r) => ~Durable(h, r)
PROOF
  <1>1. ASSUME NEW i \in 1..Len(h), SameRequest(h[i], r)
        PROVE  ~KeyFree(h, r) /\ FoundAt(h, r) = i
    <2>1. key[h[i]] = key[r]
      BY <1>1, HistoryRequests, DocumentsAssumption DEF SameRequest
    <2> QED
      BY <2>1, FoundAtUnique
  <1>2. ~KeyFree(h, r) => FoundAt(h, r) \in 1..Len(h)
    BY FoundAtIndex
  <1>3. Durable(h, r) => ~KeyFree(h, r) /\ SameRequest(h[FoundAt(h, r)], r)
    BY <1>1 DEF Durable
  <1>4. ~KeyFree(h, r) /\ SameRequest(h[FoundAt(h, r)], r) => Durable(h, r)
    BY <1>2 DEF Durable
  <1> QED
    BY <1>3, <1>4 DEF Retry, Conflict

(* A candidate in the history is what the lookup of its request returns.   *)
LEMMA CandidateFound ==
  ASSUME NEW b \in Commits, NEW r \in Requests, NEW h \in Commits, Replayable(h),
         InHistory(Append(b, r), h)
  PROVE  /\ Retry(h, r)
         /\ SubSeq(h, 1, FoundAt(h, r)) = Append(b, r)
PROOF
  <1> DEFINE g == Append(b, r)
             n == Len(b) + 1
  <1>1. g \in Commits /\ Len(g) = n /\ g[n] = r /\ Len(b) \in Nat /\ Len(h) \in Nat
    BY AppendType DEF Commits
  <1> HIDE DEF g
  <1>2. n \in 1..Len(h) /\ h[n] = g[n]
    BY <1>1 DEF InHistory, g
  <1>3. ~KeyFree(h, r) /\ FoundAt(h, r) = n
    BY <1>1, <1>2, FoundAtUnique
  <1>4. SubSeq(h, 1, n) = g
    BY <1>1, InHistoryPrefix DEF g
  <1>5. SameRequest(h[n], r)
    BY <1>1, <1>2 DEF SameRequest
  <1> QED
    BY <1>3, <1>4, <1>5 DEF Retry, g

(* A request whose parent is no longer the head, and that is not durable,  *)
(* never becomes durable; nor does one whose key another request holds.    *)
Lost(h, r) ==
  \A g \in Commits : InHistory(h, g) /\ Replayable(g) => ~Durable(g, r)

LEMMA StaleIsLost ==
  ASSUME NEW b \in Commits, NEW r \in Requests, NEW h \in Commits, Replayable(h),
         expected[r] = b, InHistory(b, h), b # h, ~Durable(h, r)
  PROVE  Lost(h, r)
PROOF
  <1> SUFFICES ASSUME NEW g \in Commits, InHistory(h, g), Replayable(g),
                      NEW i \in 1..Len(g), SameRequest(g[i], r)
               PROVE  FALSE
    BY DEF Lost, Durable
  <1>1. Len(b) \in Nat /\ Len(h) \in Nat /\ Len(g) \in Nat
    BY DEF Commits
  <1>2. expected[g[i]] = b
    BY HistoryRequests, DocumentsAssumption DEF SameRequest
  <1>3. SubSeq(g, 1, i - 1) = b
    BY <1>2, ReplayedEvent
  <1>4. Len(b) = i - 1
    <2>1. i - 1 \in 0..Len(g)
      BY <1>1
    <2> QED
      BY <1>3, <2>1, PrefixType
  <1>5. Len(b) < Len(h)
    <2>1. Len(b) <= Len(h)
      BY DEF InHistory
    <2>2. Len(b) # Len(h)
      <3>1. SUFFICES ASSUME Len(b) = Len(h) PROVE b = h
        OBVIOUS
      <3>2. \A j \in 1..Len(b) : b[j] = h[j]
        BY DEF InHistory
      <3> QED
        BY <3>1, <3>2, SeqEqual DEF Commits
    <2> QED
      BY <1>1, <2>1, <2>2
  <1>6. i \in 1..Len(h)
    BY <1>1, <1>4, <1>5
  <1>7. h[i] = g[i]
    BY <1>6 DEF InHistory
  <1> QED
    BY <1>6, <1>7 DEF Durable

LEMMA ConflictIsLost ==
  ASSUME NEW r \in Requests, NEW h \in Commits, Replayable(h),
         ~KeyFree(h, r), ~Durable(h, r)
  PROVE  Lost(h, r)
PROOF
  <1> SUFFICES ASSUME NEW g \in Commits, InHistory(h, g), Replayable(g),
                      NEW i \in 1..Len(g), SameRequest(g[i], r)
               PROVE  FALSE
    BY DEF Lost, Durable
  <1>1. PICK j \in 1..Len(h) : key[h[j]] = key[r]
    BY DEF KeyFree
  <1>2. j \in 1..Len(g) /\ g[j] = h[j]
    <2>1. Len(h) \in Nat /\ Len(g) \in Nat
      BY DEF Commits
    <2> QED
      BY <2>1 DEF InHistory
  <1>3. key[g[i]] = key[r]
    BY HistoryRequests, DocumentsAssumption DEF SameRequest
  <1>4. i = j
    BY <1>1, <1>2, <1>3, ReplayedEvent
  <1> QED
    BY <1>1, <1>2, <1>4 DEF Durable

LEMMA LostStays ==
  ASSUME NEW g \in Commits, NEW h \in Commits, NEW r, InHistory(g, h), Lost(g, r)
  PROVE  Lost(h, r)
PROOF
  BY InHistoryTransitive DEF Lost

-----------------------------------------------------------------------------
(* Responses.                                                              *)

(* What response x claims about request r and candidate g is true of h.    *)
ResponseTrue(x, g, r, h) ==
  /\ x.status \in {"accepted", "already_accepted"} =>
       /\ x.accepted \in Commits /\ x.ledger \in Commits
       /\ x.accepted # << >>
       /\ InHistory(x.accepted, x.ledger)
       /\ InHistory(x.ledger, h)
       /\ SameRequest(x.accepted[Len(x.accepted)], r)
  /\ x.status = "accepted" => x.accepted = g
  /\ x.status = "accepted_verification_failed" => x.accepted = g /\ InHistory(g, h)

LEMMA ResponseStaysTrue ==
  ASSUME NEW x, NEW g \in Commits, NEW r, NEW h \in Commits, NEW k \in Commits,
         InHistory(h, k), ResponseTrue(x, g, r, h)
  PROVE  ResponseTrue(x, g, r, k)
PROOF
  BY InHistoryTransitive DEF ResponseTrue

(* The response that responseFromAccepted derives from a snapshot.         *)
LEMMA LookupResponseTrue ==
  ASSUME NEW st, NEW h \in Commits, NEW r \in Requests, NEW g, Retry(h, r),
         st = "accepted" => SubSeq(h, 1, FoundAt(h, r)) = g,
         st # "accepted_verification_failed"
  PROVE  ResponseTrue(responseFromAccepted(st, h, r), g, r, h)
PROOF
  <1> DEFINE n == FoundAt(h, r)
             a == SubSeq(h, 1, n)
  <1>1. n \in 1..Len(h) /\ Len(h) \in Nat /\ SameRequest(h[n], r)
    BY FoundAtIndex DEF Retry, Commits
  <1> HIDE DEF n
  <1>2. n \in 0..Len(h) /\ n \in 1..n /\ n # 0
    BY <1>1
  <1>3. a \in Commits /\ Len(a) = n /\ a[n] = h[n] /\ InHistory(a, h) /\ InHistory(h, h)
    BY <1>2, PrefixType, PrefixInHistory, InHistoryReflexive
  <1>4. a # << >>
    BY <1>2, <1>3
  <1> QED
    BY <1>1, <1>3, <1>4 DEF ResponseTrue, responseFromAccepted, n

(* Responses that claim nothing about the history.                         *)
LEMMA ModestResponses ==
  ASSUME NEW g, NEW r, NEW h
  PROVE  /\ \A e : ResponseTrue(Refuse(e), g, r, h)
         /\ ResponseTrue(Prepared, g, r, h)
         /\ \A l : ResponseTrue(unknown(l), g, r, h)
PROOF
  BY DEF ResponseTrue, Refuse, Prepared, unknown

(* A claim of acceptance that is true makes the request durable.           *)
LEMMA ClaimMeansDurable ==
  ASSUME NEW x, NEW b \in Commits, NEW r \in Requests, NEW h \in Commits,
         ResponseTrue(x, Append(b, r), r, h),
         x.status \in {"accepted", "already_accepted", "accepted_verification_failed"}
  PROVE  Durable(h, r)
PROOF
  <1>1. PICK a \in Commits : a # << >> /\ InHistory(a, h) /\ SameRequest(a[Len(a)], r)
    <2>1. CASE x.status = "accepted_verification_failed"
      <3>1. Append(b, r) \in Commits /\ Len(Append(b, r)) = Len(b) + 1
              /\ Append(b, r)[Len(b) + 1] = r /\ Len(b) \in Nat
        BY AppendType DEF Commits
      <3>2. InHistory(Append(b, r), h)
        BY <2>1 DEF ResponseTrue
      <3>3. Append(b, r) # << >>
        BY <3>1
      <3> QED
        BY <3>1, <3>2, <3>3 DEF SameRequest
    <2>2. CASE x.status # "accepted_verification_failed"
      BY <2>2, InHistoryTransitive DEF ResponseTrue
    <2> QED
      BY <2>1, <2>2
  <1>2. Len(a) \in 1..Len(h) /\ a[Len(a)] = h[Len(a)]
    <2>1. Len(a) \in Nat /\ Len(h) \in Nat /\ Len(a) # 0
      BY <1>1, EmptySeq DEF Commits
    <2> QED
      BY <1>1, <2>1 DEF InHistory
  <1> QED
    BY <1>1, <1>2 DEF Durable

-----------------------------------------------------------------------------
(* The inductive invariant, call by call: what holds of a call c at label  *)
(* l with response x that works on request r and snapshot b.               *)

Preparing     == {"stage", "commit", "bind", "verify", "reconcile"}
Settling      == {"updated", "failed", "settle", "recovered", "post", "unbind",
                  "done", "crashed"}
MoverStatuses == {"accepted", "already_accepted", "acceptance_unknown",
                  "accepted_verification_failed"}

(* A denial that waits for the removal of the bound entry before it is     *)
(* returned: it must still be right then.                                  *)
Denied(x, r) ==
  /\ Lost(head, r)
  /\ x = Refuse("stale") \/ (x = Refuse("conflict") /\ ~KeyFree(head, r))

CallGood(c, l, x, b, r) ==
  /\ InHistory(b, head)
  /\ ResponseTrue(x, Append(b, r), r, head)
  /\ x.status = "accepted" => c \in published
  /\ c \in published =>
       /\ InHistory(Append(b, r), head)
       /\ l \in Settling
       /\ l \in {"unbind", "done"} => x.status \in MoverStatuses
  /\ l \in {"updated", "post"} => c \in published
  /\ l = "recovered" => InHistory(Append(b, r), head)
  /\ l = "stale" => b # head
  /\ l = "unbind" => b # head \/ (IoFails /\ x = unknown(NoCommit))
  /\ l = "unbind" => x.status \in MoverStatuses \/ Denied(x, r)
  /\ l = "idle" => x = Refuse("nil")
  /\ l = "recover" => x \in {Refuse("stale"), Refuse("invalid")}
  /\ l = "cleanup" => x.status = "already_accepted"
  /\ l \in Preparing => KeyFree(b, r) /\ expected[r] = b

CallInv == \A c \in Calls : CallGood(c, pc[c], reply[c], base[c], req[c])

(* An answer x of call c about request r that the history bears out at the *)
(* moment it is given.                                                     *)
Honest(c, r, x) ==
  \/ x.status = "accepted" /\ c \in published
  \/ x.status \in {"already_accepted", "accepted_verification_failed"} /\ Durable(head, r)
  \/ x.status = "acceptance_unknown"
  \/ x.status = "prepared" /\ ~Durable(head, r)
  \/ /\ x.status = "none"
     /\ \/ x.err \in {"stale", "invalid", "event_id"} /\ ~Durable(head, r)
        \/ x.err = "conflict" /\ ~KeyFree(head, r) /\ ~Durable(head, r)
        \/ x.err \notin {"stale", "invalid", "event_id", "conflict"} /\ c \notin published

StepGood(c, l, x, b, r) ==
  /\ CallGood(c, l, x, b, r)
  /\ l = "done" => Honest(c, r, x)

(* The invariant of a call survives what others do to the ref.             *)
LEMMA GoodGrows ==
  ASSUME NEW c, NEW l, NEW x, NEW b \in Commits, NEW r \in Requests,
         head \in Commits, head' \in Commits, InHistory(head, head'),
         c \in published' <=> c \in published,
         CallGood(c, l, x, b, r)
  PROVE  CallGood(c, l, x, b, r)'
PROOF
  <1> DEFINE g == Append(b, r)
  <1>1. g \in Commits
    BY AppendType
  <1> HIDE DEF g
  <1>2. InHistory(b, head') /\ (InHistory(g, head) => InHistory(g, head'))
    BY <1>1, InHistoryTransitive DEF CallGood
  <1>3. ResponseTrue(x, g, r, head')
    BY <1>1, ResponseStaysTrue DEF CallGood, g
  <1>4. b # head => b # head'
    <2>1. SUFFICES ASSUME b = head' PROVE b = head
      OBVIOUS
    <2>2. /\ Len(b) \in Nat /\ Len(head) \in Nat
          /\ Len(b) <= Len(head) /\ Len(head) <= Len(b)
          /\ \A i \in 1..Len(b) : b[i] = head[i]
      BY <2>1 DEF CallGood, InHistory, Commits
    <2>3. Len(b) = Len(head)
      BY <2>2
    <2> QED
      BY <2>2, <2>3, SeqEqual DEF Commits
  <1>5. Denied(x, r) => Denied(x, r)'
    <2>1. Lost(head, r) => Lost(head', r)
      BY LostStays
    <2>2. ~KeyFree(head, r) => ~KeyFree(head', r)
      <3>1. Len(head) \in Nat /\ Len(head') \in Nat
        BY DEF Commits
      <3> QED
        BY <3>1 DEF KeyFree, InHistory
    <2> QED
      BY <2>1, <2>2 DEF Denied
  <1>6. IoFails' = IoFails
    BY DEF IoFails
  <1> QED
    BY <1>2, <1>3, <1>4, <1>5, <1>6 DEF CallGood, g

(* Ways in which the actor's own step keeps its invariant: it returns,     *)
(* it goes to recovery, or it goes on with the response it had.            *)
LEMMA ReturnGood ==
  ASSUME NEW c, NEW x, NEW b, NEW r,
         InHistory(b, head), ResponseTrue(x, Append(b, r), r, head),
         x.status = "accepted" => c \in published,
         c \in published => InHistory(Append(b, r), head) /\ x.status \in MoverStatuses,
         Honest(c, r, x)
  PROVE  StepGood(c, "done", x, b, r)
PROOF
  BY DEF StepGood, CallGood, Settling, Preparing

LEMMA RefuseGood ==
  ASSUME NEW c, NEW e, NEW b, NEW r,
         InHistory(b, head), c \notin published,
         \/ e \notin {"stale", "invalid", "event_id", "conflict"}
         \/ e \in {"stale", "invalid", "event_id"} /\ ~Durable(head, r)
         \/ e = "conflict" /\ ~KeyFree(head, r) /\ ~Durable(head, r)
  PROVE  StepGood(c, "done", Refuse(e), b, r)
PROOF
  <1>1. Refuse(e).status = "none" /\ Refuse(e).err = e
    BY DEF Refuse
  <1>2. Honest(c, r, Refuse(e))
    BY <1>1 DEF Honest
  <1> QED
    BY <1>1, <1>2, ModestResponses, ReturnGood

LEMMA UnknownGood ==
  ASSUME NEW c, NEW g, NEW b, NEW r, InHistory(b, head),
         c \in published => InHistory(Append(b, r), head)
  PROVE  StepGood(c, "done", unknown(g), b, r)
PROOF
  <1>1. unknown(g).status = "acceptance_unknown"
    BY DEF unknown
  <1> QED
    BY <1>1, ModestResponses, ReturnGood DEF Honest, MoverStatuses

LEMMA RecoverGood ==
  ASSUME NEW c, NEW e \in {"stale", "invalid"}, NEW b, NEW r,
         InHistory(b, head), c \notin published
  PROVE  StepGood(c, "recover", Refuse(e), b, r)
PROOF
  <1>1. Refuse(e).status = "none"
    BY DEF Refuse
  <1> QED
    BY <1>1, ModestResponses DEF StepGood, CallGood, Preparing

LEMMA GoOnGood ==
  ASSUME NEW c, NEW k, NEW l, NEW x, NEW b, NEW r, CallGood(c, k, x, b, r),
         l \notin {"idle", "unbind", "recover", "cleanup", "done"},
         l \in {"updated", "post"} => c \in published,
         l = "recovered" => InHistory(Append(b, r), head),
         l = "stale" => b # head,
         l \in Preparing => k \in Preparing,
         c \in published => l \in Settling
  PROVE  StepGood(c, l, x, b, r)
PROOF
  BY DEF StepGood, CallGood

-----------------------------------------------------------------------------
(* The steps of PrepareWriteCandidate.                                     *)

(* What a step of call c finds: the types, and the invariant of c.         *)
LEMMA Found ==
  ASSUME IInv, CallInv, NEW c \in Calls
  PROVE  /\ head \in Commits /\ Replayable(head)
         /\ base[c] \in Commits /\ req[c] \in Requests /\ reply[c] \in Response
         /\ candidate(c) = Append(base[c], req[c])
         /\ candidate(c) \in Commits
         /\ CallGood(c, pc[c], reply[c], base[c], req[c])
         /\ InHistory(base[c], head)
         /\ pc[c] \notin Settling => c \notin published
PROOF
  <1>1. TypeOK /\ HeadReplays
    BY DEF IInv
  <1>2. CallGood(c, pc[c], reply[c], base[c], req[c])
    BY DEF CallInv
  <1> QED
    BY <1>1, <1>2, CandidateType DEF TypeOK, HeadReplays, candidate, CallGood

LEMMA PrepareGood ==
  ASSUME IInv, CallInv, NEW c \in Calls,
         PrepareStage(c) \/ PrepareCommit(c) \/ PrepareBind(c) \/ PrepareVerify(c)
  PROVE  StepGood(c, pc'[c], reply'[c], base[c], req[c])
PROOF
  <1> USE DEF Goto, Answer, Return
  <1>1. /\ pc[c] \in Preparing /\ pc[c] \notin Settling
        /\ pc \in [Calls -> Labels] /\ reply \in [Calls -> Response]
    BY DEF PrepareStage, PrepareCommit, PrepareBind, PrepareVerify, Preparing,
           Settling, IInv, TypeOK
  <1>2. \/ /\ pc'[c] = "done"
           /\ \E e \in {"staging", "commit"} : reply'[c] = Refuse(e)
        \/ /\ pc'[c] = "recover"
           /\ \E e \in {"stale", "invalid"} : reply'[c] = Refuse(e)
        \/ pc'[c] \in Preparing /\ reply'[c] = reply[c]
    <2>1. CASE PrepareStage(c)
      BY <1>1, <2>1 DEF PrepareStage, Preparing
    <2>2. CASE PrepareCommit(c)
      BY <1>1, <2>2 DEF PrepareCommit, Preparing
    <2>3. CASE PrepareBind(c)
      BY <1>1, <2>3 DEF PrepareBind, Preparing
    <2>4. CASE PrepareVerify(c)
      BY <1>1, <2>4 DEF PrepareVerify, Preparing
    <2> QED
      BY <2>1, <2>2, <2>3, <2>4
  <1>3. /\ CallGood(c, pc[c], reply[c], base[c], req[c])
        /\ InHistory(base[c], head) /\ c \notin published
    BY <1>1, Found
  <1>4. CASE pc'[c] = "done"
    BY <1>2, <1>3, <1>4, RefuseGood DEF Preparing
  <1>5. CASE pc'[c] = "recover"
    BY <1>2, <1>3, <1>5, RecoverGood DEF Preparing
  <1>6. CASE pc'[c] \in Preparing
    <2>1. reply'[c] = reply[c]
      BY <1>2, <1>6 DEF Preparing
    <2>2. pc'[c] \notin {"idle", "unbind", "recover", "cleanup", "done",
                         "updated", "post", "recovered", "stale"}
      BY <1>6 DEF Preparing
    <2> QED
      BY <1>1, <1>3, <1>6, <2>1, <2>2, GoOnGood
  <1> QED
    BY <1>2, <1>4, <1>5, <1>6

(* recoverCandidateAfterStaleCAS, by what the history says of r.           *)
LEMMA TracedCases ==
  ASSUME NEW h \in Commits, Replayable(h), NEW r \in Requests, NEW y
  PROVE  \/ /\ Retry(h, r) /\ Durable(h, r)
            /\ Traced(h, r, y) = responseFromAccepted("already_accepted", h, r)
         \/ /\ ~KeyFree(h, r) /\ ~Durable(h, r)
            /\ Traced(h, r, y) = Refuse("conflict")
         \/ KeyFree(h, r) /\ ~Durable(h, r) /\ Traced(h, r, y) = y
PROOF
  <1>1. CASE Retry(h, r)
    BY <1>1, LookupExact DEF Traced, Retry, Conflict
  <1>2. CASE Conflict(h, r)
    BY <1>2, LookupExact DEF Traced, Retry, Conflict
  <1>3. CASE ~Retry(h, r) /\ ~Conflict(h, r)
    BY <1>3, LookupExact DEF Traced, Retry, Conflict
  <1> QED
    BY <1>1, <1>2, <1>3

(* A durable answer may be returned, also with a cleanup failure, and may  *)
(* wait for the removal of the bound entry.                                *)
LEMMA AlreadyGood ==
  ASSUME NEW c, NEW b \in Commits, NEW r \in Requests,
         head \in Commits, Replayable(head), Retry(head, r), InHistory(b, head),
         c \in published => InHistory(Append(b, r), head),
         NEW x, x = responseFromAccepted("already_accepted", head, r)
  PROVE  /\ StepGood(c, "done", x, b, r)
         /\ StepGood(c, "done", [x EXCEPT !.err = "cleanup_failed"], b, r)
         /\ b # head => StepGood(c, "unbind", x, b, r)
         /\ c \notin published => StepGood(c, "cleanup", x, b, r)
PROOF
  <1>1. x.status = "already_accepted" /\ ResponseTrue(x, Append(b, r), r, head)
    BY LookupResponseTrue DEF responseFromAccepted
  <1>2. Durable(head, r)
    BY LookupExact
  <1>3. StepGood(c, "done", x, b, r)
    BY <1>1, <1>2, ReturnGood DEF Honest, MoverStatuses
  <1> DEFINE y == [x EXCEPT !.err = "cleanup_failed"]
  <1>4. /\ y.status = x.status /\ y.accepted = x.accepted /\ y.ledger = x.ledger
    BY DEF responseFromAccepted
  <1> HIDE DEF y
  <1>5. ResponseTrue(y, Append(b, r), r, head)
    BY <1>1, <1>4 DEF ResponseTrue
  <1>6. StepGood(c, "done", y, b, r)
    BY <1>1, <1>2, <1>4, <1>5, ReturnGood DEF Honest, MoverStatuses
  <1>7. b # head => StepGood(c, "unbind", x, b, r)
    BY <1>1 DEF StepGood, CallGood, MoverStatuses, Settling, Preparing
  <1>8. c \notin published => StepGood(c, "cleanup", x, b, r)
    BY <1>1 DEF StepGood, CallGood, Preparing
  <1> QED
    BY <1>3, <1>6, <1>7, <1>8 DEF y

LEMMA ReconcileGood ==
  ASSUME IInv, CallInv, NEW c \in Calls, PrepareReconcile(c)
  PROVE  StepGood(c, pc'[c], reply'[c], base[c], req[c])
PROOF
  <1> USE DEF Goto, Answer, Return
  <1>1. /\ pc[c] \in Preparing /\ pc[c] \notin Settling
        /\ pc \in [Calls -> Labels] /\ reply \in [Calls -> Response]
    BY DEF PrepareReconcile, Preparing, Settling, IInv, TypeOK
  <1>2. /\ head \in Commits /\ Replayable(head)
        /\ base[c] \in Commits /\ req[c] \in Requests
        /\ InHistory(base[c], head) /\ c \notin published
        /\ KeyFree(base[c], req[c]) /\ expected[req[c]] = base[c]
    BY <1>1, Found DEF CallGood
  <1>3. \/ head = base[c] /\ pc'[c] = "done" /\ reply'[c] = Prepared
        \/ /\ pc'[c] = "unbind"
           /\ \E g : /\ reply'[c] = unknown(g)
                     /\ head # base[c] \/ (IoFails /\ g = NoCommit)
        \/ /\ head # base[c] /\ pc'[c] = "unbind"
           /\ reply'[c] = Traced(head, req[c], Refuse("stale"))
    BY <1>1, <1>2 DEF PrepareReconcile, ReplayFails
  <1>4. CASE head = base[c] /\ pc'[c] = "done" /\ reply'[c] = Prepared
    <2>1. ~Durable(head, req[c])
      BY <1>2, <1>4, LookupExact
    <2>2. Prepared.status = "prepared"
      BY DEF Prepared, Refuse
    <2> QED
      BY <1>2, <1>4, <2>1, <2>2, ModestResponses, ReturnGood DEF Honest
  <1>5. CASE /\ pc'[c] = "unbind"
             /\ \E g : /\ reply'[c] = unknown(g)
                       /\ head # base[c] \/ (IoFails /\ g = NoCommit)
    <2>1. PICK g : reply'[c] = unknown(g) /\ (head # base[c] \/ (IoFails /\ g = NoCommit))
      BY <1>5
    <2>2. unknown(g).status = "acceptance_unknown"
      BY DEF unknown
    <2> QED
      BY <1>2, <1>5, <2>1, <2>2, ModestResponses
         DEF StepGood, CallGood, MoverStatuses, Preparing
  <1>6. CASE /\ head # base[c] /\ pc'[c] = "unbind"
             /\ reply'[c] = Traced(head, req[c], Refuse("stale"))
    <2>1. CASE /\ Retry(head, req[c])
               /\ reply'[c] = responseFromAccepted("already_accepted", head, req[c])
      BY <1>2, <1>6, <2>1, AlreadyGood
    <2>2. CASE /\ ~Durable(head, req[c])
               /\ \/ reply'[c] = Refuse("stale")
                  \/ reply'[c] = Refuse("conflict") /\ ~KeyFree(head, req[c])
      <3>1. Lost(head, req[c])
        BY <1>2, <1>6, <2>2, StaleIsLost
      <3>2. Denied(reply'[c], req[c])
        BY <2>2, <3>1 DEF Denied
      <3>3. reply'[c].status = "none"
        BY <2>2 DEF Refuse
      <3>4. ResponseTrue(reply'[c], Append(base[c], req[c]), req[c], head)
        BY <2>2, ModestResponses
      <3> QED
        BY <1>2, <1>6, <3>2, <3>3, <3>4 DEF StepGood, CallGood, Preparing
    <2> QED
      BY <1>2, <1>6, <2>1, <2>2, TracedCases
  <1> QED
    BY <1>3, <1>4, <1>5, <1>6

(* A failure seen on an old snapshot is returned only when the fresh       *)
(* replay does not know the key.                                           *)
LEMMA SnapshotFailureGood ==
  ASSUME IInv, CallInv, NEW c \in Calls, RecoverAfterSnapshotFailure(c)
  PROVE  StepGood(c, pc'[c], reply'[c], base[c], req[c])
PROOF
  <1> USE DEF Goto, Answer, Return
  <1>1. /\ pc[c] = "recover" /\ pc[c] \notin Settling
        /\ pc \in [Calls -> Labels] /\ reply \in [Calls -> Response]
    BY DEF RecoverAfterSnapshotFailure, Settling, IInv, TypeOK
  <1>2. /\ head \in Commits /\ Replayable(head)
        /\ base[c] \in Commits /\ req[c] \in Requests
        /\ InHistory(base[c], head) /\ c \notin published
        /\ reply[c] \in {Refuse("stale"), Refuse("invalid")}
    BY <1>1, Found DEF CallGood
  <1>3. PICK x : /\ ReturnUnstaged(c, x)
                 /\ x = unknown(NoCommit) \/ x = Traced(head, req[c], reply[c])
    BY <1>2 DEF RecoverAfterSnapshotFailure, ReplayFails
  <1>4. /\ pc'[c] = "done"
        /\ reply'[c] = x \/ reply'[c] = [x EXCEPT !.err = "cleanup_failed"]
    BY <1>1, <1>3 DEF ReturnUnstaged
  <1>5. CASE x = unknown(NoCommit)
    <2>1. reply'[c].status = "acceptance_unknown"
      BY <1>4, <1>5 DEF unknown
    <2>2. ResponseTrue(reply'[c], Append(base[c], req[c]), req[c], head)
      BY <2>1 DEF ResponseTrue
    <2> QED
      BY <1>2, <1>4, <2>1, <2>2, ReturnGood DEF Honest
  <1>6. CASE x = responseFromAccepted("already_accepted", head, req[c]) /\ Retry(head, req[c])
    BY <1>2, <1>4, <1>6, AlreadyGood
  <1>7. ASSUME NEW e \in {"stale", "invalid", "conflict"}, x = Refuse(e),
               ~Durable(head, req[c]), e = "conflict" => ~KeyFree(head, req[c])
        PROVE  StepGood(c, pc'[c], reply'[c], base[c], req[c])
    <2>1. [Refuse(e) EXCEPT !.err = "cleanup_failed"] = Refuse("cleanup_failed")
      BY DEF Refuse
    <2> QED
      BY <1>2, <1>4, <1>7, <2>1, RefuseGood
  <1> QED
    BY <1>2, <1>3, <1>5, <1>6, <1>7, TracedCases

-----------------------------------------------------------------------------
(* The steps of AcceptWriteCandidate.                                      *)

(* accepted_verification_failed is said of a candidate in the history.     *)
LEMMA VerificationFailedGood ==
  ASSUME NEW c, NEW g, NEW b \in Commits, NEW r \in Requests, head \in Commits,
         InHistory(b, head), InHistory(Append(b, r), head)
  PROVE  StepGood(c, "done", verificationFailed(Append(b, r), g), b, r)
PROOF
  <1> DEFINE x == verificationFailed(Append(b, r), g)
  <1>1. x.status = "accepted_verification_failed" /\ x.accepted = Append(b, r)
    BY DEF verificationFailed
  <1> HIDE DEF x
  <1>2. ResponseTrue(x, Append(b, r), r, head)
    BY <1>1 DEF ResponseTrue
  <1>3. Durable(head, r)
    BY <1>1, <1>2, ClaimMeansDurable
  <1>4. StepGood(c, "done", x, b, r)
    BY <1>1, <1>2, <1>3, ReturnGood DEF Honest, MoverStatuses
  <1> QED
    BY <1>4 DEF x

LEMMA AcceptOpenGood ==
  ASSUME IInv, CallInv, NEW c \in Calls,
         \/ AcceptOpen(c) \/ AcceptRead(c) \/ CasCheck(c)
         \/ UpdateRefLock(c) \/ UpdateRefKilled(c)
  PROVE  StepGood(c, pc'[c], reply'[c], base[c], req[c])
PROOF
  <1> USE DEF Goto, Answer, Return
  <1>1. /\ pc[c] \in Opening /\ pc[c] \notin Settling
        /\ pc \in [Calls -> Labels] /\ reply \in [Calls -> Response]
    BY DEF AcceptOpen, AcceptRead, CasCheck, UpdateRefLock, UpdateRefKilled,
           Opening, Settling, IInv, TypeOK
  <1>2. \/ pc'[c] = "recover" /\ reply'[c] = Refuse("invalid")
        \/ pc'[c] = "done" /\ reply'[c] = Refuse("git")
        \/ /\ pc'[c] \in {"read", "cas", "update", "locked", "failed", "stale"}
           /\ pc'[c] = "stale" => base[c] # head
           /\ reply'[c] = reply[c]
    <2>1. CASE AcceptOpen(c)
      BY <1>1, <2>1 DEF AcceptOpen
    <2>2. CASE AcceptRead(c)
      BY <1>1, <2>2 DEF AcceptRead
    <2>3. CASE CasCheck(c)
      BY <1>1, <2>3 DEF CasCheck
    <2>4. CASE UpdateRefLock(c) \/ UpdateRefKilled(c)
      BY <1>1, <2>4 DEF UpdateRefLock, UpdateRefKilled
    <2> QED
      BY <2>1, <2>2, <2>3, <2>4
  <1>3. /\ CallGood(c, pc[c], reply[c], base[c], req[c])
        /\ InHistory(base[c], head) /\ c \notin published
    BY <1>1, Found
  <1>4. CASE pc'[c] \in {"recover", "done"}
    BY <1>2, <1>3, <1>4, RefuseGood, RecoverGood
  <1>5. CASE pc'[c] \notin {"recover", "done"}
    <2>1. /\ pc'[c] \notin {"idle", "unbind", "recover", "cleanup", "done",
                            "updated", "post", "recovered"}
          /\ pc'[c] \notin Preparing
          /\ pc'[c] = "stale" => base[c] # head
          /\ reply'[c] = reply[c]
      BY <1>2, <1>5 DEF Preparing
    <2> QED
      BY <1>3, <2>1, GoOnGood
  <1> QED
    BY <1>4, <1>5

(* After a failed update-ref: a call whose ref moved finds its candidate   *)
(* in the history, and cannot take itself for stale.                       *)
LEMMA CasOutcomeGood ==
  ASSUME IInv, CallInv, NEW c \in Calls, CasVerify(c) \/ CasRecover(c)
  PROVE  StepGood(c, pc'[c], reply'[c], base[c], req[c])
PROOF
  <1> USE DEF Goto, Answer, Return
  <1>1. /\ pc[c] \in {"updated", "failed", "settle"}
        /\ pc \in [Calls -> Labels] /\ reply \in [Calls -> Response]
    BY DEF CasVerify, CasRecover, IInv, TypeOK
  <1>2. /\ head \in Commits /\ base[c] \in Commits /\ req[c] \in Requests
        /\ candidate(c) = Append(base[c], req[c])
        /\ CallGood(c, pc[c], reply[c], base[c], req[c])
        /\ InHistory(base[c], head)
        /\ c \in published => InHistory(candidate(c), head)
        /\ pc[c] = "updated" => c \in published
    BY Found DEF CallGood
  <1>3. CASE CasVerify(c)
    <2>1. c \in published /\ InHistory(candidate(c), head)
      BY <1>2, <1>3 DEF CasVerify
    <2>2. \/ pc'[c] = "post" /\ reply'[c] = reply[c]
          \/ pc'[c] = "done" /\ reply'[c] = verificationFailed(candidate(c), NoCommit)
      BY <1>1, <1>3 DEF CasVerify
    <2>3. CASE pc'[c] = "post"
      BY <1>2, <2>1, <2>2, <2>3, GoOnGood DEF Settling, Preparing
    <2>4. CASE pc'[c] = "done"
      BY <1>2, <2>1, <2>2, <2>4, VerificationFailedGood
    <2> QED
      BY <2>2, <2>3, <2>4
  <1>4. CASE CasRecover(c)
    <2>1. \/ /\ pc'[c] \in {"recovered", "stale", "settle"}
             /\ pc'[c] = "recovered" => InHistory(candidate(c), head)
             /\ pc'[c] = "stale" => base[c] # head /\ ~InHistory(candidate(c), head)
             /\ reply'[c] = reply[c]
          \/ pc'[c] = "done" /\ reply'[c] = unknown(NoCommit)
      BY <1>1, <1>4 DEF CasRecover
    <2>2. CASE pc'[c] \in {"recovered", "stale", "settle"}
      BY <1>2, <2>1, <2>2, GoOnGood DEF Settling, Preparing
    <2>3. CASE pc'[c] = "done"
      BY <1>2, <2>1, <2>3, UnknownGood
    <2> QED
      BY <2>1, <2>2, <2>3
  <1> QED
    BY <1>3, <1>4

LEMMA AcceptStaleGood ==
  ASSUME IInv, CallInv, NEW c \in Calls, AcceptStale(c)
  PROVE  StepGood(c, pc'[c], reply'[c], base[c], req[c])
PROOF
  <1> USE DEF Goto, Answer, Return
  <1>1. /\ pc[c] = "stale" /\ pc[c] \notin Settling
        /\ pc \in [Calls -> Labels] /\ reply \in [Calls -> Response]
    BY DEF AcceptStale, Settling, IInv, TypeOK
  <1>2. /\ head \in Commits /\ Replayable(head)
        /\ base[c] \in Commits /\ req[c] \in Requests
        /\ InHistory(base[c], head) /\ c \notin published /\ base[c] # head
    BY <1>1, Found DEF CallGood
  <1>3. CASE pc'[c] = "unbind" /\ Retry(head, req[c])
             /\ reply'[c] = responseFromAccepted("already_accepted", head, req[c])
    BY <1>2, <1>3, AlreadyGood
  <1>4. ASSUME NEW e \in {"recovery_failed", "conflict", "stale"},
               pc'[c] = "done", reply'[c] = Refuse(e),
               e = "conflict" => Conflict(head, req[c]),
               e = "stale" => KeyFree(head, req[c])
        PROVE  StepGood(c, pc'[c], reply'[c], base[c], req[c])
    BY <1>2, <1>4, LookupExact, RefuseGood
  <1> QED
    BY <1>1, <1>3, <1>4 DEF AcceptStale

LEMMA AcceptedGood ==
  ASSUME IInv, CallInv, NEW c \in Calls, AcceptRecovered(c) \/ AcceptVerified(c)
  PROVE  StepGood(c, pc'[c], reply'[c], base[c], req[c])
PROOF
  <1> USE DEF Goto, Answer, Return
  <1>1. /\ pc[c] \in {"recovered", "post"}
        /\ pc \in [Calls -> Labels] /\ reply \in [Calls -> Response]
    BY DEF AcceptRecovered, AcceptVerified, IInv, TypeOK
  <1>2. /\ head \in Commits /\ Replayable(head)
        /\ base[c] \in Commits /\ req[c] \in Requests
        /\ candidate(c) = Append(base[c], req[c])
        /\ InHistory(base[c], head) /\ InHistory(candidate(c), head)
        /\ pc[c] = "post" => c \in published
    BY <1>1, Found DEF CallGood
  <1>3. base[c] # head
    <2>1. Len(candidate(c)) = Len(base[c]) + 1 /\ Len(base[c]) \in Nat
      BY <1>2, AppendType DEF Commits
    <2> QED
      BY <1>2, <2>1 DEF InHistory
  <1>4. CASE pc'[c] = "done" /\ \E g : reply'[c] = verificationFailed(candidate(c), g)
    BY <1>2, <1>4, VerificationFailedGood
  <1>5. CASE /\ pc'[c] = "unbind" /\ Retry(head, req[c])
             /\ reply'[c] = responseFromAccepted("already_accepted", head, req[c])
    BY <1>2, <1>3, <1>5, AlreadyGood
  <1>6. CASE /\ pc[c] = "post" /\ pc'[c] = "unbind" /\ Retry(head, req[c])
             /\ SubSeq(head, 1, FoundAt(head, req[c])) = candidate(c)
             /\ reply'[c] = responseFromAccepted("accepted", head, req[c])
    <2>1. ResponseTrue(reply'[c], candidate(c), req[c], head)
      BY <1>2, <1>6, LookupResponseTrue
    <2>2. reply'[c].status = "accepted"
      BY <1>6 DEF responseFromAccepted
    <2> QED
      BY <1>2, <1>3, <1>6, <2>1, <2>2
         DEF StepGood, CallGood, MoverStatuses, Settling, Preparing
  <1>7. CASE AcceptRecovered(c)
    BY <1>1, <1>4, <1>5, <1>7 DEF AcceptRecovered
  <1>8. CASE AcceptVerified(c)
    BY <1>1, <1>4, <1>6, <1>8 DEF AcceptVerified
  <1> QED
    BY <1>7, <1>8

-----------------------------------------------------------------------------
(* Cleanup and crashes.                                                    *)

(* The answer that waited for the cleanup is still right afterwards.       *)
LEMMA CleanupGood ==
  ASSUME IInv, CallInv, NEW c \in Calls, Unbind(c) \/ Cleanup(c)
  PROVE  StepGood(c, pc'[c], reply'[c], base[c], req[c])
PROOF
  <1> USE DEF Goto, Answer, Return
  <1> DEFINE x == reply[c]
             y == reply'[c]
  <1>1. /\ pc[c] \in {"unbind", "cleanup"} /\ pc'[c] = "done"
        /\ y = x \/ y = [x EXCEPT !.err = "cleanup_failed"]
    BY DEF Unbind, Cleanup, IInv, TypeOK
  <1>2. /\ head \in Commits /\ Replayable(head)
        /\ base[c] \in Commits /\ req[c] \in Requests /\ x \in Response
        /\ CallGood(c, pc[c], x, base[c], req[c])
    BY Found
  <1>3. /\ y.status = x.status /\ y.accepted = x.accepted /\ y.ledger = x.ledger
        /\ y.err = x.err \/ y.err = "cleanup_failed"
    BY <1>1, <1>2 DEF Response
  <1> HIDE DEF x, y
  <1>4. /\ InHistory(base[c], head)
        /\ ResponseTrue(y, Append(base[c], req[c]), req[c], head)
        /\ y.status = "accepted" => c \in published
        /\ c \in published =>
             InHistory(Append(base[c], req[c]), head) /\ y.status \in MoverStatuses
    BY <1>1, <1>2, <1>3 DEF CallGood, ResponseTrue, Settling
  <1>5. CASE y.status \in MoverStatuses
    <2>1. y.status # "acceptance_unknown" => Durable(head, req[c])
      BY <1>2, <1>4, <1>5, ClaimMeansDurable DEF MoverStatuses
    <2>2. Honest(c, req[c], y)
      BY <1>4, <1>5, <2>1 DEF MoverStatuses, Honest
    <2>3. StepGood(c, "done", y, base[c], req[c])
      BY <1>4, <2>2, ReturnGood
    <2> QED
      BY <1>1, <2>3 DEF y
  <1>6. CASE y.status \notin MoverStatuses
    <2>1. Denied(x, req[c]) /\ c \notin published
      BY <1>1, <1>2, <1>3, <1>4, <1>6 DEF CallGood, MoverStatuses
    <2>2. ~Durable(head, req[c])
      BY <1>2, <2>1, InHistoryReflexive DEF Denied, Lost
    <2>3. /\ x.status = "none"
          /\ x.err = "stale" \/ (x.err = "conflict" /\ ~KeyFree(head, req[c]))
      BY <2>1 DEF Denied, Refuse
    <2>4. Honest(c, req[c], y)
      BY <1>3, <2>1, <2>2, <2>3 DEF Honest
    <2>5. StepGood(c, "done", y, base[c], req[c])
      BY <1>4, <2>1, <2>4, ReturnGood
    <2> QED
      BY <1>1, <2>5 DEF y
  <1> QED
    BY <1>5, <1>6

LEMMA CrashGood ==
  ASSUME IInv, CallInv, NEW c \in Calls, Crash(c)
  PROVE  StepGood(c, pc'[c], reply'[c], base[c], req[c])
PROOF
  <1>1. /\ pc'[c] = IF pc[c] = "locked" THEN "orphan" ELSE "crashed"
        /\ reply'[c] = reply[c]
    BY DEF Crash, Goto, IInv, TypeOK
  <1>2. /\ CallGood(c, pc[c], reply[c], base[c], req[c])
        /\ c \in published => pc[c] # "locked"
    BY Found DEF Settling
  <1> QED
    BY <1>1, <1>2, GoOnGood DEF Settling, Preparing

-----------------------------------------------------------------------------
(* Every step.                                                             *)

(* An invocation starts on the head: what it answers at once, or promises  *)
(* to clean up, was read from that snapshot.                               *)
LEMMA BeginGood ==
  ASSUME IInv, CallInv, NEW c \in Calls, Begin(c)
  PROVE  \E r \in Requests :
           /\ StepGood(c, pc'[c], reply'[c], head, r)
           /\ req' = [req EXCEPT ![c] = r] /\ base' = [base EXCEPT ![c] = head]
PROOF
  <1> PICK r \in Requests :
        \/ PrepareRetry(c, r) \/ PrepareReject(c, r) \/ PrepareAdmit(c, r)
        \/ AcceptRetry(c, r) \/ AcceptReject(c, r) \/ AcceptAdmit(c, r)
    BY DEF Begin
  <1> USE DEF Goto, Answer, Return, Work
  <1>1. /\ pc[c] = "idle" /\ pc[c] \notin Settling
        /\ pc \in [Calls -> Labels] /\ reply \in [Calls -> Response]
        /\ req' = [req EXCEPT ![c] = r] /\ base' = [base EXCEPT ![c] = head]
    BY DEF PrepareRetry, PrepareReject, PrepareAdmit, AcceptRetry, AcceptReject,
           AcceptAdmit, Settling, IInv, TypeOK
  <1>2. /\ head \in Commits /\ Replayable(head) /\ c \notin published
        /\ reply[c] = Refuse("nil") /\ InHistory(head, head)
    BY <1>1, Found, InHistoryReflexive DEF CallGood
  <1>3. CASE PrepareRetry(c, r) \/ AcceptRetry(c, r)
    <2>1. /\ Retry(head, r) /\ pc'[c] = "cleanup"
          /\ reply'[c] = responseFromAccepted("already_accepted", head, r)
      BY <1>1, <1>3 DEF PrepareRetry, AcceptRetry
    <2>2. StepGood(c, pc'[c], reply'[c], head, r)
      BY <1>2, <2>1, AlreadyGood
    <2> QED
      BY <1>1, <2>2
  <1>4. CASE PrepareReject(c, r) \/ AcceptReject(c, r)
    <2>1. PICK e \in {"replay", "conflict", "event_id", "stale", "invalid"} :
            /\ pc'[c] = "done" /\ reply'[c] = Refuse(e)
            /\ e = "conflict" => Conflict(head, r)
            /\ e \in {"event_id", "stale", "invalid"} => KeyFree(head, r)
      BY <1>1, <1>4 DEF PrepareReject, AcceptReject
    <2>2. StepGood(c, pc'[c], reply'[c], head, r)
      BY <1>2, <2>1, LookupExact, RefuseGood
    <2> QED
      BY <1>1, <2>2
  <1>5. CASE PrepareAdmit(c, r) \/ AcceptAdmit(c, r)
    <2>1. /\ pc'[c] \in {"stage", "open"} /\ reply'[c] = Refuse("nil")
          /\ pc'[c] = "stage" => KeyFree(head, r) /\ expected[r] = head
      BY <1>1, <1>2, <1>5 DEF PrepareAdmit, AcceptAdmit, Admissible
    <2>2. Refuse("nil").status = "none"
      BY DEF Refuse
    <2>3. StepGood(c, pc'[c], reply'[c], head, r)
      BY <1>2, <2>1, <2>2, ModestResponses DEF StepGood, CallGood, Preparing, Settling
    <2> QED
      BY <1>1, <2>3
  <1> QED
    BY <1>3, <1>4, <1>5

(* The steps that leave the ref and the handles of the calls alone.        *)
Internal(c) ==
  \/ PrepareStage(c) \/ PrepareCommit(c) \/ PrepareBind(c)
  \/ PrepareVerify(c) \/ PrepareReconcile(c)
  \/ RecoverAfterSnapshotFailure(c)
  \/ AcceptOpen(c) \/ AcceptRead(c)
  \/ CasCheck(c) \/ UpdateRefLock(c) \/ UpdateRefKilled(c)
  \/ CasVerify(c) \/ CasRecover(c)
  \/ AcceptStale(c) \/ AcceptRecovered(c) \/ AcceptVerified(c)
  \/ Unbind(c) \/ Cleanup(c) \/ Crash(c)

LEMMA InternalGood ==
  ASSUME IInv, CallInv, NEW c \in Calls, Internal(c)
  PROVE  StepGood(c, pc'[c], reply'[c], base[c], req[c])
PROOF
  BY PrepareGood, ReconcileGood, SnapshotFailureGood, AcceptOpenGood, CasOutcomeGood,
     AcceptStaleGood, AcceptedGood, CleanupGood, CrashGood
     DEF Internal

(* A step of c changes the label and the response of c alone.              *)
LEMMA InternalFrame ==
  ASSUME NEW c \in Calls, Internal(c)
  PROVE  /\ \E l : pc' = [pc EXCEPT ![c] = l]
         /\ \E x : reply' = [reply EXCEPT ![c] = x] \/ reply' = reply
         /\ UNCHANGED << head, published, req, base >>
PROOF
  <1> USE DEF Goto, Answer, Return, authority
  <1>1. CASE \/ PrepareStage(c) \/ PrepareCommit(c) \/ PrepareBind(c)
             \/ PrepareVerify(c) \/ PrepareReconcile(c)
    BY <1>1 DEF PrepareStage, PrepareCommit, PrepareBind, PrepareVerify, PrepareReconcile
  <1>2. CASE RecoverAfterSnapshotFailure(c)
    BY <1>2 DEF RecoverAfterSnapshotFailure, ReturnUnstaged
  <1>3. CASE \/ AcceptOpen(c) \/ AcceptRead(c)
             \/ CasCheck(c) \/ UpdateRefLock(c) \/ UpdateRefKilled(c)
    BY <1>3 DEF AcceptOpen, AcceptRead, CasCheck, UpdateRefLock, UpdateRefKilled
  <1>4. CASE \/ CasVerify(c) \/ CasRecover(c)
             \/ AcceptStale(c) \/ AcceptRecovered(c) \/ AcceptVerified(c)
    BY <1>4 DEF CasVerify, CasRecover, AcceptStale, AcceptRecovered, AcceptVerified
  <1>5. CASE Unbind(c) \/ Cleanup(c) \/ Crash(c)
    BY <1>5 DEF Unbind, Cleanup, Crash
  <1> QED
    BY <1>1, <1>2, <1>3, <1>4, <1>5 DEF Internal

LEMMA BeginFrame ==
  ASSUME NEW c \in Calls, Begin(c)
  PROVE  /\ \E l : pc' = [pc EXCEPT ![c] = l]
         /\ \E x : reply' = [reply EXCEPT ![c] = x] \/ reply' = reply
         /\ pc[c] = "idle"
         /\ UNCHANGED << head, published >>
PROOF
  BY DEF Begin, PrepareRetry, PrepareReject, PrepareAdmit, AcceptRetry, AcceptReject,
         AcceptAdmit, Goto, Answer, Return, authority

(* Publishing moves the ref to the candidate of a call that had not        *)
(* published before.                                                       *)
LEMMA PublishFrame ==
  ASSUME IInv, CallInv, NEW c \in Calls, UpdateRefPublish(c) \/ OrphanPublish(c)
  PROVE  /\ pc[c] \in Holding /\ c \notin published /\ published' = published \cup {c}
         /\ head = base[c] /\ head' = Append(base[c], req[c])
         /\ KeyFree(head, req[c])
         /\ \E l \in {"updated", "failed", "crashed"} : pc' = [pc EXCEPT ![c] = l]
         /\ UNCHANGED << req, base, reply >>
PROOF
  <1>1. pc[c] \in Holding
    BY DEF UpdateRefPublish, OrphanPublish, Holding
  <1>2. head = base[c] /\ KeyFree(base[c], req[c])
    BY <1>1 DEF IInv, LockInv, SnapshotInv, Opening, Holding
  <1>3. c \notin published
    BY <1>1, Found DEF Holding, Settling
  <1> QED
    BY <1>1, <1>2, <1>3 DEF UpdateRefPublish, OrphanPublish, Goto, candidate

LEMMA PublishGood ==
  ASSUME IInv, CallInv, NEW c \in Calls, UpdateRefPublish(c) \/ OrphanPublish(c),
         NEW l, l = pc'[c], NEW x, x = reply[c], NEW b, b = base[c], NEW r, r = req[c]
  PROVE  CallGood(c, l, x, b, r)'
PROOF
  <1>1. /\ head = b /\ head' = Append(b, r) /\ c \in published' /\ c \notin published
        /\ l \in {"updated", "failed", "crashed"}
        /\ b \in Commits /\ r \in Requests
    BY PublishFrame, Found DEF IInv, TypeOK
  <1>2. head' \in Commits /\ InHistory(head, head') /\ InHistory(head', head')
    BY <1>1, AppendType, InHistoryAppend, InHistoryReflexive
  <1>3. CallGood(c, pc[c], x, b, r)
    BY Found
  <1>4. ResponseTrue(x, Append(b, r), r, head')
    BY <1>1, <1>2, <1>3, ResponseStaysTrue DEF CallGood
  <1>5. x.status # "accepted"
    BY <1>1, <1>3 DEF CallGood
  <1> QED
    BY <1>1, <1>2, <1>4, <1>5 DEF CallGood, Settling, Preparing

LEMMA HeadGrows ==
  ASSUME IInv, [Next]_vars
  PROVE  head \in Commits /\ head' \in Commits /\ InHistory(head, head')
PROOF
  <1>1. TypeOK /\ TypeOK'
    BY TypeNext DEF IInv
  <1>2. CASE head' = head
    BY <1>1, <1>2, InHistoryReflexive DEF TypeOK
  <1>3. CASE head' # head
    <2>1. PICK c \in Calls : UpdateRefPublish(c) \/ OrphanPublish(c)
      BY <1>3, OnlyPublishMoves
    <2>2. head' = Append(head, req[c]) /\ req[c] \in Requests
      BY <1>1, <2>1, InvPublish DEF TypeOK
    <2> QED
      BY <1>1, <2>2, InHistoryAppend DEF TypeOK
  <1> QED
    BY <1>2, <1>3

LEMMA CallNext == IInv /\ CallInv /\ [Next]_vars => CallInv'
PROOF
  <1> SUFFICES ASSUME IInv, CallInv, [Next]_vars PROVE CallInv'
    OBVIOUS
  <1>0. TypeOK /\ TypeOK'
    BY TypeNext DEF IInv
  (* A call that the step does not belong to.                              *)
  <1>1. ASSUME NEW d \in Calls, pc'[d] = pc[d], reply'[d] = reply[d],
               base'[d] = base[d], req'[d] = req[d],
               d \in published' <=> d \in published
        PROVE  CallGood(d, pc[d], reply[d], base[d], req[d])'
    <2>1. PICK l, x, b, r : l = pc[d] /\ x = reply[d] /\ b = base[d] /\ r = req[d]
      OBVIOUS
    <2>2. /\ b \in Commits /\ r \in Requests /\ CallGood(d, l, x, b, r)
          /\ head \in Commits /\ head' \in Commits /\ InHistory(head, head')
      BY <2>1, Found, HeadGrows
    <2>3. CallGood(d, l, x, b, r)'
      BY <1>1, <2>2, GoodGrows
    <2> QED
      BY <1>1, <2>1, <2>3
  (* The call that takes the step, when the ref stays.                     *)
  <1>2. ASSUME NEW c \in Calls, NEW b, NEW r, base'[c] = b, req'[c] = r,
               StepGood(c, pc'[c], reply'[c], b, r),
               UNCHANGED << head, published >>
        PROVE  CallGood(c, pc[c], reply[c], base[c], req[c])'
    <2>1. PICK l, x : l = pc'[c] /\ x = reply'[c]
      OBVIOUS
    <2>2. CallGood(c, l, x, b, r)
      BY <1>2, <2>1 DEF StepGood
    <2>3. CallGood(c, l, x, b, r)'
      BY <1>2, <2>2 DEF CallGood, Denied, IoFails
    <2> QED
      BY <1>2, <2>1, <2>3
  <1>3. ASSUME NEW c \in Calls, Begin(c)
        PROVE  CallInv'
    <2>1. PICK r \in Requests : /\ StepGood(c, pc'[c], reply'[c], head, r)
                                /\ req' = [req EXCEPT ![c] = r]
                                /\ base' = [base EXCEPT ![c] = head]
      BY <1>3, BeginGood
    <2>2. base'[c] = head /\ req'[c] = r
      BY <1>0, <2>1 DEF TypeOK
    <2>3. \A d \in Calls \ {c} : /\ pc'[d] = pc[d] /\ reply'[d] = reply[d]
                                 /\ base'[d] = base[d] /\ req'[d] = req[d]
      BY <1>0, <1>3, <2>1, BeginFrame DEF TypeOK
    <2>4. UNCHANGED << head, published >>
      BY <1>3, BeginFrame
    <2> QED
      BY <1>1, <1>2, <2>1, <2>2, <2>3, <2>4 DEF CallInv
  <1>4. ASSUME NEW c \in Calls, Internal(c)
        PROVE  CallInv'
    <2>1. StepGood(c, pc'[c], reply'[c], base[c], req[c])
      BY <1>4, InternalGood
    <2>2. UNCHANGED << head, published, req, base >>
      BY <1>4, InternalFrame
    <2>3. \A d \in Calls \ {c} : pc'[d] = pc[d] /\ reply'[d] = reply[d]
      BY <1>0, <1>4, InternalFrame DEF TypeOK
    <2> QED
      BY <1>1, <1>2, <2>1, <2>2, <2>3 DEF CallInv
  <1>5. ASSUME NEW c \in Calls, UpdateRefPublish(c) \/ OrphanPublish(c)
        PROVE  CallInv'
    <2>1. PICK l, x, b, r : l = pc'[c] /\ x = reply[c] /\ b = base[c] /\ r = req[c]
      OBVIOUS
    <2>2. CallGood(c, l, x, b, r)'
      BY <1>5, <2>1, PublishGood
    <2>3. /\ UNCHANGED << req, base, reply >> /\ published' = published \cup {c}
          /\ \A d \in Calls \ {c} : pc'[d] = pc[d]
      BY <1>0, <1>5, PublishFrame DEF TypeOK
    <2>4. CallGood(c, pc[c], reply[c], base[c], req[c])'
      BY <2>1, <2>2, <2>3
    <2> QED
      BY <1>1, <2>3, <2>4 DEF CallInv
  <1>6. CASE Aside
    BY <1>1, <1>6, AsideStep DEF authority, locals, CallInv
  <1> QED
    BY <1>3, <1>4, <1>5, <1>6 DEF Next, Step, Internal, Aside

LEMMA CallInit == Init => CallInv
PROOF
  <1> SUFFICES ASSUME Init, NEW c \in Calls
               PROVE  CallGood(c, pc[c], reply[c], base[c], req[c])
    BY DEF CallInv
  <1>1. Refuse("nil").status = "none" /\ << >> \in Commits
    BY DEF Refuse, Commits
  <1> QED
    BY <1>1, InHistoryReflexive, ModestResponses DEF Init, CallGood, Preparing

LEMMA CallInvariance == Spec => [](IInv /\ CallInv)
PROOF
  BY CallInit, CallNext, InvInit, InvNext, PTL DEF Spec

-----------------------------------------------------------------------------
(* The theorems about single answers.                                      *)

(* Whatever races, is killed or fails, a success answer names an accepted  *)
(* commit of the caller's own request in the history of the reported       *)
(* ledger commit, which is itself in the authoritative history; and        *)
(* accepted_verification_failed names a candidate that is accepted.        *)
THEOREM AnswersTruthful == Spec => []RepliesTruthful
PROOF
  <1>1. IInv /\ CallInv => RepliesTruthful
    BY DEF CallInv, CallGood, ResponseTrue, RepliesTruthful
  <1> QED
    BY <1>1, CallInvariance, PTL

(* The invocation whose git update-ref moved the ref is never answered     *)
(* with an ordinary failure, and only such an invocation says "accepted":  *)
(* CompareAndSwap never turns its own publication into a stale error.      *)
THEOREM MoverNotDenied == Spec => []MoverAnswered
PROOF
  <1>1. IInv /\ CallInv => MoverAnswered
    BY DEF CallInv, CallGood, ResponseTrue, MoverAnswered, MoverStatuses, candidate
  <1> QED
    BY <1>1, CallInvariance, PTL

(* Two invocations never move the ref to the same candidate.               *)
MoversDiffer ==
  \A c, d \in published : candidate(c) = candidate(d) => c = d

LEMMA MoversNext == IInv /\ CallInv /\ MoversDiffer /\ [Next]_vars => MoversDiffer'
PROOF
  <1> SUFFICES ASSUME IInv, CallInv, MoversDiffer, [Next]_vars PROVE MoversDiffer'
    OBVIOUS
  <1>0. TypeOK /\ published \subseteq Calls
    BY DEF IInv, TypeOK
  <1>1. ASSUME NEW c \in Calls, UpdateRefPublish(c) \/ OrphanPublish(c)
        PROVE  MoversDiffer'
    <2>1. /\ UNCHANGED << req, base >> /\ published' = published \cup {c}
          /\ head = base[c]
      BY <1>1, PublishFrame
    <2>2. ASSUME NEW d \in published PROVE candidate(d) # candidate(c)
      <3>1. InHistory(candidate(d), head) /\ candidate(d) \in Commits
        BY <1>0, Found DEF CallGood
      <3>2. Len(candidate(c)) = Len(head) + 1 /\ Len(head) \in Nat
        BY <1>0, <2>1, Found, AppendType DEF Commits
      <3> QED
        BY <3>1, <3>2 DEF InHistory
    <2> QED
      BY <2>1, <2>2 DEF MoversDiffer, candidate
  <1>2. ASSUME NEW c \in Calls, Begin(c)
        PROVE  MoversDiffer'
    <2>1. UNCHANGED published /\ c \notin published
      BY <1>2, BeginFrame, Found DEF Settling
    <2>2. \A d \in published : base'[d] = base[d] /\ req'[d] = req[d]
      BY <1>0, <1>2, <2>1, BeginGood DEF TypeOK
    <2> QED
      BY <2>1, <2>2 DEF MoversDiffer, candidate
  <1>3. ASSUME NEW c \in Calls, Internal(c)
        PROVE  MoversDiffer'
    BY <1>3, InternalFrame DEF MoversDiffer, candidate
  <1>4. CASE Aside
    BY <1>4, AsideStep DEF authority, locals, MoversDiffer, candidate
  <1> QED
    BY <1>1, <1>2, <1>3, <1>4 DEF Next, Step, Internal, Aside

(* At most one invocation is ever told "accepted" for an idempotency key,  *)
(* however many identical or conflicting candidates race to update-ref.    *)
THEOREM AcceptedAtMostOnce == Spec => []AcceptedOnce
PROOF
  <1>1. Init => MoversDiffer
    BY DEF Init, MoversDiffer
  <1>2. IInv /\ CallInv /\ MoversDiffer => AcceptedOnce
    <2> SUFFICES ASSUME IInv, CallInv, MoversDiffer, NEW c \in Calls, NEW d \in Calls,
                        reply[c].status = "accepted", reply[d].status = "accepted",
                        key[req[c]] = key[req[d]]
                 PROVE  c = d
      BY DEF AcceptedOnce
    <2>1. head \in Commits /\ Replayable(head)
      BY Found
    <2>2. ASSUME NEW e \in Calls, reply[e].status = "accepted"
          PROVE  /\ e \in published /\ candidate(e) \in Commits
                 /\ base[e] \in Commits /\ req[e] \in Requests
                 /\ ~KeyFree(head, req[e])
                 /\ SubSeq(head, 1, FoundAt(head, req[e])) = candidate(e)
      <3>1. e \in published /\ InHistory(Append(base[e], req[e]), head)
        BY <2>2, Found DEF CallGood
      <3>2. /\ base[e] \in Commits /\ req[e] \in Requests
            /\ candidate(e) = Append(base[e], req[e]) /\ candidate(e) \in Commits
        BY Found
      <3>3. /\ Retry(head, req[e])
            /\ SubSeq(head, 1, FoundAt(head, req[e])) = Append(base[e], req[e])
        BY <2>1, <3>1, <3>2, CandidateFound
      <3> QED
        BY <3>1, <3>2, <3>3 DEF Retry
    <2>3. FoundAt(head, req[c]) = FoundAt(head, req[d])
      <3>1. /\ FoundAt(head, req[c]) \in 1..Len(head)
            /\ key[head[FoundAt(head, req[c])]] = key[req[d]]
        BY <2>1, <2>2, FoundAtIndex
      <3> QED
        BY <2>1, <2>2, <3>1, FoundAtUnique
    <2> QED
      BY <2>2, <2>3 DEF MoversDiffer
  <1> QED
    BY <1>1, <1>2, MoversNext, CallInvariance, PTL DEF Spec

-----------------------------------------------------------------------------
(* The moment of the answer.                                               *)

(* Every answer is honest when it is given.                                *)
LEMMA AnswerHonest ==
  ASSUME IInv, CallInv, [Next]_vars, NEW c \in Calls, pc[c] # "done", pc'[c] = "done"
  PROVE  /\ UNCHANGED << head, published >>
         /\ Honest(c, req'[c], reply'[c])
         /\ Begin(c) \/ Internal(c)
PROOF
  <1>0. TypeOK
    BY DEF IInv
  <1>1. Begin(c) \/ Internal(c)
    <2>1. ASSUME NEW d \in Calls, d # c, Begin(d) \/ Internal(d)
          PROVE  FALSE
      BY <1>0, <2>1, BeginFrame, InternalFrame DEF TypeOK
    <2>2. ASSUME NEW d \in Calls, UpdateRefPublish(d) \/ OrphanPublish(d)
          PROVE  FALSE
      BY <1>0, <2>2, PublishFrame DEF TypeOK
    <2>3. ASSUME Aside
          PROVE  FALSE
      BY <2>3, AsideStep DEF locals
    <2> QED
      BY <2>1, <2>2, <2>3 DEF Next, Step, Internal, Aside
  <1>2. CASE Begin(c)
    <2>1. PICK r \in Requests : /\ StepGood(c, pc'[c], reply'[c], head, r)
                                /\ req' = [req EXCEPT ![c] = r]
      BY <1>2, BeginGood
    <2>2. req'[c] = r
      BY <1>0, <2>1 DEF TypeOK
    <2> QED
      BY <1>2, <2>1, <2>2, BeginFrame DEF StepGood
  <1>3. CASE Internal(c)
    BY <1>3, InternalGood, InternalFrame DEF StepGood
  <1> QED
    BY <1>1, <1>2, <1>3

(* No invocation is refused as stale or invalid while its request is       *)
(* durably accepted: the failure that an old snapshot explains is traced   *)
(* on a fresh replay, and what waits for a quarantine removal cannot be    *)
(* overtaken, because the request names the parent it was formed for.      *)
THEOREM AcceptedNeverRejected == Spec => NoRejectionOfAccepted
PROOF
  <1>1. IInv /\ CallInv /\ [Next]_vars =>
          [\A c \in Calls :
             /\ pc[c] # "done" /\ pc'[c] = "done"
             /\ reply'[c].status = "none" /\ reply'[c].err \in {"stale", "invalid"}
             => \A i \in 1..Len(head') : ~SameRequest(head'[i], req'[c])]_vars
    <2> SUFFICES ASSUME IInv, CallInv, [Next]_vars, NEW c \in Calls,
                        pc[c] # "done", pc'[c] = "done", reply'[c].status = "none",
                        reply'[c].err \in {"stale", "invalid"}
                 PROVE  \A i \in 1..Len(head') : ~SameRequest(head'[i], req'[c])
      OBVIOUS
    <2>1. head' = head /\ Honest(c, req'[c], reply'[c])
      BY AnswerHonest
    <2>2. ~Durable(head, req'[c])
      BY <2>1 DEF Honest
    <2> QED
      BY <2>1, <2>2 DEF Durable
  <1> QED
    BY <1>1, CallInvariance, PTL DEF Spec, NoRejectionOfAccepted

-----------------------------------------------------------------------------
(* The refinement of AbstractLedger.                                       *)

LEMMA HonestTruthful ==
  ASSUME NEW c, NEW r \in Requests, NEW x, Honest(c, r, x)
  PROVE  Ledger!Truthful(c, r, Kind(x)) /\ Kind(x) \in Ledger!Outcomes
PROOF
  <1>1. /\ Ledger!Holds(r) <=> Durable(head, r)
        /\ Ledger!KeyTaken(r) <=> ~KeyFree(head, r)
    BY DEF Ledger!Holds, Ledger!Identical, Ledger!KeyTaken, Durable, SameRequest, KeyFree
  <1>2. CASE x.status # "none"
    <2>1. Kind(x) = x.status
      BY <1>2 DEF Kind
    <2> QED
      BY <1>1, <1>2, <2>1 DEF Honest, Ledger!Truthful, Ledger!Outcomes
  <1>3. CASE x.status = "none"
    <2>1. CASE x.err \in {"stale", "invalid", "event_id"}
      <3>1. Kind(x) = "rejected"
        BY <1>3, <2>1 DEF Kind
      <3> QED
        BY <1>1, <1>3, <2>1, <3>1 DEF Honest, Ledger!Truthful, Ledger!Outcomes
    <2>2. CASE x.err = "conflict"
      <3>1. Kind(x) = "conflict"
        BY <1>3, <2>2 DEF Kind
      <3> QED
        BY <1>1, <1>3, <2>2, <3>1 DEF Honest, Ledger!Truthful, Ledger!Outcomes
    <2>3. CASE x.err \notin {"stale", "invalid", "event_id", "conflict"}
      <3>1. Kind(x) = "error"
        BY <1>3, <2>3 DEF Kind
      <3> QED
        BY <1>1, <1>3, <2>3, <3>1 DEF Honest, Ledger!Truthful, Ledger!Outcomes
    <2> QED
      BY <2>1, <2>2, <2>3
  <1> QED
    BY <1>2, <1>3

LEMMA InternalRuns ==
  ASSUME NEW c \in Calls, Internal(c), pc \in [Calls -> Labels]
  PROVE  pc[c] \notin {"idle", "done", "crashed"} /\ pc'[c] # "idle"
PROOF
  <1> USE DEF Goto, Answer, Return
  <1>1. CASE \/ PrepareStage(c) \/ PrepareCommit(c) \/ PrepareBind(c)
             \/ PrepareVerify(c) \/ PrepareReconcile(c)
    BY <1>1 DEF PrepareStage, PrepareCommit, PrepareBind, PrepareVerify, PrepareReconcile
  <1>2. CASE RecoverAfterSnapshotFailure(c)
    BY <1>2 DEF RecoverAfterSnapshotFailure, ReturnUnstaged
  <1>3. CASE \/ AcceptOpen(c) \/ AcceptRead(c)
             \/ CasCheck(c) \/ UpdateRefLock(c) \/ UpdateRefKilled(c)
    BY <1>3 DEF AcceptOpen, AcceptRead, CasCheck, UpdateRefLock, UpdateRefKilled
  <1>4. CASE \/ CasVerify(c) \/ CasRecover(c)
             \/ AcceptStale(c) \/ AcceptRecovered(c) \/ AcceptVerified(c)
    BY <1>4 DEF CasVerify, CasRecover, AcceptStale, AcceptRecovered, AcceptVerified
  <1>5. CASE Unbind(c) \/ Cleanup(c) \/ Crash(c)
    BY <1>5 DEF Unbind, Cleanup, Crash, Running
  <1> QED
    BY <1>1, <1>2, <1>3, <1>4, <1>5 DEF Internal

LEMMA BeginRuns ==
  ASSUME NEW c \in Calls, Begin(c), pc \in [Calls -> Labels]
  PROVE  pc'[c] # "idle"
PROOF
  BY DEF Begin, PrepareRetry, PrepareReject, PrepareAdmit, AcceptRetry, AcceptReject,
         AcceptAdmit, Goto, Answer, Return

LEMMA RefinedStep ==
  ASSUME IInv, CallInv, [Next]_vars
  PROVE  [Ledger!Next]_(Ledger!vars)
PROOF
  <1>0. /\ pc \in [Calls -> Labels] /\ reply \in [Calls -> Response]
        /\ req \in [Calls -> Requests] /\ base \in [Calls -> Commits]
        /\ req' \in [Calls -> Requests]
    BY TypeNext DEF IInv, TypeOK
  (* An invocation is answered.                                            *)
  <1>1. ASSUME NEW c \in Calls, pc[c] # "done", pc'[c] = "done"
        PROVE  Ledger!Next
    <2> DEFINE r == req'[c]
               o == Kind(reply'[c])
    <2>1. /\ UNCHANGED << head, published >> /\ r \in Requests
          /\ Honest(c, r, reply'[c]) /\ (Begin(c) \/ Internal(c))
      BY <1>0, <1>1, AnswerHonest
    <2>2. Ledger!Truthful(c, r, o) /\ o \in Ledger!Outcomes
      BY <2>1, HonestTruthful
    <2>3. \A d \in Calls \ {c} : pc'[d] = pc[d]
      BY <1>0, <2>1, BeginFrame, InternalFrame
    <2>4. \A d \in Calls \ {c} : req'[d] = req[d]
      BY <1>0, <2>1, BeginGood, InternalFrame
    <2>5. \A d \in Calls \ {c} : reply'[d] = reply[d]
      BY <1>0, <2>1, BeginFrame, InternalFrame
    <2>6. ask[c] \in {NoRequest, r}
      <3>1. CASE Begin(c)
        BY <3>1, BeginFrame DEF ask
      <3>2. CASE Internal(c)
        BY <3>2, InternalFrame DEF ask
      <3> QED
        BY <2>1, <3>1, <3>2
    <2>7. outcome[c] = "open"
      BY <1>1 DEF outcome
    <2>8. ask' = [ask EXCEPT ![c] = r]
      BY <1>1, <2>3, <2>4 DEF ask
    <2>9. outcome' = [outcome EXCEPT ![c] = o]
      BY <1>1, <2>3, <2>5 DEF outcome
    <2> HIDE DEF r, o
    <2>10. Ledger!Reply(c, r, o)
      BY <2>1, <2>2, <2>6, <2>7, <2>8, <2>9 DEF Ledger!Reply
    <2> QED
      BY <2>1, <2>2, <2>10 DEF Ledger!Next
  (* An invocation starts, or goes on.                                     *)
  <1>2. ASSUME NEW c \in Calls, Begin(c), pc'[c] # "done"
        PROVE  Ledger!Next
    <2>1. PICK r \in Requests : req' = [req EXCEPT ![c] = r]
      BY <1>2, BeginGood
    <2>2. /\ pc[c] = "idle" /\ pc'[c] # "idle" /\ UNCHANGED << head, published >>
          /\ \A d \in Calls \ {c} : pc'[d] = pc[d] /\ reply'[d] = reply[d]
      BY <1>0, <1>2, BeginFrame, BeginRuns
    <2>3. ask[c] = NoRequest /\ ask' = [ask EXCEPT ![c] = r]
      BY <1>0, <2>1, <2>2 DEF ask
    <2>4. outcome' = outcome
      BY <1>2, <2>2 DEF outcome
    <2>5. Ledger!Invoke(c, r)
      BY <2>2, <2>3, <2>4 DEF Ledger!Invoke
    <2> QED
      BY <2>5 DEF Ledger!Next
  <1>3. ASSUME NEW c \in Calls, Internal(c), pc'[c] # "done"
        PROVE  UNCHANGED Ledger!vars
    <2>1. /\ pc[c] \notin {"idle", "done"} /\ pc'[c] # "idle"
          /\ UNCHANGED << head, published, req >>
          /\ \A d \in Calls \ {c} : pc'[d] = pc[d] /\ reply'[d] = reply[d]
      BY <1>0, <1>3, InternalFrame, InternalRuns
    <2>2. ask' = ask
      BY <2>1 DEF ask
    <2>3. outcome' = outcome
      BY <1>3, <2>1 DEF outcome
    <2> QED
      BY <2>1, <2>2, <2>3 DEF Ledger!vars
  (* The ref moves.                                                        *)
  <1>4. ASSUME NEW c \in Calls, UpdateRefPublish(c) \/ OrphanPublish(c)
        PROVE  Ledger!Next
    <2>1. /\ pc[c] \in Holding /\ c \notin published /\ published' = published \cup {c}
          /\ head' = Append(head, req[c]) /\ KeyFree(head, req[c])
          /\ pc'[c] \in {"updated", "failed", "crashed"}
          /\ UNCHANGED << req, reply >>
          /\ \A d \in Calls \ {c} : pc'[d] = pc[d]
      BY <1>0, <1>4, PublishFrame
    <2>2. ask' = ask /\ ask[c] = req[c]
      BY <2>1 DEF ask, Holding
    <2>3. outcome' = outcome /\ outcome[c] = "open"
      BY <2>1 DEF outcome, Holding
    <2>4. ask[c] # NoRequest
      BY <1>0, <2>2, NoRequestAssumption
    <2>5. ~Ledger!KeyTaken(ask[c])
      BY <2>1, <2>2 DEF Ledger!KeyTaken, KeyFree
    <2>6. Ledger!Accept(c)
      BY <2>1, <2>2, <2>3, <2>4, <2>5 DEF Ledger!Accept
    <2> QED
      BY <2>6 DEF Ledger!Next
  <1>5. ASSUME Aside
        PROVE  UNCHANGED Ledger!vars
    BY <1>5, AsideStep DEF authority, locals, ask, outcome, Ledger!vars
  <1>6. ASSUME NEW c \in Calls, Internal(c) PROVE pc[c] # "done"
    BY <1>0, <1>6, InternalRuns
  <1>7. ASSUME NEW c \in Calls, Begin(c) PROVE pc[c] # "done"
    BY <1>7, BeginFrame
  <1> QED
    BY <1>1, <1>2, <1>3, <1>4, <1>5, <1>6, <1>7 DEF Next, Step, Internal, Aside

(* Candidate write implements the abstract ledger, for any number of       *)
(* invocations and requests and every fault: the rename inside update-ref  *)
(* is the moment of acceptance, every answer was true of the history when  *)
(* it was given, and an idempotency key is accepted once.                  *)
THEOREM LedgerImplemented == Spec => ImplementsLedger
PROOF
  <1>1. Init => Ledger!Init
    BY DEF Init, Ledger!Init, ask, outcome
  <1>2. IInv /\ CallInv /\ [Next]_vars => [Ledger!Next]_(Ledger!vars)
    BY RefinedStep
  <1> QED
    BY <1>1, <1>2, CallInvariance, PTL DEF Spec, ImplementsLedger, Ledger!Spec

-----------------------------------------------------------------------------
(* The bound entries of the quarantine.                                    *)

LEMMA NewCommitNotInHistory ==
  ASSUME NEW h \in Commits, NEW r \in Requests
  PROVE  ~InHistory(Append(h, r), h)
PROOF
  <1>1. Len(Append(h, r)) = Len(h) + 1 /\ Len(h) \in Nat
    BY AppendType DEF Commits
  <1> QED
    BY <1>1 DEF InHistory

LEMMA ParentUnique ==
  ASSUME NEW g \in Commits, NEW h \in Commits, NEW r \in Requests, NEW s \in Requests,
         Append(g, r) = Append(h, s)
  PROVE  g = h
PROOF
  BY AppendInjective DEF Commits

(* A step of a call on the sweep that it runs: it ends the sweep, or it    *)
(* removes a bound entry while it has judged none.                         *)
SweepKept(c) ==
  /\ judged'[c] # NoEntry => judged'[c] = judged[c] /\ pc'[c] = "crashed"
  /\ \A t \in Sweepers \ {c} : judged'[t] = judged[t]
  /\ \/ UNCHANGED << oldBound, overtaken >>
     \/ judged'[c] = NoEntry /\ oldBound' = oldBound /\ overtaken' = overtaken \ {c}
     \/ judged'[c] = NoEntry /\ \E g : RemoveBound(c, g)

(* What sweep s judged past retention still is, unless s was overtaken;    *)
(* and a call has judged an entry only while it opens the quarantine.      *)
SweepInv ==
  /\ \A s \in Sweepers \ overtaken, g \in Commits :
       judged[s] = BoundEntry(g) => g \in oldBound
  /\ \A c \in Calls : judged[c] # NoEntry => pc[c] = "crashed" \/ Sweeping(c)

LEMMA CallSweeps ==
  ASSUME TypeOK, SweepInv, NEW c \in Calls,
         Begin(c) \/ Internal(c) \/ UpdateRefPublish(c) \/ OrphanPublish(c)
  PROVE  SweepKept(c)
PROOF
  <1> USE DEF Goto, Answer, Return, store, sweeps
  <1>0. /\ judged \in [Sweepers -> Entries \cup {NoEntry}] /\ c \in Sweepers
        /\ pc \in [Calls -> Labels]
    BY DEF TypeOK, Sweepers
  <1>1. judged[c] # NoEntry =>
          \/ pc[c] \in {"stage", "cleanup", "crashed"}
          \/ pc[c] = "open" /\ preflightCandidateForAcceptance(c)
    BY CallsAssumption DEF SweepInv, Sweeping
  <1>2. CASE Begin(c)
    BY <1>0, <1>1, <1>2 DEF SweepKept, entries, Begin, PrepareRetry, PrepareReject,
          PrepareAdmit, AcceptRetry, AcceptReject, AcceptAdmit
  <1>3. CASE PrepareStage(c)
    BY <1>0, <1>1, <1>3 DEF SweepKept, entries, PrepareStage, GiveUpSweep
  <1>4. CASE \/ PrepareCommit(c) \/ PrepareBind(c) \/ PrepareVerify(c)
             \/ PrepareReconcile(c)
    BY <1>0, <1>1, <1>4 DEF SweepKept, entries, PrepareCommit, PrepareBind,
          PrepareVerify, PrepareReconcile
  <1>5. CASE RecoverAfterSnapshotFailure(c)
    BY <1>0, <1>1, <1>5 DEF SweepKept, entries, RecoverAfterSnapshotFailure
  <1>6. CASE AcceptOpen(c)
    BY <1>0, <1>1, <1>6 DEF SweepKept, entries, AcceptOpen, GiveUpSweep
  <1>7. CASE \/ AcceptRead(c) \/ CasCheck(c) \/ UpdateRefLock(c)
             \/ UpdateRefKilled(c) \/ CasVerify(c) \/ CasRecover(c)
             \/ AcceptStale(c) \/ AcceptRecovered(c) \/ AcceptVerified(c)
             \/ UpdateRefPublish(c) \/ OrphanPublish(c)
    BY <1>0, <1>1, <1>7 DEF SweepKept, entries, AcceptRead, CasCheck, UpdateRefLock,
          UpdateRefKilled, CasVerify, CasRecover, AcceptStale, AcceptRecovered,
          AcceptVerified, UpdateRefPublish, OrphanPublish
  <1>8. CASE Unbind(c)
    BY <1>0, <1>1, <1>8 DEF SweepKept, Unbind
  <1>9. CASE Cleanup(c)
    BY <1>0, <1>1, <1>9 DEF SweepKept, entries, Cleanup, GiveUpSweep
  <1>10. CASE Crash(c)
    BY <1>0, <1>1, <1>10 DEF SweepKept, entries, Crash, Running
  <1> QED
    BY <1>2, <1>3, <1>4, <1>5, <1>6, <1>7, <1>8, <1>9, <1>10 DEF Internal

(* Candidate commits stay in the object store.                             *)
LEMMA ObjectsGrow ==
  ASSUME [Next]_vars
  PROVE  objects \subseteq objects'
PROOF
  <1> USE DEF authority
  <1>1. ASSUME NEW c \in Calls, Begin(c) PROVE objects' = objects
    BY <1>1 DEF Begin, PrepareRetry, PrepareReject, PrepareAdmit, AcceptRetry,
                AcceptReject, AcceptAdmit
  <1>2. ASSUME NEW c \in Calls,
               \/ PrepareStage(c) \/ PrepareCommit(c) \/ PrepareBind(c)
               \/ PrepareVerify(c) \/ PrepareReconcile(c)
               \/ RecoverAfterSnapshotFailure(c) \/ Unbind(c) \/ Cleanup(c)
        PROVE  objects \subseteq objects'
    BY <1>2 DEF PrepareStage, PrepareCommit, PrepareBind, PrepareVerify,
                PrepareReconcile, RecoverAfterSnapshotFailure, Unbind, Cleanup
  <1>3. ASSUME NEW c \in Calls,
               \/ AcceptOpen(c) \/ AcceptRead(c) \/ AcceptStale(c)
               \/ AcceptRecovered(c) \/ AcceptVerified(c)
        PROVE  objects' = objects
    BY <1>3 DEF AcceptOpen, AcceptRead, AcceptStale, AcceptRecovered, AcceptVerified
  <1>4. ASSUME NEW c \in Calls,
               \/ CasCheck(c) \/ UpdateRefLock(c) \/ UpdateRefPublish(c)
               \/ UpdateRefKilled(c) \/ CasVerify(c) \/ CasRecover(c)
               \/ Crash(c) \/ OrphanPublish(c)
        PROVE  objects' = objects
    BY <1>4 DEF CasCheck, UpdateRefLock, UpdateRefPublish, UpdateRefKilled, CasVerify,
                CasRecover, Crash, OrphanPublish
  <1>5. ASSUME Aside PROVE objects' = objects
    BY <1>5, AsideStep
  <1> QED
    BY <1>1, <1>2, <1>3, <1>4, <1>5 DEF Next, Step, Aside

LEMMA SweepNext == IInv /\ CallInv /\ SweepInv /\ [Next]_vars => SweepInv'
PROOF
  <1> SUFFICES ASSUME IInv, CallInv, SweepInv, [Next]_vars PROVE SweepInv'
    OBVIOUS
  <1>0. /\ TypeOK /\ judged \in [Sweepers -> Entries \cup {NoEntry}]
        /\ Calls \subseteq Sweepers /\ oldBound \subseteq bound
        /\ \A g, h : BoundEntry(g) = BoundEntry(h) => g = h
        /\ \A g : BoundEntry(g) # NoEntry
    BY DEF IInv, TypeOK, Sweepers, BoundEntry, NoEntry
  <1>1. ASSUME NEW c \in Calls, Sweeping(c), pc'[c] = pc[c],
               base'[c] = base[c], req'[c] = req[c]
        PROVE  Sweeping(c)'
    BY <1>1, ObjectsGrow DEF Sweeping, preflightCandidateForAcceptance, candidate
  (* Removing g overtakes every sweep that has judged g.                   *)
  <1>2. ASSUME NEW s \in Sweepers, NEW h, RemoveBound(s, h), judged'[s] = NoEntry,
               \A t \in Sweepers \ {s} : judged'[t] = judged[t]
        PROVE  \A t \in Sweepers \ overtaken', g \in Commits :
                 judged'[t] = BoundEntry(g) => g \in oldBound'
    <2> SUFFICES ASSUME NEW t \in Sweepers \ overtaken', NEW g \in Commits,
                        judged'[t] = BoundEntry(g)
                 PROVE  g \in oldBound'
      OBVIOUS
    <2>1. t # s /\ judged[t] = BoundEntry(g)
      BY <1>0, <1>2
    <2>2. t \notin overtaken /\ judged[t] # BoundEntry(h)
      BY <1>2, <2>1 DEF RemoveBound
    <2>3. g \in oldBound /\ g # h
      BY <2>1, <2>2 DEF SweepInv
    <2> QED
      BY <1>2, <2>3 DEF RemoveBound
  <1>3. ASSUME NEW c \in Calls,
               Begin(c) \/ Internal(c) \/ UpdateRefPublish(c) \/ OrphanPublish(c)
        PROVE  SweepInv'
    <2>1. SweepKept(c)
      BY <1>0, <1>3, CallSweeps
    <2>2. ASSUME NEW d \in Calls, judged'[d] # NoEntry
          PROVE  pc'[d] = "crashed" \/ Sweeping(d)'
      <3>1. CASE d = c
        BY <2>1, <2>2, <3>1 DEF SweepKept
      <3>2. CASE d # c
        <4>1. pc'[d] = pc[d] /\ base'[d] = base[d] /\ req'[d] = req[d]
          BY <1>0, <1>3, <3>2, BeginFrame, BeginGood, InternalFrame, PublishFrame DEF TypeOK
        <4>2. judged[d] # NoEntry
          BY <1>0, <2>1, <2>2, <3>2 DEF SweepKept
        <4> QED
          BY <1>1, <4>1, <4>2 DEF SweepInv
      <3> QED
        BY <3>1, <3>2
    <2>3. \A t \in Sweepers \ overtaken', g \in Commits :
            judged'[t] = BoundEntry(g) => g \in oldBound'
      <3>1. CASE judged'[c] = NoEntry /\ \E g : RemoveBound(c, g)
        BY <1>0, <1>2, <2>1, <3>1 DEF SweepKept
      <3>2. CASE UNCHANGED << oldBound, overtaken >>
        BY <1>0, <2>1, <3>2 DEF SweepKept, SweepInv
      <3>3. CASE judged'[c] = NoEntry /\ oldBound' = oldBound /\ overtaken' = overtaken \ {c}
        BY <1>0, <2>1, <3>3 DEF SweepKept, SweepInv
      <3> QED
        BY <2>1, <3>1, <3>2, <3>3 DEF SweepKept
    <2> QED
      BY <2>2, <2>3 DEF SweepInv
  <1>4. ASSUME NEW s \in Sweepers, PruneBefore(s)
        PROVE  SweepInv'
    <2>1. /\ UNCHANGED << pc, base, req >>
          /\ \A t \in Sweepers \ {s} : judged'[t] = judged[t]
          /\ judged'[s] # NoEntry => Sweeping(s)
      BY <1>0, <1>4, SweepStep DEF PruneBefore, SweepStat, Judge, SweepUnlink, HookFails,
            GiveUpSweep, locals
    <2>2. \A d \in Calls : judged'[d] # NoEntry => pc'[d] = "crashed" \/ Sweeping(d)'
      BY <1>0, <1>1, <2>1 DEF SweepInv
    <2>3. \A t \in Sweepers \ overtaken', g \in Commits :
            judged'[t] = BoundEntry(g) => g \in oldBound'
      <3>1. CASE SweepStat(s)
        <4>1. judged'[s] \in Expired
          BY <1>0, <3>1 DEF SweepStat, Judge
        <4>2. \A g : BoundEntry(g) \in Expired => g \in oldBound
          BY DEF Expired, BoundEntry
        <4> QED
          BY <2>1, <3>1, <4>1, <4>2 DEF SweepStat, Judge, entries, SweepInv
      <3>2. CASE SweepUnlink(s)
        <4>1. judged'[s] = NoEntry
          BY <1>0, <3>2 DEF SweepUnlink
        <4>2. CASE \E g \in bound : RemoveBound(s, g)
          BY <1>2, <2>1, <4>1, <4>2
        <4>3. CASE UNCHANGED << oldBound, overtaken >>
          BY <1>0, <2>1, <4>1, <4>3 DEF SweepInv
        <4> QED
          BY <3>2, <4>2, <4>3 DEF SweepUnlink
      <3>3. CASE HookFails(s)
        BY <1>0, <2>1, <3>3 DEF HookFails, GiveUpSweep, entries, SweepInv
      <3> QED
        BY <1>4, <3>1, <3>2, <3>3 DEF PruneBefore
    <2> QED
      BY <2>2, <2>3 DEF SweepInv
  <1>5. CASE Age \/ UNCHANGED vars
    <2>1. /\ UNCHANGED << pc, base, req, judged, overtaken >>
          /\ oldBound \subseteq oldBound'
      BY <1>0, <1>5 DEF Age, vars, store, entries, sweeps, locals
    <2> QED
      BY <1>1, <2>1 DEF SweepInv
  <1> QED
    BY <1>3, <1>4, <1>5 DEF Next, Step, Internal

(* A bound entry is removed by the call that worked on it, by a cleanup of *)
(* the durable event, or by a sweep that has judged its name.              *)
LEMMA BoundRemoved ==
  ASSUME [Next]_vars, NEW g \in bound \ bound'
  PROVE  \/ \E c \in Calls : \/ Unbind(c) /\ g = candidate(c)
                             \/ Cleanup(c) /\ g = reply[c].accepted
         \/ \E s \in Sweepers : SweepUnlink(s) /\ judged[s] = BoundEntry(g)
PROOF
  <1> USE DEF store, entries, GiveUpSweep
  <1>1. ASSUME NEW c \in Calls, Begin(c) PROVE FALSE
    BY <1>1 DEF Begin, PrepareRetry, PrepareReject, PrepareAdmit, AcceptRetry,
                AcceptReject, AcceptAdmit
  <1>2. ASSUME NEW c \in Calls,
               \/ PrepareStage(c) \/ PrepareCommit(c) \/ PrepareBind(c)
               \/ PrepareVerify(c) \/ PrepareReconcile(c)
               \/ RecoverAfterSnapshotFailure(c)
        PROVE  FALSE
    BY <1>2 DEF PrepareStage, PrepareCommit, PrepareBind, PrepareVerify,
                PrepareReconcile, RecoverAfterSnapshotFailure
  <1>3. ASSUME NEW c \in Calls,
               \/ AcceptOpen(c) \/ AcceptRead(c) \/ AcceptStale(c)
               \/ AcceptRecovered(c) \/ AcceptVerified(c)
        PROVE  FALSE
    BY <1>3 DEF AcceptOpen, AcceptRead, AcceptStale, AcceptRecovered, AcceptVerified
  <1>4. ASSUME NEW c \in Calls,
               \/ CasCheck(c) \/ UpdateRefLock(c) \/ UpdateRefPublish(c)
               \/ UpdateRefKilled(c) \/ CasVerify(c) \/ CasRecover(c)
               \/ Crash(c) \/ OrphanPublish(c)
        PROVE  FALSE
    BY <1>4 DEF CasCheck, UpdateRefLock, UpdateRefPublish, UpdateRefKilled, CasVerify,
                CasRecover, Crash, OrphanPublish
  <1>5. ASSUME NEW c \in Calls, Unbind(c) PROVE g = candidate(c)
    BY <1>5 DEF Unbind, RemoveBound
  <1>6. ASSUME NEW c \in Calls, Cleanup(c) PROVE g = reply[c].accepted
    BY <1>6 DEF Cleanup, RemoveBound
  <1>7. ASSUME NEW s \in Sweepers, PruneBefore(s)
        PROVE  SweepUnlink(s) /\ judged[s] = BoundEntry(g)
    BY <1>7 DEF PruneBefore, SweepStat, Judge, SweepUnlink, HookFails, RemoveBound
  <1>8. ASSUME Age \/ UNCHANGED vars PROVE FALSE
    BY <1>8 DEF Age, vars
  <1> QED
    BY <1>1, <1>2, <1>3, <1>4, <1>5, <1>6, <1>7, <1>8 DEF Next, Step

(* Whoever crashes, is killed or fails, and however many sweeps overlap, a *)
(* bound entry whose parent is the current head leaves the quarantine only *)
(* past retention, or in one of two ways: a sweep that judged its name was *)
(* overtaken by somebody who freed the name, or a Prepare that could not   *)
(* re-read the head removes what it had bound.  The other removals, after  *)
(* a settled Prepare or Accept and in the cleanup of an accepted event,    *)
(* take entries of older parents.                                          *)
THEOREM LiveCapabilitiesKept == Spec => LiveCapabilityKept
PROOF
  <1>1. Init => SweepInv
    BY DEF Init, SweepInv, BoundEntry, NoEntry, Sweepers
  <1>2. IInv /\ CallInv /\ SweepInv /\ [Next]_vars =>
          [\A g \in bound \ bound' :
             \/ g \in oldBound
             \/ ~\E r \in Requests : g = Append(head, r)
             \/ \E s \in overtaken : judged[s] = BoundEntry(g) /\ judged'[s] = NoEntry
             \/ IoFails /\ \E c \in Calls :
                             /\ pc[c] = "unbind" /\ candidate(c) = g
                             /\ reply[c] = unknown(NoCommit)]_vars
    <2> SUFFICES ASSUME IInv, CallInv, SweepInv, [Next]_vars, NEW g \in bound \ bound',
                        g \notin oldBound, NEW r \in Requests, g = Append(head, r)
                 PROVE  \/ \E s \in overtaken : judged[s] = BoundEntry(g) /\ judged'[s] = NoEntry
                        \/ IoFails /\ \E c \in Calls :
                                        /\ pc[c] = "unbind" /\ candidate(c) = g
                                        /\ reply[c] = unknown(NoCommit)
      OBVIOUS
    <2>1. ASSUME NEW s \in Sweepers, SweepUnlink(s), judged[s] = BoundEntry(g)
          PROVE  s \in overtaken /\ judged'[s] = NoEntry
      <3>1. TypeOK /\ g \in Commits
        BY DEF IInv, TypeOK
      <3> QED
        BY <2>1, <3>1 DEF SweepInv, SweepUnlink, TypeOK
    <2>2. ASSUME NEW c \in Calls, Unbind(c), g = candidate(c)
          PROVE  /\ IoFails /\ pc[c] = "unbind" /\ candidate(c) = g
                 /\ reply[c] = unknown(NoCommit)
      <3>1. base[c] = head /\ CallGood(c, pc[c], reply[c], base[c], req[c])
        BY <2>2, Found, ParentUnique
      <3> QED
        BY <2>2, <3>1 DEF CallGood, Unbind
    <2>3. ASSUME NEW c \in Calls, Cleanup(c), g = reply[c].accepted
          PROVE  FALSE
      <3>0. /\ head \in Commits /\ reply[c] \in Response
            /\ CallGood(c, pc[c], reply[c], base[c], req[c])
        BY Found
      <3>1. reply[c].status = "already_accepted"
        BY <2>3, <3>0 DEF CallGood, Cleanup
      <3>2. InHistory(g, head)
        BY <2>3, <3>0, <3>1, InHistoryTransitive DEF CallGood, ResponseTrue
      <3> QED
        BY <3>0, <3>2, NewCommitNotInHistory
    <2> QED
      BY <2>1, <2>2, <2>3, BoundRemoved
  <1> QED
    BY <1>1, <1>2, SweepNext, CallInvariance, PTL DEF Spec, LiveCapabilityKept

(* The calls that will still remove the bound entry of their candidate if  *)
(* it is accepted; a call may die instead.                                 *)
Tidying == {"verify", "reconcile", "updated", "failed", "settle", "recovered",
            "post", "unbind"}

ResidueInv ==
  \A g \in bound : InHistory(g, head) =>
    \E c \in Calls : candidate(c) = g /\ pc[c] \in Tidying \cup {"crashed"}

LEMMA TidyStep ==
  ASSUME "io" \notin Faults, IInv, CallInv, NEW c \in Calls,
         Internal(c), pc[c] \in Tidying, InHistory(candidate(c), head)
  PROVE  pc'[c] \in Tidying \cup {"crashed"} \/ candidate(c) \notin bound'
PROOF
  <1> USE DEF Goto, Answer, Return, Tidying
  <1>1. /\ head \in Commits /\ Replayable(head) /\ base[c] \in Commits
        /\ req[c] \in Requests /\ candidate(c) = Append(base[c], req[c])
        /\ pc \in [Calls -> Labels]
    BY Found DEF IInv, TypeOK
  <1>2. head # base[c]
    BY <1>1, NewCommitNotInHistory
  <1>3. /\ Retry(head, req[c])
        /\ SubSeq(head, 1, FoundAt(head, req[c])) = candidate(c)
    BY <1>1, CandidateFound
  <1>4. ~IoFails /\ ~ReplayFails
    BY <1>1 DEF IoFails, ReplayFails
  <1>5. CASE PrepareVerify(c) \/ PrepareReconcile(c)
    BY <1>1, <1>2, <1>4, <1>5 DEF PrepareVerify, PrepareReconcile
  <1>6. CASE CasVerify(c) \/ CasRecover(c)
    BY <1>1, <1>2, <1>4, <1>6 DEF CasVerify, CasRecover
  <1>7. CASE AcceptRecovered(c) \/ AcceptVerified(c)
    BY <1>1, <1>3, <1>4, <1>7 DEF AcceptRecovered, AcceptVerified
  <1>8. CASE Unbind(c)
    BY <1>4, <1>8 DEF Unbind, RemoveBound
  <1>9. ~(\/ PrepareStage(c) \/ PrepareCommit(c) \/ PrepareBind(c)
          \/ RecoverAfterSnapshotFailure(c) \/ AcceptOpen(c) \/ AcceptRead(c)
          \/ CasCheck(c) \/ UpdateRefLock(c) \/ UpdateRefKilled(c)
          \/ AcceptStale(c) \/ Cleanup(c))
    BY DEF PrepareStage, PrepareCommit, PrepareBind, RecoverAfterSnapshotFailure,
           AcceptOpen, AcceptRead, CasCheck, UpdateRefLock, UpdateRefKilled,
           AcceptStale, Cleanup
  <1>10. CASE Crash(c)
    BY <1>1, <1>10 DEF Crash
  <1> QED
    BY <1>5, <1>6, <1>7, <1>8, <1>9, <1>10 DEF Internal

(* Only Ensure(bound) adds an entry, and the call then verifies it.        *)
LEMMA BoundAdded ==
  ASSUME "io" \notin Faults, TypeOK, [Next]_vars, NEW g \in bound' \ bound
  PROVE  \E c \in Calls : PrepareBind(c) /\ g = candidate(c) /\ pc'[c] = "verify"
PROOF
  <1> USE DEF store, entries, GiveUpSweep
  <1>1. ASSUME NEW c \in Calls, Begin(c) PROVE FALSE
    BY <1>1 DEF Begin, PrepareRetry, PrepareReject, PrepareAdmit, AcceptRetry,
                AcceptReject, AcceptAdmit
  <1>2. ASSUME NEW c \in Calls,
               \/ PrepareStage(c) \/ PrepareCommit(c)
               \/ PrepareVerify(c) \/ PrepareReconcile(c)
               \/ RecoverAfterSnapshotFailure(c)
        PROVE  FALSE
    BY <1>2 DEF PrepareStage, PrepareCommit, PrepareVerify,
                PrepareReconcile, RecoverAfterSnapshotFailure
  <1>3. ASSUME NEW c \in Calls,
               \/ AcceptOpen(c) \/ AcceptRead(c) \/ AcceptStale(c)
               \/ AcceptRecovered(c) \/ AcceptVerified(c)
        PROVE  FALSE
    BY <1>3 DEF AcceptOpen, AcceptRead, AcceptStale, AcceptRecovered, AcceptVerified
  <1>4. ASSUME NEW c \in Calls,
               \/ CasCheck(c) \/ UpdateRefLock(c) \/ UpdateRefPublish(c)
               \/ UpdateRefKilled(c) \/ CasVerify(c) \/ CasRecover(c)
               \/ Crash(c) \/ OrphanPublish(c)
        PROVE  FALSE
    BY <1>4 DEF CasCheck, UpdateRefLock, UpdateRefPublish, UpdateRefKilled, CasVerify,
                CasRecover, Crash, OrphanPublish
  <1>5. ASSUME NEW c \in Calls, Unbind(c) \/ Cleanup(c) PROVE FALSE
    BY <1>5 DEF Unbind, RemoveBound, Cleanup
  <1>6. ASSUME NEW c \in Calls, PrepareBind(c)
        PROVE  g = candidate(c) /\ pc'[c] = "verify"
    BY <1>6 DEF PrepareBind, Goto, IoFails, TypeOK
  <1>7. ASSUME Aside PROVE FALSE
    <2>1. CASE Age \/ UNCHANGED vars
      BY <2>1 DEF Age, vars
    <2>2. ASSUME NEW s \in Sweepers, PruneBefore(s) PROVE FALSE
      BY <2>2 DEF PruneBefore, SweepStat, Judge, SweepUnlink, HookFails, RemoveBound
    <2> QED
      BY <1>7, <2>1, <2>2 DEF Aside
  <1> QED
    BY <1>1, <1>2, <1>3, <1>4, <1>5, <1>6, <1>7 DEF Next, Step, Aside

LEMMA ResidueNext ==
  ASSUME "io" \notin Faults, IInv, CallInv, ResidueInv, [Next]_vars
  PROVE  ResidueInv'
PROOF
  <1>0. TypeOK /\ TypeOK'
    BY TypeNext DEF IInv
  <1>1. ASSUME NEW g \in bound', InHistory(g, head')
        PROVE  \E c \in Calls : candidate(c)' = g /\ pc'[c] \in Tidying \cup {"crashed"}
    <2>1. CASE g \notin bound
      <3>1. PICK c \in Calls : PrepareBind(c) /\ g = candidate(c) /\ pc'[c] = "verify"
        BY <1>0, <1>1, <2>1, BoundAdded
      <3>2. candidate(c)' = g
        BY <3>1 DEF PrepareBind, candidate
      <3> QED
        BY <3>1, <3>2 DEF Tidying
    <2>2. CASE g \in bound /\ InHistory(g, head)
      <3>1. PICK c \in Calls : candidate(c) = g /\ pc[c] \in Tidying \cup {"crashed"}
        BY <2>2 DEF ResidueInv
      <3>2. ASSUME pc'[c] = pc[c], base'[c] = base[c], req'[c] = req[c]
            PROVE  candidate(c)' = g /\ pc'[c] \in Tidying \cup {"crashed"}
        BY <3>1, <3>2 DEF candidate
      <3>3. ASSUME NEW d \in Calls, Begin(d)
            PROVE  pc'[c] = pc[c] /\ base'[c] = base[c] /\ req'[c] = req[c]
        <4>1. c # d
          BY <3>1, <3>3, BeginFrame DEF Tidying
        <4> QED
          BY <1>0, <3>3, <4>1, BeginFrame, BeginGood DEF TypeOK
      <3>4. ASSUME NEW d \in Calls, Internal(d)
            PROVE  candidate(c)' = g /\ pc'[c] \in Tidying \cup {"crashed"}
        <4>1. UNCHANGED << base, req >>
          BY <3>4, InternalFrame
        <4>2. CASE d = c
          <5>1. pc[c] # "crashed"
            BY <1>0, <3>4, <4>2, InternalRuns DEF TypeOK
          <5> QED
            BY <1>1, <2>2, <3>1, <3>4, <4>1, <4>2, <5>1, TidyStep DEF candidate
        <4>3. CASE d # c
          BY <1>0, <3>2, <3>4, <4>1, <4>3, InternalFrame DEF TypeOK
        <4> QED
          BY <4>2, <4>3
      <3>5. ASSUME NEW d \in Calls, UpdateRefPublish(d) \/ OrphanPublish(d)
            PROVE  pc'[c] = pc[c] /\ base'[c] = base[c] /\ req'[c] = req[c]
        <4>1. c # d
          BY <3>1, <3>5, PublishFrame DEF Tidying, Holding
        <4> QED
          BY <1>0, <3>5, <4>1, PublishFrame DEF TypeOK
      <3>6. ASSUME Aside
            PROVE  pc'[c] = pc[c] /\ base'[c] = base[c] /\ req'[c] = req[c]
        BY <3>6, AsideStep DEF locals
      <3> QED
        BY <3>2, <3>3, <3>4, <3>5, <3>6 DEF Next, Step, Internal, Aside
    <2>3. CASE g \in bound /\ ~InHistory(g, head)
      <3>1. PICK c \in Calls : UpdateRefPublish(c) \/ OrphanPublish(c)
        BY <1>1, <2>3, OnlyPublishMoves
      <3>2. /\ head' = Append(head, req[c]) /\ head = base[c]
            /\ UNCHANGED << req, base >>
        BY <3>1, PublishFrame
      <3>3. pc'[c] \in {"updated", "failed", "crashed"}
        BY <1>0, <3>1, PublishFrame DEF TypeOK
      <3>4. g = Append(head, req[c])
        <4>1. g \in Commits /\ head \in Commits /\ req[c] \in Requests
          BY <1>0, <2>3 DEF TypeOK
        <4> QED
          BY <1>1, <2>3, <3>2, <4>1, InHistoryOfAppend
      <3>5. candidate(c)' = g
        BY <3>2, <3>4 DEF candidate
      <3> QED
        BY <3>3, <3>5 DEF Tidying
    <2> QED
      BY <2>1, <2>2, <2>3
  <1> QED
    BY <1>1 DEF ResidueInv

(* When no invocation is running, no accepted event is left in quarantine, *)
(* provided that no Git or filesystem step failed, except the entry of a   *)
(* call that died: whoever published it, and every identical Prepare that  *)
(* re-materialised the entry, removes it before it returns, even when git  *)
(* update-ref was killed or a cleanup by another call gave up.             *)
THEOREM NoResidueLeft ==
  ASSUME "io" \notin Faults
  PROVE  Spec => []NoAcceptedResidue
PROOF
  <1>1. Init => ResidueInv
    BY DEF Init, ResidueInv
  <1>2. IInv /\ CallInv /\ ResidueInv /\ [Next]_vars => ResidueInv'
    BY ResidueNext
  <1>3. ResidueInv => NoAcceptedResidue
    BY DEF ResidueInv, NoAcceptedResidue, Tidying, Running
  <1> QED
    BY <1>1, <1>2, <1>3, CallInvariance, PTL DEF Spec

-----------------------------------------------------------------------------
(* The staging entries of the quarantine.                                  *)

(* Where a Prepare can be while its staging entry exists, and how it can   *)
(* have ended.                                                             *)
StageInv ==
  \A c \in staged :
    \/ pc[c] \in {"commit", "bind", "verify", "recover", "crashed"}
    \/ pc[c] = "done" /\ reply[c].err \in {"staging", "commit", "cleanup_failed"}

(* What one step does to the entry of the call that takes it.              *)
LEMMA StageStep ==
  ASSUME TypeOK, StageInv, NEW c \in Calls, Internal(c), c \in staged'
  PROVE  \/ pc'[c] \in {"commit", "bind", "verify", "recover", "crashed"}
         \/ pc'[c] = "done" /\ reply'[c].err \in {"staging", "commit", "cleanup_failed"}
PROOF
  <1> USE DEF Goto, Answer, Return
  <1>1. pc \in [Calls -> Labels] /\ reply \in [Calls -> Response]
    BY DEF TypeOK
  <1>2. CASE PrepareStage(c)
    BY <1>1, <1>2 DEF PrepareStage, Refuse
  <1>3. CASE PrepareCommit(c) \/ PrepareBind(c)
    BY <1>1, <1>3 DEF PrepareCommit, PrepareBind, Refuse
  <1>4. CASE PrepareVerify(c)
    BY <1>1, <1>4 DEF PrepareVerify, RemoveStage, Refuse
  <1>5. CASE RecoverAfterSnapshotFailure(c)
    <2>1. PICK resp \in Response : ReturnUnstaged(c, resp)
      <3>1. /\ unknown(NoCommit) \in Response
            /\ head \in Commits => Traced(head, req[c], reply[c]) \in Response
        BY <1>1, TracedType, ResponseTypes DEF TypeOK
      <3> QED
        BY <1>5, <3>1 DEF RecoverAfterSnapshotFailure, TypeOK
    <2>2. CASE c \in staged /\ reply' = [reply EXCEPT ![c] = [resp EXCEPT !.err = "cleanup_failed"]]
                            /\ pc' = [pc EXCEPT ![c] = "done"]
      BY <1>1, <2>2 DEF Response
    <2>3. CASE RemoveStage(c)
      BY <2>3 DEF RemoveStage
    <2> QED
      BY <2>1, <2>2, <2>3 DEF ReturnUnstaged
  <1>6. CASE Crash(c)
    BY <1>1, <1>6 DEF Crash, Running, StageInv, store, entries
  <1>7. ASSUME \/ PrepareReconcile(c) \/ AcceptOpen(c) \/ AcceptRead(c)
               \/ CasCheck(c) \/ UpdateRefLock(c) \/ UpdateRefKilled(c)
               \/ CasVerify(c) \/ CasRecover(c)
               \/ AcceptStale(c) \/ AcceptRecovered(c) \/ AcceptVerified(c)
               \/ Unbind(c) \/ Cleanup(c)
        PROVE  FALSE
    <2>1. c \in staged
      BY <1>7 DEF PrepareReconcile, AcceptOpen, AcceptRead, CasCheck, UpdateRefLock,
                  UpdateRefKilled, CasVerify, CasRecover, AcceptStale, AcceptRecovered,
                  AcceptVerified, Unbind, Cleanup, GiveUpSweep, store, entries
    <2> QED
      BY <1>7, <2>1 DEF StageInv, PrepareReconcile, AcceptOpen, AcceptRead, CasCheck,
                        UpdateRefLock, UpdateRefKilled, CasVerify, CasRecover, AcceptStale,
                        AcceptRecovered, AcceptVerified, Unbind, Cleanup
  <1> QED
    BY <1>2, <1>3, <1>4, <1>5, <1>6, <1>7 DEF Internal

(* No step adds the staging entry of another call.                         *)
LEMMA StagedByOwner ==
  ASSUME [Next]_vars, NEW d \in staged' \ staged
  PROVE  PrepareStage(d)
PROOF
  <1> USE DEF store, entries, GiveUpSweep
  <1>1. ASSUME NEW c \in Calls, Begin(c) PROVE FALSE
    BY <1>1 DEF Begin, PrepareRetry, PrepareReject, PrepareAdmit, AcceptRetry,
                AcceptReject, AcceptAdmit
  <1>2. ASSUME NEW c \in Calls, PrepareStage(c) PROVE PrepareStage(d)
    <2>1. d = c
      BY <1>2 DEF PrepareStage
    <2> QED
      BY <1>2, <2>1
  <1>3. ASSUME NEW c \in Calls,
               \/ PrepareCommit(c) \/ PrepareBind(c) \/ PrepareVerify(c)
               \/ PrepareReconcile(c) \/ RecoverAfterSnapshotFailure(c)
        PROVE  FALSE
    BY <1>3 DEF PrepareCommit, PrepareBind, PrepareVerify, PrepareReconcile,
                RecoverAfterSnapshotFailure, ReturnUnstaged, RemoveStage
  <1>4. ASSUME NEW c \in Calls,
               \/ AcceptOpen(c) \/ AcceptRead(c) \/ AcceptStale(c)
               \/ AcceptRecovered(c) \/ AcceptVerified(c) \/ Unbind(c) \/ Cleanup(c)
        PROVE  FALSE
    BY <1>4 DEF AcceptOpen, AcceptRead, AcceptStale, AcceptRecovered, AcceptVerified,
                Unbind, Cleanup
  <1>5. ASSUME NEW c \in Calls,
               \/ CasCheck(c) \/ UpdateRefLock(c) \/ UpdateRefPublish(c)
               \/ UpdateRefKilled(c) \/ CasVerify(c) \/ CasRecover(c)
               \/ Crash(c) \/ OrphanPublish(c)
        PROVE  FALSE
    BY <1>5 DEF CasCheck, UpdateRefLock, UpdateRefPublish, UpdateRefKilled, CasVerify,
                CasRecover, Crash, OrphanPublish
  <1>6. ASSUME Aside PROVE FALSE
    <2>1. CASE Age \/ UNCHANGED vars
      BY <2>1 DEF Age, vars
    <2>2. ASSUME NEW s \in Sweepers, PruneBefore(s) PROVE FALSE
      BY <2>2 DEF PruneBefore, SweepStat, Judge, SweepUnlink, HookFails, RemoveStage
    <2> QED
      BY <1>6, <2>1, <2>2 DEF Aside
  <1> QED
    BY <1>1, <1>2, <1>3, <1>4, <1>5, <1>6 DEF Next, Step, Aside

LEMMA StageNext ==
  ASSUME IInv, CallInv, StageInv, [Next]_vars
  PROVE  StageInv'
PROOF
  <1>0. TypeOK /\ TypeOK' /\ staged' \subseteq Calls
    BY TypeNext DEF IInv, TypeOK
  <1> SUFFICES ASSUME NEW d \in staged'
               PROVE  \/ pc'[d] \in {"commit", "bind", "verify", "recover", "crashed"}
                      \/ /\ pc'[d] = "done"
                         /\ reply'[d].err \in {"staging", "commit", "cleanup_failed"}
    BY DEF StageInv
  <1>1. ASSUME pc'[d] = pc[d], reply'[d] = reply[d], d \in staged
        PROVE  \/ pc'[d] \in {"commit", "bind", "verify", "recover", "crashed"}
               \/ /\ pc'[d] = "done"
                  /\ reply'[d].err \in {"staging", "commit", "cleanup_failed"}
    BY <1>1 DEF StageInv
  <1>2. CASE d \notin staged
    <2>1. Internal(d)
      BY <1>2, StagedByOwner DEF Internal
    <2> QED
      BY <1>0, <2>1, StageStep
  <1>3. CASE d \in staged
    <2>1. ASSUME NEW c \in Calls, Begin(c) PROVE pc'[d] = pc[d] /\ reply'[d] = reply[d]
      <3>1. c # d
        BY <1>3, <2>1, BeginFrame DEF StageInv
      <3> QED
        BY <1>0, <2>1, <3>1, BeginFrame DEF TypeOK
    <2>2. ASSUME NEW c \in Calls, Internal(c), c # d
          PROVE  pc'[d] = pc[d] /\ reply'[d] = reply[d]
      BY <1>0, <2>2, InternalFrame DEF TypeOK
    <2>3. ASSUME NEW c \in Calls, UpdateRefPublish(c) \/ OrphanPublish(c)
          PROVE  pc'[d] = pc[d] /\ reply'[d] = reply[d]
      <3>1. c # d
        BY <1>3, <2>3, PublishFrame DEF StageInv, Holding
      <3> QED
        BY <1>0, <2>3, <3>1, PublishFrame DEF TypeOK
    <2>4. ASSUME Aside
          PROVE  pc'[d] = pc[d] /\ reply'[d] = reply[d]
      BY <2>4, AsideStep DEF locals
    <2>5. CASE Internal(d)
      BY <1>0, <2>5, StageStep
    <2> QED
      BY <1>1, <1>3, <2>1, <2>2, <2>3, <2>4, <2>5 DEF Next, Step, Internal, Aside
  <1> QED
    BY <1>2, <1>3

(* A staging entry is left behind only by a call that died or that said    *)
(* so, under all faults: what is left to the 24 hour retention is known.   *)
THEOREM StagingAlwaysReported == Spec => []StagingReported
PROOF
  <1>1. Init => StageInv
    BY DEF Init, StageInv
  <1>2. IInv /\ CallInv /\ StageInv /\ [Next]_vars => StageInv'
    BY StageNext
  <1>3. StageInv => StagingReported
    BY DEF StageInv, StagingReported, Running
  <1> QED
    BY <1>1, <1>2, <1>3, CallInvariance, PTL DEF Spec
=============================================================================
