---------------------------- MODULE EngineProofs ----------------------------
(***************************************************************************)
(* For any number of callers, any capacity of the channel, any batch size  *)
(* and whatever fails: every caller has one answer coming and gets no      *)
(* other, nil means committed while the tree is whole, and the tree is     *)
(* whole until a refusal, a Delete behind another request or a full disk;  *)
(* and, when no barrier fails, a crash finds a whole tree.                 *)
(***************************************************************************)
EXTENDS Engine, ListLemmas

(* A list, continued.                                                      *)
Extends(s, t) == Len(s) <= Len(t) /\ \A i \in 1 .. Len(s) : t[i] = s[i]

(* What is in a batch or committed has been sent, and so has what has an   *)
(* answer; what is committed is no longer on the channel, once only, and   *)
(* the master page on the disk names the tree in use or an earlier one.    *)
Committed ==
  /\ \A r \in ToSet(root.log) \cup ToSet(batch) : phase[r] \in {"waiting", "returned"}
  /\ ToSet(root.log) \cap ToSet(jobChan) = {}
  /\ \A r \in Request : errChan[r] # "none" => phase[r] \in {"waiting", "returned"}
  /\ IsInjective(root.log)
  /\ Extends(master.log, root.log)

(* A flush is at work on newRoot.                                          *)
Building == pc \in {"apply", "fsync", "master"}

(* Where the loop over the batch stands.                                   *)
Position ==
  /\ pc \notin {"select", "broken"} => batch # << >>
  /\ pc \in {"apply", "notify"} => at < Len(batch)
  /\ pc \in {"select", "apply", "fsync"} => flushErr = "nil"
  /\ pc \in {"master", "msync"} => flushErr # "refused"

(* Until the master page is written the batch is new to the tree, and the  *)
(* part of it that newRoot has is behind what root has.  If newRoot is     *)
(* whole nothing of the batch is missing there.                            *)
Threaded ==
  /\ pc = "select" \/ Building => ToSet(root.log) \cap ToSet(batch) = {}
  /\ Building =>
       /\ Extends(root.log, newRoot.log) /\ IsInjective(newRoot.log)
       /\ ToSet(newRoot.log) \subseteq ToSet(root.log) \cup ToSet(batch)
  /\ pc = "apply" =>
       /\ ToSet(newRoot.log) \cap {batch[i] : i \in at + 1 .. Len(batch)} = {}
       /\ newRoot.whole => {batch[i] : i \in 1 .. at} \subseteq ToSet(newRoot.log)
  /\ pc \in {"fsync", "master"} /\ newRoot.whole => ToSet(batch) \subseteq ToSet(newRoot.log)

(* From then on all of it is in a tree that is whole, or none of it if it  *)
(* was refused.                                                            *)
Settled ==
  /\ (pc = "msync" \/ (pc = "notify" /\ flushErr # "refused")) /\ root.whole =>
       ToSet(batch) \subseteq ToSet(root.log)
  /\ pc = "notify" /\ flushErr = "refused" => ToSet(root.log) \cap ToSet(batch) = {}
  /\ pc = "notify" /\ flushErr = "nil" => master = root

(* A tree that is whole, or will be in use and whole, has what was         *)
(* answered with nil.                                                      *)
Acked ==
  root.whole \/ (Building /\ newRoot.whole) =>
    \A r \in Request :
      errChan[r] = "nil" => r \in ToSet(root.log) /\ r \in ToSet(master.log)

(* Behind another request a Delete retires t.root a second time.           *)
LateDelete(t) == \E i \in 2 .. Len(t.log) : t.log[i] \in Deletes

(* What may have cost the tree.                                            *)
Excused ==
  \/ \E r \in Request : errChan[r] = "refused"
  \/ LateDelete(root)
  \/ full

(* Every page that is free though in use, and every tree that is not       *)
(* whole, goes back to such a cause.                                       *)
Spoiling ==
  /\ "published" \in stray => Excused
  /\ "kept" \in stray =>
       \/ Excused
       \/ Building /\ LateDelete(newRoot)
       \/ pc = "notify" /\ flushErr = "refused"
       \/ pc = "broken"
  /\ ~root.whole => Excused
  /\ Building /\ ~newRoot.whole => Excused
  /\ Building /\ newRoot.whole /\ "published" \notin stray => root.whole

(* The pairs of the tree the disk has, as long as no barrier fails.        *)
Durable ==
  Sync /\ {"fsync", "msync"} \cap Faults = {} =>
    /\ ToSet(root.log) \subseteq root.forced
    /\ pc \in {"apply", "fsync"} => ToSet(root.log) \subseteq newRoot.forced
    /\ pc = "master" => ToSet(newRoot.log) \subseteq newRoot.forced
    /\ pc = "msync" /\ Undamaged => master.whole /\ ToSet(master.log) \subseteq master.forced
    /\ pc # "msync" /\ root.whole => master = root

(* Once the master page is written the last request of the tree is one of  *)
(* the batch, and warned if a barrier failed; if the disk's master page    *)
(* lags behind after the flush, one has.                                   *)
Lagging ==
  Undamaged =>
    /\ pc = "msync" => root.log # << >> /\ Last(root.log) \in ToSet(batch)
    /\ pc \notin {"msync", "broken"} /\ master # root =>
         root.log # << >> /\ Warned(Len(root.log))

(* The pairs of the tree, and of the one the disk's master page names,     *)
(* that the disk may lack.                                                 *)
Reported ==
  Sync /\ Undamaged =>
    /\ \A i \in 1 .. Len(root.log) : root.log[i] \in root.forced \/ Warned(i)
    /\ pc \in {"apply", "fsync"} => newRoot.forced = root.forced
    /\ pc = "master" /\ newRoot.whole /\ flushErr = "nil" =>
         \A i \in 1 .. Len(newRoot.log) :
           newRoot.log[i] \in newRoot.forced \/ (i <= Len(root.log) /\ Warned(i))

IInv ==
  /\ TypeOK
  /\ EachAnsweredOnce
  /\ Committed
  /\ Position
  /\ Threaded
  /\ Settled
  /\ Acked
  /\ Spoiling
  /\ Durable
  /\ Lagging
  /\ UnforcedIsReported
  /\ Reported

-----------------------------------------------------------------------------
(* ToSet and Range are two names for the same set.                         *)
LEMMA ToSetIsRange ==
  \A s : ToSet(s) = Range(s)
  BY DEF ToSet, Range

(* The sender's end of a channel, and what it does to the batch.           *)
LEMMA AppendRequest ==
  ASSUME NEW s \in Seq(Request), NEW r \in Request
  PROVE  /\ Append(s, r) \in Seq(Request)
         /\ Len(Append(s, r)) = Len(s) + 1
         /\ ToSet(Append(s, r)) = ToSet(s) \cup {r}
         /\ IsInjective(s) /\ r \notin ToSet(s) => IsInjective(Append(s, r))
<1>1. ToSet(Append(s, r)) = ToSet(s) \cup {r}
  BY RangeOfAppend, ToSetIsRange
<1>2. ASSUME IsInjective(s), r \notin ToSet(s) PROVE IsInjective(Append(s, r))
  BY <1>2, AppendToInjective, ToSetIsRange
<1> QED
  BY <1>1, <1>2

(* The receiver's end.                                                     *)
LEMMA TakeRequest ==
  ASSUME NEW s \in Seq(Request), s # << >>, IsInjective(s)
  PROVE  /\ Tail(s) \in Seq(Request) /\ IsInjective(Tail(s))
         /\ Head(s) \in ToSet(s) /\ Head(s) \in Request
         /\ ToSet(Tail(s)) = ToSet(s) \ {Head(s)}
  BY TailOfInjective, ToSetIsRange

(* Requests in a sequence, by position.                                    *)
LEMMA Members ==
  ASSUME NEW s \in Seq(Request)
  PROVE  /\ ToSet(s) = {s[i] : i \in 1 .. Len(s)}
         /\ ToSet(s) \subseteq Request
         /\ Len(s) \in Nat
         /\ DOMAIN s = 1 .. Len(s)
         /\ s # << >> <=> Len(s) > 0
  BY DEF ToSet

(* One list continues the other: so do those that continue it, and what is *)
(* in it is in them.                                                       *)
LEMMA Continued ==
  ASSUME NEW s \in Seq(Request), NEW t \in Seq(Request), NEW u \in Seq(Request),
         Extends(s, t)
  PROVE  /\ Extends(s, s)
         /\ Extends(t, u) => Extends(s, u)
         /\ ToSet(s) \subseteq ToSet(t)
         /\ \A r \in Request : Extends(s, Append(t, r))
<1>1. Len(s) \in Nat /\ Len(t) \in Nat /\ Len(u) \in Nat
  OBVIOUS
<1>2. Extends(s, s) /\ (Extends(t, u) => Extends(s, u))
  BY <1>1 DEF Extends
<1>3. ToSet(s) \subseteq ToSet(t)
  BY <1>1, Members DEF Extends
<1>4. \A r \in Request : Extends(s, Append(t, r))
  BY <1>1 DEF Extends
<1> QED
  BY <1>2, <1>3, <1>4

(* Continuing a list is appending to it.                                   *)
LEMMA ContinuedIsPrefix ==
  ASSUME NEW s \in Seq(Request), NEW t \in Seq(Request), Extends(s, t)
  PROVE  IsPrefix(s, t)
<1>1. Len(s) \in Nat /\ Len(t) \in Nat /\ Len(s) <= Len(t)
  BY DEF Extends
<1>2. SubSeq(t, 1, Len(s)) \in Seq(Request) /\ Len(SubSeq(t, 1, Len(s))) = Len(s)
  BY <1>1
<1>3. \A i \in 1 .. Len(s) : SubSeq(t, 1, Len(s))[i] = s[i]
  BY <1>1 DEF Extends
<1>4. SubSeq(t, 1, Len(s)) = s
  BY <1>2, <1>3
<1> QED
  BY <1>1, <1>4 DEF IsPrefix

-----------------------------------------------------------------------------
(* A tree by its fields, and one that has lost a page.                     *)
LEMMA TreeFields ==
  ASSUME NEW t \in Trees
  PROVE  /\ t.log \in Seq(Request) /\ t.forced \subseteq Request /\ t.whole \in BOOLEAN
         /\ Spoilt(t) \in Trees
         /\ Spoilt(t).log = t.log /\ Spoilt(t).forced = t.forced /\ ~Spoilt(t).whole
  BY DEF Trees, Spoilt

(* A request that allocates may take pages of this tree.                   *)
LEMMA MayLoseTree ==
  ASSUME NEW t \in Trees, NEW u \in MayLose(t)
  PROVE  /\ u \in Trees /\ u.log = t.log /\ u.forced = t.forced
         /\ u.whole => t.whole
         /\ "published" \notin stray => u = t
<1>1. u = t \/ (u = Spoilt(t) /\ "published" \in stray)
  BY DEF MayLose
<1> QED
  BY <1>1, TreeFields

(* The same of the trees that are committed.                               *)
LEMMA AllocatesTrees ==
  ASSUME TypeOK, Allocates
  PROVE  /\ root' \in Trees /\ root'.log = root.log /\ root'.forced = root.forced
         /\ root'.whole => root.whole
         /\ "published" \notin stray => root' = root
         /\ master' \in Trees /\ master'.log = master.log /\ master'.forced = master.forced
         /\ master = root => master' = root'
<1>1. root \in Trees /\ master \in Trees
  BY DEF TypeOK
<1>2. root' \in MayLose(root)
  BY DEF Allocates
<1>3. \/ master = root /\ master' = root'
      \/ master # root /\ master' \in {master, Spoilt(master)}
  BY DEF Allocates
<1>4. /\ root' \in Trees /\ root'.log = root.log /\ root'.forced = root.forced
      /\ root'.whole => root.whole
      /\ "published" \notin stray => root' = root
  BY <1>1, <1>2, MayLoseTree
<1> QED
  BY <1>1, <1>3, <1>4, TreeFields

-----------------------------------------------------------------------------
(* The engine starts with nothing pending and nothing promised.            *)
LEMMA InitInv == Init => IInv
<1> SUFFICES ASSUME Init PROVE IInv
  OBVIOUS
<1>1. ToSet(<< >>) = {} /\ IsInjective(<< >>) /\ << >> \in Seq(Request) /\ Len(<< >>) = 0
  BY EmptyList, ToSetIsRange
<1>2. Empty \in Trees /\ Empty.log = << >> /\ Empty.forced = {} /\ Empty.whole
  BY <1>1 DEF Empty, Trees
<1>3. TypeOK
  <2>1. phase \in [Request -> Phases] /\ errChan \in [Request -> {"none"} \cup Outcomes]
    BY DEF Init, Phases
  <2> QED
    BY <1>1, <1>2, <2>1 DEF Init, TypeOK, Outcomes
<1>4. Unanswered = {}
  BY <1>1 DEF Init, Unanswered
<1>5. EachAnsweredOnce /\ Committed
  BY <1>1, <1>2, <1>4 DEF Init, EachAnsweredOnce, Committed, Extends
<1>6. Position /\ Threaded /\ Settled /\ Acked /\ Spoiling /\ Durable /\ Lagging
  BY <1>1, <1>2
     DEF Init, Position, Building, Threaded, Settled, Acked, Spoiling, Durable, Lagging
<1>7. UnforcedIsReported /\ Reported
  BY <1>1, <1>2 DEF Init, UnforcedIsReported, Reported
<1> QED
  BY <1>3, <1>5, <1>6, <1>7 DEF IInv

(* What the invariant says of batch and channel, for the steps to cite.    *)
LEMMA Queues ==
  ASSUME IInv
  PROVE  /\ jobChan \in Seq(Request) /\ batch \in Seq(Request)
         /\ ToSet(jobChan) \subseteq Request /\ ToSet(batch) \subseteq Request
         /\ ToSet(batch) = {batch[i] : i \in 1 .. Len(batch)}
         /\ Len(batch) \in Nat /\ at \in Nat
         /\ batch # << >> <=> Len(batch) > 0
         /\ pc # "notify" => Unanswered = ToSet(batch)
         /\ Unanswered \subseteq ToSet(batch)
  BY Members DEF IInv, TypeOK, Unanswered

(* And of the trees.                                                       *)
LEMMA TreesTyped ==
  ASSUME IInv
  PROVE  /\ root \in Trees /\ root.log \in Seq(Request)
         /\ root.forced \subseteq Request /\ root.whole \in BOOLEAN
         /\ newRoot \in Trees /\ newRoot.log \in Seq(Request)
         /\ newRoot.forced \subseteq Request /\ newRoot.whole \in BOOLEAN
         /\ master \in Trees /\ master.log \in Seq(Request)
         /\ master.forced \subseteq Request /\ master.whole \in BOOLEAN
         /\ Len(root.log) \in Nat /\ Len(newRoot.log) \in Nat /\ Len(master.log) \in Nat
         /\ DOMAIN master.log = 1 .. Len(master.log)
  BY TreeFields, Members DEF IInv, TypeOK

(* What callers do concerns neither the tree nor the flush.                *)
LEMMA OutsideKept ==
  ASSUME IInv, UNCHANGED <<errChan, batch, pc, flush, disk, spoil>>
  PROVE  /\ Unanswered' = Unanswered
         /\ Position' /\ Threaded' /\ Settled' /\ Acked' /\ Spoiling' /\ Durable' /\ Lagging'
         /\ UnforcedIsReported' /\ Reported'
<1>1. Unanswered' = Unanswered
  BY DEF Unanswered, flush
<1>2. Position' /\ Threaded' /\ Settled' /\ Acked'
  BY DEF IInv, Position, Threaded, Settled, Acked, Building, flush, disk
<1>3. Spoiling'
  BY DEF IInv, Spoiling, Excused, LateDelete, Building, flush, disk, spoil
<1>4. Undamaged' = Undamaged /\ \A i : Warned(i)' = Warned(i)
  BY <1>1 DEF Undamaged, Warned, flush, disk, spoil
<1>5. Durable' /\ Lagging' /\ UnforcedIsReported' /\ Reported'
  BY <1>4 DEF IInv, Durable, Lagging, UnforcedIsReported, Reported, flush, disk
<1> QED
  BY <1>1, <1>2, <1>3, <1>5

(* A caller that builds its request changes nothing the engine owns.       *)
LEMMA CallStep ==
  ASSUME IInv, NEW r \in Request, Call(r)
  PROVE  IInv'
<1>1. TypeOK'
  BY DEF IInv, TypeOK, Phases, Call, queue, flush, disk, spoil
<1>2. /\ Unanswered' = Unanswered
      /\ Position' /\ Threaded' /\ Settled' /\ Acked' /\ Spoiling' /\ Durable' /\ Lagging'
      /\ UnforcedIsReported' /\ Reported'
  BY OutsideKept DEF Call, queue
<1>3. EachAnsweredOnce'
  BY <1>2 DEF IInv, TypeOK, EachAnsweredOnce, Call, queue
<1>4. Committed'
  BY Queues, TreesTyped DEF IInv, TypeOK, Committed, Call, queue, disk
<1> QED
  BY <1>1, <1>2, <1>3, <1>4 DEF IInv

(* A send fills one place of the channel.                                  *)
LEMMA SendStep ==
  ASSUME IInv, NEW r \in Request, Send(r)
  PROVE  IInv'
<1>1. /\ jobChan' \in Seq(Request)
      /\ ToSet(jobChan') = ToSet(jobChan) \cup {r}
      /\ r \notin ToSet(jobChan) => IsInjective(jobChan')
  BY AppendRequest, Queues DEF Send, IInv, EachAnsweredOnce
<1>2. phase[r] = "sending" /\ errChan[r] = "none" /\ pc # "broken"
  BY DEF Send, IInv, Committed, TypeOK
<1>3. r \notin ToSet(jobChan) \cup Unanswered
  BY <1>2 DEF IInv, EachAnsweredOnce
<1>4. TypeOK'
  BY <1>1 DEF IInv, TypeOK, Phases, Send, flush, disk, spoil
<1>5. /\ Unanswered' = Unanswered
      /\ Position' /\ Threaded' /\ Settled' /\ Acked' /\ Spoiling' /\ Durable' /\ Lagging'
      /\ UnforcedIsReported' /\ Reported'
  BY OutsideKept DEF Send
<1>6. r \notin ToSet(batch)
  BY <1>2 DEF IInv, Committed
<1>7. EachAnsweredOnce'
  BY <1>1, <1>2, <1>3, <1>5, <1>6 DEF IInv, TypeOK, EachAnsweredOnce, Send
<1>8. Committed'
  BY <1>1, <1>2, <1>6 DEF IInv, TypeOK, Committed, Send, disk
<1> QED
  BY <1>4, <1>5, <1>7, <1>8 DEF IInv

(* A caller that takes its answer leaves.                                  *)
LEMMA ReturnStep ==
  ASSUME IInv, NEW r \in Request, Return(r)
  PROVE  IInv'
<1>1. TypeOK'
  BY DEF IInv, TypeOK, Phases, Return, queue, flush, disk, spoil
<1>2. /\ Unanswered' = Unanswered
      /\ Position' /\ Threaded' /\ Settled' /\ Acked' /\ Spoiling' /\ Durable' /\ Lagging'
      /\ UnforcedIsReported' /\ Reported'
  BY OutsideKept DEF Return, queue
<1>3. EachAnsweredOnce'
  BY <1>2 DEF IInv, TypeOK, EachAnsweredOnce, Return, queue
<1>4. Committed'
  BY Queues, TreesTyped DEF IInv, TypeOK, Committed, Return, queue, disk
<1> QED
  BY <1>1, <1>2, <1>3, <1>4 DEF IInv

(* The variables of a flush, typed, whether one begins or not.             *)
FlushTyped ==
  /\ pc \in {"select", "apply", "fsync", "master", "msync", "notify", "broken"}
  /\ at \in Nat /\ newRoot \in Trees /\ flushErr \in Outcomes

(* The batch of a flush is a list of requests.                             *)
LEMMA FlushTypes ==
  ASSUME IInv, BeginFlush \/ UNCHANGED <<pc, flush>>
  PROVE  FlushTyped'
<1>1. CASE BeginFlush
  BY <1>1, TreesTyped DEF BeginFlush, FlushTyped, Outcomes
<1>2. CASE UNCHANGED <<pc, flush>>
  BY <1>2 DEF IInv, TypeOK, FlushTyped, flush
<1> QED
  BY <1>1, <1>2

(* The loop takes a request or a tick: a flush starts with a batch that is *)
(* new to the tree, or the batch grows.                                    *)
LEMMA LoopKept ==
  ASSUME IInv, pc = "select", UNCHANGED <<errChan, disk, spoil>>,
         batch' \in Seq(Request), ToSet(root.log) \cap ToSet(batch') = {},
         \/ BeginFlush /\ batch' # << >>
         \/ UNCHANGED <<pc, flush>>
  PROVE  /\ Unanswered' = ToSet(batch')
         /\ Position' /\ Threaded' /\ Settled' /\ Acked' /\ Spoiling' /\ Durable' /\ Lagging'
         /\ UnforcedIsReported' /\ Reported'
<1>1. /\ ToSet(batch') = {batch'[i] : i \in 1 .. Len(batch')} /\ Len(batch') \in Nat
      /\ batch' # << >> => 0 < Len(batch')
  BY Members
<1>2. pc' # "notify" /\ pc' \in {"select", "apply"} /\ flushErr' = "nil" /\ flushErr = "nil"
  BY DEF IInv, Position, BeginFlush, flush
<1>3. Unanswered' = ToSet(batch')
  BY <1>1, <1>2 DEF Unanswered
<1>4. Undamaged' = Undamaged /\ \A i : Warned(i)' <=> Warned(i)
  BY <1>2 DEF Undamaged, Warned, disk, spoil
<1>5. CASE UNCHANGED <<pc, flush>>
  <2>1. Position' /\ Threaded' /\ Settled' /\ Acked'
    BY <1>5 DEF IInv, Position, Threaded, Settled, Acked, Building, flush, disk
  <2>2. Spoiling'
    BY <1>5 DEF IInv, Spoiling, Excused, LateDelete, Building, flush, disk, spoil
  <2>3. Durable' /\ Lagging' /\ UnforcedIsReported' /\ Reported'
    BY <1>4, <1>5 DEF IInv, Durable, Lagging, UnforcedIsReported, Reported, flush, disk
  <2> QED
    BY <1>3, <2>1, <2>2, <2>3
<1>6. CASE BeginFlush /\ batch' # << >>
  <2>1. /\ pc' = "apply" /\ at' = 0 /\ newRoot' = root /\ newRoot'.log = root'.log
        /\ {batch'[i] : i \in 1 .. at'} = {}
        /\ {batch'[i] : i \in at' + 1 .. Len(batch')} = ToSet(batch')
    BY <1>1, <1>6 DEF BeginFlush, disk
  <2>2. UNCHANGED <<root, master, stray, full>> /\ Extends(root.log, root.log)
    BY TreesTyped DEF Extends, disk, spoil
  <2>3. Position'
    BY <1>1, <1>2, <1>6, <2>1 DEF Position
  <2>4. Threaded' /\ Settled'
    BY <2>1, <2>2 DEF IInv, Committed, Threaded, Settled, Building
  <2>5. Acked'
    BY <2>1, <2>2 DEF IInv, Acked, Building
  <2>6. Spoiling'
    BY <2>1, <2>2 DEF IInv, Spoiling, Excused, LateDelete, Building
  <2>7. Durable' /\ Lagging' /\ UnforcedIsReported' /\ Reported'
    BY <1>2, <1>4, <2>1, <2>2
       DEF IInv, Durable, Lagging, UnforcedIsReported, Reported
  <2> QED
    BY <1>3, <2>3, <2>4, <2>5, <2>6, <2>7
<1> QED
  BY <1>5, <1>6

(* The loop takes a request from the channel, and flushes when the buffer  *)
(* is full.                                                                *)
LEMMA ReceiveStep ==
  ASSUME IInv, Receive
  PROVE  IInv'
<1> DEFINE r == Head(jobChan)
<1>1. /\ r \in Request /\ r \in ToSet(jobChan)
      /\ jobChan' \in Seq(Request) /\ IsInjective(jobChan')
      /\ ToSet(jobChan') = ToSet(jobChan) \ {r}
  BY TakeRequest, Queues DEF Receive, IInv, EachAnsweredOnce
<1>2. r \notin ToSet(batch) /\ r \notin ToSet(root.log)
  BY <1>1 DEF IInv, EachAnsweredOnce, Committed
<1>3. /\ batch' \in Seq(Request) /\ batch' # << >>
      /\ ToSet(batch') = ToSet(batch) \cup {r} /\ IsInjective(batch')
  <2>1. batch' = Append(batch, r) /\ IsInjective(batch) /\ batch \in Seq(Request)
    BY DEF Receive, IInv, EachAnsweredOnce, TypeOK
  <2> QED
    BY <2>1, <1>1, <1>2, AppendRequest
<1>4. ToSet(root.log) \cap ToSet(batch') = {}
  BY <1>2, <1>3 DEF IInv, Threaded, Receive
<1>5. pc = "select" /\ UNCHANGED <<phase, errChan, disk, spoil>> /\ pc' # "broken"
  BY DEF Receive, BeginFlush
<1>6. /\ Unanswered = ToSet(batch) /\ Unanswered' = ToSet(batch')
      /\ Position' /\ Threaded' /\ Settled' /\ Acked' /\ Spoiling' /\ Durable' /\ Lagging'
      /\ UnforcedIsReported' /\ Reported'
  BY <1>3, <1>4, <1>5, LoopKept, Queues DEF Receive
<1>7. TypeOK'
  <2>1. FlushTyped'
    BY FlushTypes DEF Receive
  <2> QED
    BY <2>1, <1>1, <1>3 DEF Receive, IInv, TypeOK, FlushTyped, disk, spoil
<1>8. EachAnsweredOnce'
  BY <1>1, <1>2, <1>3, <1>5, <1>6 DEF Receive, IInv, EachAnsweredOnce
<1>9. Committed'
  BY <1>1, <1>2, <1>3, <1>5 DEF IInv, EachAnsweredOnce, Committed, disk
<1> QED
  BY <1>6, <1>7, <1>8, <1>9 DEF IInv

(* The ticker fires and the loop flushes what it has.                      *)
LEMMA TickStep ==
  ASSUME IInv, TickArrives \/ OnTick
  PROVE  IInv'
<1>1. TypeOK'
  <2>1. FlushTyped'
    BY FlushTypes DEF TickArrives, OnTick
  <2>2. tick' \in BOOLEAN
    BY Zenon DEF TickArrives, OnTick
  <2> QED
    BY <2>1, <2>2 DEF TickArrives, OnTick, IInv, TypeOK, FlushTyped, disk, spoil
<1>2. UNCHANGED <<phase, errChan, jobChan, batch, disk, spoil>>
  BY DEF TickArrives, OnTick
<1>3. /\ Unanswered' = Unanswered
      /\ Position' /\ Threaded' /\ Settled' /\ Acked' /\ Spoiling' /\ Durable' /\ Lagging'
      /\ UnforcedIsReported' /\ Reported'
  <2>1. CASE OnTick
    <3>1. pc = "select" /\ ToSet(root.log) \cap ToSet(batch') = {} /\ batch' \in Seq(Request)
      BY <1>2, <2>1, Queues DEF OnTick, IInv, Threaded
    <3> QED
      BY <3>1, <1>2, <2>1, LoopKept, Queues DEF OnTick
  <2>2. CASE TickArrives
    BY <2>2, OutsideKept DEF TickArrives
  <2> QED
    BY <2>1, <2>2
<1>4. EachAnsweredOnce'
  <2>1. pc' # "broken" => pc # "broken"
    BY DEF TickArrives, OnTick, BeginFlush
  <2> QED
    BY <2>1, <1>2, <1>3 DEF IInv, EachAnsweredOnce
<1>5. Committed'
  BY <1>2 DEF IInv, Committed, disk
<1> QED
  BY <1>1, <1>3, <1>4, <1>5 DEF IInv

(* Until Notify the steps of a flush touch neither callers nor channel.    *)
LEMMA SilentSteps ==
  ASSUME IInv, UNCHANGED <<phase, errChan, queue>>, pc # "broken",
         pc # "notify", pc' = "notify" => at' = 0
  PROVE  Unanswered = ToSet(batch) /\ Unanswered' = ToSet(batch) /\ EachAnsweredOnce'
<1>1. Unanswered = ToSet(batch) /\ Unanswered' = ToSet(batch)
  BY Queues DEF Unanswered, queue
<1> QED
  BY <1>1 DEF IInv, EachAnsweredOnce, queue

(* A request is warned if one behind it is.                                *)
LEMMA WarnedBefore ==
  ASSUME NEW i \in Nat, NEW j \in Nat, i <= j, Warned(j), root.log \in Seq(Request)
  PROVE  Warned(i)
  BY DEF Warned

(* A warning given or on its way is not taken back.                        *)
LEMMA WarnedKept ==
  ASSUME IInv, root'.log \in Seq(Request), Extends(root.log, root'.log),
         \A r \in Request : errChan[r] = "unforced" => errChan'[r] = "unforced",
         flushErr = "unforced" =>
           \A r \in Unanswered \cap ToSet(root.log) :
             errChan'[r] = "unforced" \/ (r \in Unanswered' /\ flushErr' = "unforced"),
         NEW i \in Nat \ {0}, Warned(i)
  PROVE  Warned(i)'
<1>1. PICK j \in i .. Len(root.log) : \/ errChan[root.log[j]] = "unforced"
                                      \/ root.log[j] \in Unanswered /\ flushErr = "unforced"
  BY DEF Warned
<1>2. /\ Len(root.log) \in Nat /\ Len(root'.log) \in Nat
      /\ ToSet(root.log) = {root.log[k] : k \in 1 .. Len(root.log)}
      /\ ToSet(root.log) \subseteq Request
  BY TreesTyped, Members
<1>3. j \in i .. Len(root'.log) /\ root'.log[j] = root.log[j] /\ root.log[j] \in ToSet(root.log)
  BY <1>2 DEF Extends
<1>4. \/ errChan'[root'.log[j]] = "unforced"
      \/ root'.log[j] \in Unanswered' /\ flushErr' = "unforced"
  BY <1>1, <1>2, <1>3
<1> QED
  BY <1>3, <1>4 DEF Warned

(* What any request does on its way, whether it succeeds or not.           *)
Allocating ==
  /\ pc = "apply" /\ Allocates /\ UNCHANGED <<phase, errChan, queue>>
  /\ stray' \in {stray, stray \cup {"kept"}} /\ full' \in {full, TRUE}
  /\ pc' = "notify" => at' = 0

LEMMA ApplyAllocates == Apply => Allocating
  BY DEF Apply, ApplyAllOr, Applied, Swallowed, Refused, NextOfBatch, Allocating

(* It allocates, which may cost a tree in use, and writes down nothing.    *)
LEMMA ApplyFrame ==
  ASSUME IInv, Allocating
  PROVE  /\ pc = "apply" /\ UNCHANGED <<phase, errChan, queue>> /\ flushErr = "nil"
         /\ at + 1 \in 1 .. Len(batch) /\ current \in ToSet(batch) /\ current \in Request
         /\ root' \in Trees /\ root'.log = root.log /\ root'.forced = root.forced
         /\ root'.whole => root.whole
         /\ "published" \notin stray => root' = root
         /\ master' \in Trees /\ master'.log = master.log /\ master'.forced = master.forced
         /\ master = root => master' = root'
         /\ stray' \subseteq {"kept", "published"}
         /\ "published" \in stray' <=> "published" \in stray
         /\ full' \in BOOLEAN /\ (full => full') /\ (Excused => Excused')
         /\ Undamaged' => Undamaged /\ root' = root
<1>1. pc = "apply" /\ Allocates /\ UNCHANGED <<phase, errChan, queue>>
  BY DEF Allocating
<1>2. /\ root' \in Trees /\ root'.log = root.log /\ root'.forced = root.forced
      /\ root'.whole => root.whole
      /\ "published" \notin stray => root' = root
      /\ master' \in Trees /\ master'.log = master.log /\ master'.forced = master.forced
      /\ master = root => master' = root'
  BY <1>1, AllocatesTrees DEF IInv
<1>3. flushErr = "nil" /\ at + 1 \in 1 .. Len(batch) /\ current \in ToSet(batch)
  BY <1>1, Queues DEF IInv, Position, current
<1>4. current \in Request
  BY <1>3, Queues
<1>5. /\ stray' \in {stray, stray \cup {"kept"}} /\ full' \in {full, TRUE}
  BY DEF Allocating
<1>6. /\ stray' \subseteq {"kept", "published"} /\ full' \in BOOLEAN
      /\ "published" \in stray' <=> "published" \in stray
      /\ full => full'
  <2>1. stray \subseteq {"kept", "published"} /\ full \in BOOLEAN
    BY DEF IInv, TypeOK
  <2>2. full' \in BOOLEAN /\ (full => full')
    BY <1>5, <2>1, Zenon
  <2>3. stray' \subseteq {"kept", "published"} /\ ("published" \in stray' <=> "published" \in stray)
    BY <1>5, <2>1
  <2> QED
    BY <2>2, <2>3
<1>7. Excused => Excused'
  BY <1>1, <1>2, <1>6 DEF Excused, LateDelete
<1>8. Undamaged' => Undamaged /\ root' = root
  BY <1>2, <1>6 DEF Undamaged
<1> QED
  BY <1>1, <1>2, <1>3, <1>4, <1>6, <1>7, <1>8

(* Whether a request succeeds or not, what has been promised of the        *)
(* committed tree stays as true as it was.                                 *)
LEMMA ApplyKeepsTree ==
  ASSUME IInv, Allocating
  PROVE  /\ EachAnsweredOnce' /\ Committed'
         /\ \A i \in Nat \ {0} : Warned(i) => Warned(i)'
         /\ UnforcedIsReported'
         /\ Sync /\ Undamaged' =>
              \A i \in 1 .. Len(root'.log) : root'.log[i] \in root'.forced \/ Warned(i)'
         /\ Undamaged' /\ master' # root' => root'.log # << >> /\ Warned(Len(root.log))'
<1>1. pc' = "notify" => at' = 0
  BY DEF Allocating
<1>2. EachAnsweredOnce'
  BY <1>1, ApplyFrame, SilentSteps
<1>3. Committed'
  BY ApplyFrame DEF IInv, Committed, queue
<1>4. root'.log \in Seq(Request) /\ Extends(root.log, root'.log)
  BY ApplyFrame, TreesTyped DEF Extends
<1>5. ASSUME NEW i \in Nat \ {0}, Warned(i) PROVE Warned(i)'
  BY <1>4, <1>5, ApplyFrame, WarnedKept
<1>6. ASSUME Undamaged', master' # root'
      PROVE  Undamaged /\ root.log # << >> /\ Warned(Len(root.log))
  BY <1>6, ApplyFrame DEF IInv, Lagging
<1>7. ASSUME Undamaged', master' # root', NEW i \in 1 .. Len(root.log) PROVE Warned(i)'
  <2>1. Warned(i)
    BY <1>6, <1>7, TreesTyped, WarnedBefore
  <2> QED
    BY <2>1, <1>5
<1>8. Len(master.log) <= Len(root.log) /\ DOMAIN master'.log = 1 .. Len(master.log)
  BY ApplyFrame, TreesTyped DEF IInv, Committed, Extends
<1>9. ASSUME Sync, Undamaged', NEW i \in DOMAIN master'.log
      PROVE  (master'.whole /\ master'.log[i] \in master'.forced) \/ Warned(i)'
  <2>1. Undamaged /\ root' = root /\ i \in 1 .. Len(root.log) /\ i \in DOMAIN master.log
    BY <1>8, <1>9, ApplyFrame, TreesTyped
  <2>2. CASE master' # root'
    BY <2>1, <2>2, <1>7, <1>9
  <2>3. CASE master' = root'
    <3>1. root.log[i] \in root.forced \/ Warned(i)
      BY <1>9, <2>1 DEF IInv, Reported
    <3>2. master'.whole /\ master'.log = root.log /\ master'.forced = root.forced
      BY <2>1, <2>3 DEF Undamaged
    <3> QED
      BY <2>1, <3>1, <3>2, <1>5
  <2> QED
    BY <2>2, <2>3
<1>10. ASSUME Sync, Undamaged', NEW i \in 1 .. Len(root'.log)
       PROVE  root'.log[i] \in root'.forced \/ Warned(i)'
  <2>1. Undamaged /\ root' = root
    BY <1>10, ApplyFrame
  <2>2. root.log[i] \in root.forced \/ Warned(i)
    BY <1>10, <2>1 DEF IInv, Reported
  <2> QED
    BY <2>1, <2>2, <1>5, <1>10, TreesTyped
<1>11. Undamaged' /\ master' # root' => root'.log # << >> /\ Warned(Len(root.log))'
  <2> SUFFICES ASSUME Undamaged', master' # root'
               PROVE  root'.log # << >> /\ Warned(Len(root.log))'
    OBVIOUS
  <2>1. root' = root /\ root.log # << >> /\ Warned(Len(root.log))
    BY <1>6, ApplyFrame
  <2>2. Len(root.log) \in Nat \ {0}
    BY <2>1, TreesTyped
  <2> QED
    BY <2>1, <2>2, <1>5
<1> QED
  BY <1>2, <1>3, <1>5, <1>9, <1>10, <1>11 DEF UnforcedIsReported

(* A request that does not end the batch: what becomes of the new tree.    *)
LEMMA ThreadOn ==
  ASSUME IInv, Apply, Applied \/ Swallowed
  PROVE  /\ NextOfBatch /\ newRoot' \in Trees /\ newRoot'.forced = newRoot.forced
         /\ Extends(newRoot.log, newRoot'.log) /\ IsInjective(newRoot'.log)
         /\ ToSet(newRoot'.log) \subseteq ToSet(newRoot.log) \cup {current}
         /\ newRoot'.whole => newRoot.whole /\ current \in ToSet(newRoot'.log)
         /\ "kept" \in stray' => "kept" \in stray \/ Excused \/ LateDelete(newRoot')
         /\ ~newRoot'.whole => Excused \/ full'
<1>1. /\ pc = "apply" /\ at + 1 \in 1 .. Len(batch) /\ at \in Nat
      /\ current \in ToSet(batch) /\ current \in Request
  BY ApplyAllocates, ApplyFrame, Queues
<1>2. Building /\ newRoot \in Trees /\ newRoot.log \in Seq(Request) /\ newRoot.whole \in BOOLEAN
  BY <1>1, TreesTyped DEF Building
<1>3. Extends(newRoot.log, newRoot.log) /\ IsInjective(newRoot.log)
  BY <1>2 DEF IInv, Threaded, Extends
<1>4. current \notin ToSet(newRoot.log)
  <2>1. current \in {batch[i] : i \in at + 1 .. Len(batch)}
    BY <1>1, Queues DEF current
  <2> QED
    BY <2>1, <1>1 DEF IInv, Threaded
<1>5. CASE Applied
  <2> DEFINE t == [newRoot EXCEPT !.log = Append(@, current)]
             l == Append(newRoot.log, current)
  <2>1. /\ l \in Seq(Request) /\ Len(l) = Len(newRoot.log) + 1 /\ l[Len(l)] = current
        /\ ToSet(l) = ToSet(newRoot.log) \cup {current} /\ IsInjective(l)
        /\ Extends(newRoot.log, l)
    BY <1>1, <1>2, <1>3, <1>4, AppendRequest, Continued
  <2>2. t \in Trees /\ t.log = l /\ t.forced = newRoot.forced /\ t.whole = newRoot.whole
    BY <1>2, <2>1 DEF Trees
  <2>3. newRoot' \in MayLose(t) /\ NextOfBatch
    BY <1>5 DEF Applied
  <2> HIDE DEF t
  <2>4. /\ newRoot' \in Trees /\ newRoot'.log = l /\ newRoot'.forced = newRoot.forced
        /\ newRoot'.whole => newRoot.whole
        /\ "published" \notin stray => newRoot'.whole = newRoot.whole
    BY <2>2, <2>3, MayLoseTree
  <2> HIDE DEF l
  <2>5. ~newRoot'.whole => Excused
    <3>1. ~newRoot.whole => Excused
      BY <1>2 DEF IInv, Spoiling
    <3>2. "published" \in stray => Excused
      BY DEF IInv, Spoiling
    <3> QED
      BY <2>4, <3>1, <3>2
  <2>6. "kept" \in stray' => "kept" \in stray \/ Excused \/ LateDelete(newRoot')
    <3> SUFFICES ASSUME "kept" \in stray', "kept" \notin stray, newRoot.whole
                 PROVE  LateDelete(newRoot')
      BY <1>2 DEF IInv, Spoiling
    <3>1. current \in Deletes /\ at > 0
      BY <1>5 DEF Applied
    <3>2. batch[1] \in ToSet(newRoot.log)
      BY <1>1, <3>1 DEF IInv, Threaded
    <3>3. Len(newRoot.log) > 0
      BY <1>2, <3>2, Members
    <3> QED
      BY <3>1, <3>3, <2>1, <2>4, TreesTyped DEF LateDelete
  <2> QED
    BY <2>1, <2>3, <2>4, <2>5, <2>6
<1>6. CASE Swallowed
  <2>1. newRoot' = Spoilt(newRoot) /\ full' = TRUE /\ NextOfBatch /\ UNCHANGED stray
    BY <1>6 DEF Swallowed
  <2>2. /\ newRoot' \in Trees /\ newRoot'.log = newRoot.log /\ newRoot'.forced = newRoot.forced
        /\ ~newRoot'.whole
    BY <2>1, <1>2, TreeFields
  <2> QED
    BY <1>3, <2>1, <2>2
<1> QED
  BY <1>5, <1>6

(* A request of the batch is applied to the tree.                          *)
LEMMA ApplyStep ==
  ASSUME IInv, Apply
  PROVE  IInv'
<1>0. Allocating
  BY ApplyAllocates
<1>1. /\ pc = "apply" /\ flushErr = "nil" /\ UNCHANGED <<phase, errChan, queue>>
      /\ at \in Nat /\ Len(batch) \in Nat /\ at + 1 \in 1 .. Len(batch) /\ batch # << >>
      /\ ToSet(batch) = {batch[i] : i \in 1 .. Len(batch)}
      /\ current \in ToSet(batch) /\ batch' = batch
  BY <1>0, ApplyFrame, Queues DEF queue
<1>2. /\ EachAnsweredOnce' /\ Committed' /\ UnforcedIsReported'
      /\ Sync /\ Undamaged' =>
           \A i \in 1 .. Len(root'.log) : root'.log[i] \in root'.forced \/ Warned(i)'
      /\ Undamaged' /\ master' # root' => root'.log # << >> /\ Warned(Len(root.log))'
  BY <1>0, ApplyKeepsTree
<1>3. Excused => Excused'
  BY <1>0, ApplyFrame
<1>4. CASE Applied \/ Swallowed
  <2>1. /\ at' = at + 1 /\ pc' = (IF at' = Len(batch) THEN "fsync" ELSE "apply")
        /\ flushErr' = flushErr
    BY <1>4, ThreadOn DEF NextOfBatch
  <2>2. newRoot' \in Trees /\ newRoot'.log \in Seq(Request) /\ newRoot'.whole \in BOOLEAN
    BY <1>4, ThreadOn, TreeFields
  <2>3. TypeOK'
    BY <1>1, <2>1, <2>2, <1>0, ApplyFrame DEF IInv, TypeOK, queue
  <2>4. Position'
    BY <1>1, <2>1 DEF Position
  <2>5. Building /\ pc' \in {"apply", "fsync"}
    BY <1>1, <2>1 DEF Building
  <2>6. Threaded'
    <3>1. /\ Extends(root.log, newRoot.log)
          /\ ToSet(newRoot.log) \subseteq ToSet(root.log) \cup ToSet(batch)
          /\ ToSet(newRoot.log) \cap {batch[i] : i \in at + 1 .. Len(batch)} = {}
          /\ newRoot.whole => {batch[i] : i \in 1 .. at} \subseteq ToSet(newRoot.log)
          /\ ToSet(root.log) \cap ToSet(batch) = {}
      BY <1>1, <2>5 DEF IInv, Threaded
    <3>2. /\ Extends(newRoot.log, newRoot'.log) /\ IsInjective(newRoot'.log)
          /\ ToSet(newRoot'.log) \subseteq ToSet(newRoot.log) \cup {current}
          /\ newRoot'.whole => newRoot.whole /\ current \in ToSet(newRoot'.log)
      BY <1>4, ThreadOn
    <3>3. Extends(root.log, newRoot'.log) /\ ToSet(newRoot.log) \subseteq ToSet(newRoot'.log)
      BY <3>1, <3>2, <2>2, TreesTyped, Continued
    <3>4. current \notin {batch[i] : i \in at' + 1 .. Len(batch)}
      <4>1. \A i, j \in 1 .. Len(batch) : batch[i] = batch[j] => i = j
        BY Queues DEF IInv, EachAnsweredOnce, IsInjective
      <4> QED
        BY <4>1, <1>1, <2>1 DEF current
    <3>5. {batch[i] : i \in at' + 1 .. Len(batch)} \subseteq {batch[i] : i \in at + 1 .. Len(batch)}
      BY <1>1, <2>1
    <3>6. {batch[i] : i \in 1 .. at'} = {batch[i] : i \in 1 .. at} \cup {current}
      BY <1>1, <2>1 DEF current
    <3>7. newRoot'.whole => {batch[i] : i \in 1 .. at'} \subseteq ToSet(newRoot'.log)
      BY <3>1, <3>2, <3>3, <3>6
    <3>8. pc' = "fsync" => {batch[i] : i \in 1 .. at'} = ToSet(batch)
      BY <1>1, <2>1
    <3>9. ToSet(newRoot'.log) \cap {batch[i] : i \in at' + 1 .. Len(batch)} = {}
      BY <3>1, <3>2, <3>4, <3>5
    <3>10. ToSet(newRoot'.log) \subseteq ToSet(root.log) \cup ToSet(batch) /\ root'.log = root.log
      BY <1>1, <3>1, <3>2, <1>0, ApplyFrame
    <3>11. /\ {batch'[i] : i \in 1 .. at'} = {batch[i] : i \in 1 .. at'}
           /\ {batch'[i] : i \in at' + 1 .. Len(batch')} = {batch[i] : i \in at' + 1 .. Len(batch)}
           /\ ToSet(batch') = ToSet(batch)
      BY <1>1
    <3>12. ToSet(root'.log) \cap ToSet(batch') = {}
      BY <3>1, <3>10, <3>11
    <3>13. /\ Extends(root'.log, newRoot'.log) /\ IsInjective(newRoot'.log)
           /\ ToSet(newRoot'.log) \subseteq ToSet(root'.log) \cup ToSet(batch')
      BY <3>2, <3>3, <3>10, <3>11
    <3>14. /\ ToSet(newRoot'.log) \cap {batch'[i] : i \in at' + 1 .. Len(batch')} = {}
           /\ newRoot'.whole => {batch'[i] : i \in 1 .. at'} \subseteq ToSet(newRoot'.log)
      BY <3>7, <3>9, <3>11
    <3>15. pc' = "fsync" /\ newRoot'.whole => ToSet(batch') \subseteq ToSet(newRoot'.log)
      BY <3>7, <3>8, <3>11
    <3> QED
      BY <2>5, <3>12, <3>13, <3>14, <3>15 DEF Threaded
  <2>7. Settled'
    BY <2>5 DEF Settled
  <2>8. Acked'
    <3>1. root'.whole \/ newRoot'.whole => root.whole \/ (Building /\ newRoot.whole)
      BY <1>4, <2>5, <1>0, ApplyFrame, ThreadOn
    <3> QED
      BY <1>1, <3>1, <1>0, ApplyFrame DEF IInv, Acked
  <2>9. Spoiling'
    <3>1. /\ "kept" \in stray' => "kept" \in stray \/ Excused \/ LateDelete(newRoot')
          /\ ~newRoot'.whole => Excused \/ full'
          /\ newRoot'.whole => newRoot.whole
      BY <1>4, ThreadOn
    <3>2. LateDelete(newRoot) => LateDelete(newRoot')
      <4>1. Extends(newRoot.log, newRoot'.log)
        BY <1>4, ThreadOn
      <4> QED
        BY <4>1, <2>2, TreesTyped DEF LateDelete, Extends
    <3>3. full' => Excused'
      BY DEF Excused
    <3>4. Building'
      BY <2>5 DEF Building
    <3>5. "published" \in stray' => Excused'
      BY <1>3, <1>0, ApplyFrame DEF IInv, Spoiling
    <3>6. "kept" \in stray' => Excused' \/ LateDelete(newRoot')
      BY <1>1, <1>3, <3>1, <3>2 DEF IInv, Spoiling
    <3>7. ~root'.whole => Excused'
      <4>1. "published" \in stray => Excused
        BY DEF IInv, Spoiling
      <4>2. ~root.whole => Excused
        BY DEF IInv, Spoiling
      <4> QED
        BY <1>3, <4>1, <4>2, <1>0, ApplyFrame
    <3>8. newRoot'.whole /\ "published" \notin stray' => root'.whole
      BY <3>1, <2>5, <1>0, ApplyFrame DEF IInv, Spoiling
    <3>9. ~newRoot'.whole => Excused'
      BY <1>3, <3>1, <3>3
    <3> QED
      BY <3>4, <3>5, <3>6, <3>7, <3>8, <3>9 DEF Spoiling
  <2>10. Durable'
    <3>1. newRoot'.forced = newRoot.forced
      BY <1>4, ThreadOn
    <3>2. root'.whole => root.whole /\ (master = root => master' = root')
      BY <1>0, ApplyFrame
    <3> QED
      BY <1>1, <2>5, <3>1, <3>2, <1>0, ApplyFrame DEF IInv, Durable
  <2>11. Lagging'
    BY <1>2, <2>5, <1>0, ApplyFrame DEF Lagging
  <2>12. Reported'
    <3>1. newRoot'.forced = newRoot.forced
      BY <1>4, ThreadOn
    <3> QED
      BY <1>1, <1>2, <2>5, <3>1, <1>0, ApplyFrame DEF IInv, Reported
  <2> QED
    BY <1>2, <2>3, <2>4, <2>6, <2>7, <2>8, <2>9, <2>10, <2>11, <2>12 DEF IInv
<1>5. CASE Refused("notify")
  <2>1. /\ flushErr' = "refused" /\ at' = 0 /\ pc' = "notify" /\ newRoot' = newRoot
        /\ full' = full
    BY <1>5 DEF Refused
  <2>2. TypeOK'
    BY <1>1, <2>1, <1>0, ApplyFrame DEF IInv, TypeOK, Outcomes, queue
  <2>3. Position'
    BY <1>1, <2>1 DEF Position
  <2>4. Threaded' /\ Settled'
    <3>1. ToSet(root'.log) \cap ToSet(batch') = {}
      BY <1>1, <1>0, ApplyFrame DEF IInv, Threaded, Building
    <3> QED
      BY <2>1, <3>1 DEF Threaded, Settled, Building
  <2>5. Acked'
    BY <1>1, <2>1, <1>0, ApplyFrame DEF IInv, Acked, Building
  <2>6. Spoiling'
    <3>1. ("published" \in stray => Excused) /\ (~root.whole => Excused)
      BY DEF IInv, Spoiling
    <3> QED
      BY <1>3, <2>1, <3>1, <1>0, ApplyFrame DEF Spoiling, Building
  <2>7. Durable'
    BY <1>1, <2>1, <1>0, ApplyFrame DEF IInv, Durable
  <2>8. Lagging' /\ Reported'
    BY <1>2, <2>1, <1>0, ApplyFrame DEF Lagging, Reported
  <2> QED
    BY <1>2, <2>2, <2>3, <2>4, <2>5, <2>6, <2>7, <2>8 DEF IInv
<1> QED
  BY <1>4, <1>5 DEF Apply, ApplyAllOr


(* Barrier 1: what the batch has added is forced out or its callers warned.*)
LEMMA FsyncStep ==
  ASSUME IInv, Fsync
  PROVE  IInv'
<1>1. /\ pc = "fsync" /\ pc' = "master" /\ flushErr = "nil"
      /\ UNCHANGED <<phase, errChan, queue, at, disk, spoil>>
  BY DEF Fsync, IInv, Position
<1>2. UNCHANGED <<batch, root, master, stray, full>>
  BY <1>1 DEF queue, disk, spoil
<1>3. flushErr' \in {"nil", "unforced"}
  BY <1>1 DEF Fsync
<1>4. /\ newRoot' \in Trees /\ newRoot'.log = newRoot.log /\ newRoot'.whole = newRoot.whole
  <2>1. ASSUME NEW f \in SUBSET Request, newRoot' = [newRoot EXCEPT !.forced = f]
        PROVE  newRoot' \in Trees /\ newRoot'.log = newRoot.log /\ newRoot'.whole = newRoot.whole
    BY <2>1, TreesTyped DEF Trees
  <2>2. ToSet(newRoot.log) \subseteq Request /\ ToSet(root.log) \subseteq Request
    BY TreesTyped, Members
  <2>3. CASE newRoot' = newRoot
    BY <2>3, TreesTyped
  <2>4. ASSUME NEW copied \in SUBSET ToSet(root.log),
               newRoot' = [newRoot EXCEPT
                 !.forced = @ \cup (ToSet(newRoot.log) \ ToSet(root.log)) \cup copied]
        PROVE  newRoot' \in Trees /\ newRoot'.log = newRoot.log /\ newRoot'.whole = newRoot.whole
    <3>1. newRoot.forced \cup (ToSet(newRoot.log) \ ToSet(root.log)) \cup copied \in SUBSET Request
      BY <2>2, TreesTyped
    <3> QED
      BY <2>1, <2>4, <3>1
  <2>5. ASSUME NEW there \in SUBSET ToSet(newRoot.log),
               newRoot' = [newRoot EXCEPT !.forced = there]
        PROVE  newRoot' \in Trees /\ newRoot'.log = newRoot.log /\ newRoot'.whole = newRoot.whole
    BY <2>1, <2>2, <2>5
  <2> QED
    BY <2>3, <2>4, <2>5 DEF Fsync
<1>5. Sync /\ flushErr' = "nil" =>
        /\ newRoot.forced \subseteq newRoot'.forced
        /\ ToSet(newRoot.log) \ ToSet(root.log) \subseteq newRoot'.forced
  <2>1. newRoot \in Trees
    BY TreesTyped
  <2> QED
    BY <2>1 DEF Fsync, Trees
<1>6. Unanswered = ToSet(batch) /\ Unanswered' = ToSet(batch) /\ EachAnsweredOnce'
  BY <1>1, SilentSteps
<1>7. TypeOK'
  BY <1>1, <1>3, <1>4 DEF IInv, TypeOK, Outcomes, queue, disk, spoil
<1>8. Building /\ Building'
  BY <1>1 DEF Building
<1>9. Committed' /\ Position' /\ Settled'
  BY <1>1, <1>2, <1>3 DEF IInv, Committed, Position, Settled, queue
<1>10. Threaded'
  BY <1>1, <1>2, <1>4, <1>8 DEF IInv, Threaded
<1>11. Acked'
  BY <1>1, <1>2, <1>4, <1>8 DEF IInv, Acked
<1>12. Spoiling'
  BY <1>1, <1>2, <1>4, <1>8 DEF IInv, Spoiling, Excused, LateDelete
<1>13. Undamaged' = Undamaged /\ \A i : Warned(i) => Warned(i)'
  BY <1>1, <1>2 DEF Undamaged, Warned
<1>14. Extends(root.log, newRoot.log) /\ IsInjective(newRoot.log)
  BY <1>8 DEF IInv, Threaded
<1>15. ASSUME NEW i \in 1 .. Len(newRoot.log)
       PROVE  \/ i <= Len(root.log) /\ newRoot.log[i] = root.log[i]
              \/ newRoot.log[i] \in ToSet(newRoot.log) \ ToSet(root.log)
  <2>1. /\ ToSet(newRoot.log) = {newRoot.log[k] : k \in 1 .. Len(newRoot.log)}
        /\ ToSet(root.log) = {root.log[k] : k \in 1 .. Len(root.log)}
        /\ Len(newRoot.log) \in Nat /\ Len(root.log) \in Nat
        /\ DOMAIN newRoot.log = 1 .. Len(newRoot.log)
    BY TreesTyped, Members
  <2>2. CASE i <= Len(root.log)
    BY <1>14, <1>15, <2>1, <2>2 DEF Extends
  <2>3. CASE ~(i <= Len(root.log))
    <3>1. \A k \in 1 .. Len(root.log) : newRoot.log[i] # root.log[k]
      BY <1>14, <1>15, <2>1, <2>3 DEF Extends, IsInjective
    <3> QED
      BY <1>15, <2>1, <3>1
  <2> QED
    BY <2>2, <2>3
<1>16. Durable'
  <2> SUFFICES ASSUME Sync, {"fsync", "msync"} \cap Faults = {}
               PROVE  ToSet(newRoot'.log) \subseteq newRoot'.forced
    BY <1>1, <1>2, <1>13 DEF IInv, Durable
  <2>1. flushErr' = "nil"
    BY <1>1 DEF Fsync
  <2>2. ToSet(root.log) \subseteq newRoot.forced
    BY <1>1 DEF IInv, Durable
  <2> QED
    BY <1>4, <1>5, <2>1, <2>2
<1>17. Lagging' /\ UnforcedIsReported'
  BY <1>1, <1>2, <1>13 DEF IInv, Lagging, UnforcedIsReported
<1>18. Reported'
  <2> SUFFICES ASSUME Sync, Undamaged
               PROVE  /\ \A i \in 1 .. Len(root.log) : root.log[i] \in root.forced \/ Warned(i)'
                      /\ flushErr' = "nil" =>
                           \A i \in 1 .. Len(newRoot.log) :
                             \/ newRoot.log[i] \in newRoot'.forced
                             \/ i <= Len(root.log) /\ Warned(i)'
    BY <1>1, <1>2, <1>4, <1>13 DEF Reported
  <2>1. /\ \A i \in 1 .. Len(root.log) : root.log[i] \in root.forced \/ Warned(i)
        /\ newRoot.forced = root.forced
    BY <1>1 DEF IInv, Reported
  <2>2. ASSUME flushErr' = "nil", NEW i \in 1 .. Len(newRoot.log)
        PROVE  newRoot.log[i] \in newRoot'.forced \/ (i <= Len(root.log) /\ Warned(i)')
    BY <1>5, <1>13, <1>15, <2>1, <2>2, TreesTyped
  <2> QED
    BY <1>13, <2>1, <2>2
<1> QED
  BY <1>6, <1>7, <1>9, <1>10, <1>11, <1>12, <1>16, <1>17, <1>18 DEF IInv

(* A batch that is to be committed is behind what the tree has.            *)
LEMMA LastOfBatch ==
  ASSUME IInv, pc = "master", newRoot.whole
  PROVE  /\ newRoot.log # << >> /\ Last(newRoot.log) \in ToSet(batch)
         /\ Last(newRoot.log) = newRoot.log[Len(newRoot.log)]
         /\ ToSet(batch) \subseteq ToSet(newRoot.log)
         /\ \E r \in ToSet(newRoot.log) : r \notin ToSet(root.log)
<1>1. /\ ToSet(root.log) \cap ToSet(batch) = {} /\ ToSet(batch) \subseteq ToSet(newRoot.log)
      /\ Extends(root.log, newRoot.log) /\ IsInjective(newRoot.log)
      /\ ToSet(newRoot.log) \subseteq ToSet(root.log) \cup ToSet(batch) /\ batch # << >>
  BY DEF IInv, Threaded, Position, Building
<1>2. /\ ToSet(newRoot.log) = {newRoot.log[i] : i \in 1 .. Len(newRoot.log)}
      /\ ToSet(root.log) = {root.log[i] : i \in 1 .. Len(root.log)}
      /\ Len(newRoot.log) \in Nat /\ Len(root.log) \in Nat
      /\ DOMAIN newRoot.log = 1 .. Len(newRoot.log)
  BY TreesTyped, Members
<1>3. PICK r \in ToSet(newRoot.log) : r \in ToSet(batch) /\ r \notin ToSet(root.log)
  <2>1. batch[1] \in ToSet(batch)
    BY <1>1, Queues
  <2> QED
    BY <2>1, <1>1
<1>4. Len(root.log) < Len(newRoot.log)
  BY <1>1, <1>2, <1>3 DEF Extends
<1>5. newRoot.log # << >> /\ newRoot.log[Len(newRoot.log)] \notin ToSet(root.log)
  <2>1. \A k \in 1 .. Len(root.log) :
          k \in DOMAIN newRoot.log /\ root.log[k] = newRoot.log[k] /\ k # Len(newRoot.log)
    BY <1>1, <1>2, <1>4 DEF Extends
  <2>2. Len(newRoot.log) \in DOMAIN newRoot.log /\ newRoot.log # << >>
    BY <1>2, <1>4, TreesTyped, Members
  <2>3. \A k \in 1 .. Len(root.log) : newRoot.log[Len(newRoot.log)] # root.log[k]
    BY <1>1, <2>1, <2>2 DEF IsInjective
  <2> QED
    BY <1>2, <2>2, <2>3
<1>6. Last(newRoot.log) = newRoot.log[Len(newRoot.log)]
  BY DEF Last
<1>7. Last(newRoot.log) \in ToSet(newRoot.log)
  BY <1>2, <1>4, <1>6
<1> QED
  BY <1>1, <1>3, <1>5, <1>6, <1>7

(* The new tree comes into use, and what a failed flush has left behind is *)
(* published.                                                              *)
LEMMA MasterStep ==
  ASSUME IInv, HandleMasterPage
  PROVE  IInv'
<1>1. /\ pc = "master" /\ pc' = "msync" /\ root' = newRoot
      /\ UNCHANGED <<phase, errChan, queue, flush, master, full>>
  BY DEF HandleMasterPage
<1>2. UNCHANGED <<batch, jobChan, newRoot, flushErr>> /\ Building /\ ~Building'
  BY <1>1 DEF queue, flush, Building
<1>3. /\ stray' \subseteq {"kept", "published"} /\ "kept" \notin stray'
      /\ "published" \in stray => "published" \in stray'
      /\ "published" \in stray' => "published" \in stray \/ "kept" \in stray
  BY DEF HandleMasterPage, IInv, TypeOK
<1>4. Unanswered = ToSet(batch) /\ Unanswered' = ToSet(batch) /\ EachAnsweredOnce'
  BY <1>1, SilentSteps
<1>5. TypeOK'
  BY <1>1, <1>3 DEF IInv, TypeOK, queue, flush
<1>6. /\ Extends(root.log, newRoot.log) /\ IsInjective(newRoot.log)
      /\ ToSet(newRoot.log) \subseteq ToSet(root.log) \cup ToSet(batch)
      /\ newRoot.whole => ToSet(batch) \subseteq ToSet(newRoot.log)
  BY <1>1, <1>2 DEF IInv, Threaded
<1>7. ToSet(root.log) \subseteq ToSet(newRoot.log)
  BY <1>6, TreesTyped, Continued
<1>8. Committed'
  <2>1. Extends(master.log, newRoot.log)
    BY <1>6, TreesTyped, Continued DEF IInv, Committed
  <2> QED
    BY <1>1, <1>2, <1>6, <2>1 DEF IInv, Committed, EachAnsweredOnce
<1>9. Position' /\ Threaded' /\ Settled'
  BY <1>1, <1>2, <1>6 DEF IInv, Position, Threaded, Settled
<1>10. Acked'
  BY <1>1, <1>2, <1>7 DEF IInv, Acked
<1>11. ASSUME Excused PROVE Excused'
  BY <1>1, <1>6, <1>11, TreesTyped DEF Excused, LateDelete, Extends
<1>12. Spoiling'
  <2>1. LateDelete(newRoot) => Excused'
    BY <1>1 DEF Excused, LateDelete
  <2>2. /\ "kept" \in stray => Excused \/ LateDelete(newRoot)
        /\ "published" \in stray => Excused
        /\ ~newRoot.whole => Excused
    BY <1>1, <1>2 DEF IInv, Spoiling
  <2> QED
    BY <1>1, <1>2, <1>3, <1>11, <2>1, <2>2 DEF Spoiling
<1>13. Undamaged' => Undamaged /\ newRoot.whole
  BY <1>1, <1>2, <1>3 DEF Undamaged, IInv, Spoiling
<1>14. Durable'
  BY <1>1, <1>13 DEF IInv, Durable, Undamaged
<1>15. newRoot.whole => /\ newRoot.log # << >> /\ Last(newRoot.log) \in ToSet(batch)
                        /\ Last(newRoot.log) = newRoot.log[Len(newRoot.log)]
  BY <1>1, LastOfBatch
<1>16. Lagging'
  BY <1>1, <1>2, <1>13, <1>15 DEF Lagging
<1>17. ASSUME NEW i \in Nat \ {0}, Warned(i) PROVE Warned(i)'
  BY <1>1, <1>2, <1>4, <1>6, <1>17, TreesTyped, WarnedKept
<1>18. UnforcedIsReported'
  <2> SUFFICES ASSUME Sync, Undamaged', NEW i \in 1 .. Len(master.log)
               PROVE  (master.whole /\ master.log[i] \in master.forced) \/ Warned(i)'
    BY <1>1, TreesTyped DEF UnforcedIsReported
  <2>1. (master.whole /\ master.log[i] \in master.forced) \/ Warned(i)
    BY <1>13, TreesTyped DEF IInv, UnforcedIsReported
  <2> QED
    BY <2>1, <1>17
<1>19. Reported'
  <2> SUFFICES ASSUME Sync, Undamaged', NEW i \in 1 .. Len(newRoot.log)
               PROVE  newRoot.log[i] \in newRoot.forced \/ Warned(i)'
    BY <1>1 DEF Reported
  <2>1. Undamaged /\ newRoot.whole
    BY <1>13
  <2>2. CASE flushErr = "nil"
    <3>1. newRoot.log[i] \in newRoot.forced \/ Warned(i)
      BY <1>1, <2>1, <2>2 DEF IInv, Reported
    <3> QED
      BY <3>1, <1>17
  <2>3. CASE flushErr = "unforced"
    <3>1. Len(newRoot.log) \in i .. Len(newRoot.log)
      BY TreesTyped
    <3> QED
      BY <1>1, <1>2, <1>4, <1>15, <2>1, <2>3, <3>1 DEF Warned
  <2>4. flushErr \in {"nil", "unforced"}
    BY <1>1 DEF IInv, Position, TypeOK, Outcomes
  <2> QED
    BY <2>2, <2>3, <2>4
<1> QED
  BY <1>4, <1>5, <1>8, <1>9, <1>10, <1>12, <1>14, <1>16, <1>18, <1>19 DEF IInv

(* Barrier 2: the disk's master page names the new tree, or the batch is   *)
(* warned.                                                                 *)
LEMMA MsyncStep ==
  ASSUME IInv, Msync
  PROVE  IInv'
<1>1. /\ pc = "msync" /\ pc' = "notify" /\ at' = 0
      /\ UNCHANGED <<phase, errChan, queue, newRoot, root, spoil>>
      /\ \/ master' = root /\ flushErr' = flushErr
         \/ "msync" \in Faults /\ master' = master /\ flushErr' = "unforced"
  BY DEF Msync
<1>2. UNCHANGED <<batch, jobChan, stray, full>> /\ ~Building /\ ~Building'
  BY <1>1 DEF queue, spoil, Building
<1>3. flushErr \in {"nil", "unforced"} /\ batch # << >>
  BY <1>1 DEF IInv, Position, TypeOK, Outcomes
<1>4. Unanswered = ToSet(batch) /\ Unanswered' = ToSet(batch) /\ EachAnsweredOnce'
  BY <1>1, SilentSteps
<1>5. TypeOK'
  BY <1>1 DEF IInv, TypeOK, Outcomes, queue, spoil
<1>6. Committed'
  BY <1>1, <1>2, TreesTyped, Continued DEF IInv, Committed, Extends
<1>7. Position' /\ Threaded'
  BY <1>1, <1>2, <1>3, Queues DEF Position, Threaded
<1>8. Settled'
  BY <1>1, <1>2, <1>3 DEF IInv, Settled
<1>9. Acked'
  BY <1>1, <1>2 DEF IInv, Acked
<1>10. Spoiling'
  BY <1>1, <1>2 DEF IInv, Spoiling, Excused
<1>11. Undamaged' = Undamaged
  BY <1>1, <1>2 DEF Undamaged
<1>12. Durable'
  BY <1>1 DEF IInv, Durable
<1>13. ASSUME NEW i \in Nat \ {0}, Warned(i) PROVE Warned(i)'
  <2>1. Extends(root.log, root'.log) /\ root'.log \in Seq(Request)
    BY <1>1, TreesTyped DEF Extends
  <2> QED
    BY <1>1, <1>3, <1>4, <1>13, <2>1, WarnedKept
<1>14. Undamaged => root.log # << >> /\ Last(root.log) \in ToSet(batch)
  BY <1>1 DEF IInv, Lagging
<1>15. ASSUME Undamaged, flushErr' = "unforced", NEW i \in 0 .. Len(root.log)
       PROVE  Warned(i)'
  <2>1. Len(root.log) \in i .. Len(root.log) /\ Last(root.log) = root.log[Len(root.log)]
    BY <1>15, TreesTyped DEF Last
  <2> QED
    BY <1>1, <1>4, <1>14, <1>15, <2>1 DEF Warned
<1>16. Lagging'
  <2> SUFFICES ASSUME Undamaged, master' # root
               PROVE  root.log # << >> /\ Warned(Len(root.log))'
    BY <1>1, <1>11 DEF Lagging
  <2>1. flushErr' = "unforced" /\ Len(root.log) \in 0 .. Len(root.log)
    BY <1>1, TreesTyped
  <2> QED
    BY <1>1, <2>1, <1>14, <1>15 DEF Warned
<1>17. Reported'
  <2> SUFFICES ASSUME Sync, Undamaged, NEW i \in 1 .. Len(root.log)
               PROVE  root.log[i] \in root.forced \/ Warned(i)'
    BY <1>1, <1>11 DEF Reported
  <2> QED
    BY <1>13, TreesTyped DEF IInv, Reported
<1>18. UnforcedIsReported'
  <2> SUFFICES ASSUME Sync, Undamaged, NEW i \in 1 .. Len(master'.log)
               PROVE  (master'.whole /\ master'.log[i] \in master'.forced) \/ Warned(i)'
    BY <1>1, <1>5, <1>11, TreeFields, Members DEF UnforcedIsReported, TypeOK
  <2>1. CASE master' = root
    BY <1>17, <1>1, <1>11, <2>1 DEF Reported, Undamaged
  <2>2. CASE master' = master /\ flushErr' = "unforced"
    <3>1. i \in 0 .. Len(root.log)
      BY <2>2, TreesTyped DEF IInv, Committed, Extends
    <3> QED
      BY <3>1, <2>2, <1>15
  <2> QED
    BY <1>1, <2>1, <2>2
<1> QED
  BY <1>4, <1>5, <1>6, <1>7, <1>8, <1>9, <1>10, <1>12, <1>16, <1>17, <1>18 DEF IInv

(* The kernel puts the master page on the disk.                            *)
LEMMA WriteBackStep ==
  ASSUME IInv, WriteBack
  PROVE  IInv'
<1>1. /\ master' = root
      /\ UNCHANGED <<phase, errChan, jobChan, batch, tick, pc, at, newRoot, flushErr>>
      /\ UNCHANGED <<root, stray, full>>
  BY DEF WriteBack, queue, flush, spoil
<1>2. Unanswered' = Unanswered /\ Building' = Building
  BY <1>1 DEF Unanswered, Building
<1>3. TypeOK' /\ EachAnsweredOnce' /\ Position'
  BY <1>1, <1>2 DEF IInv, TypeOK, EachAnsweredOnce, Position
<1>4. Committed'
  BY <1>1, TreesTyped DEF IInv, Committed, Extends
<1>5. Threaded' /\ Settled' /\ Acked'
  BY <1>1, <1>2 DEF IInv, Threaded, Settled, Acked
<1>6. Spoiling'
  BY <1>1, <1>2 DEF IInv, Spoiling, Excused
<1>7. Undamaged' = Undamaged /\ \A i : Warned(i)' = Warned(i)
  BY <1>1, <1>2 DEF Undamaged, Warned
<1>8. Durable'
  BY <1>1, <1>7 DEF IInv, Durable, Undamaged
<1>9. Lagging' /\ Reported'
  BY <1>1, <1>7 DEF IInv, Lagging, Reported
<1>10. UnforcedIsReported'
  BY <1>1, <1>7, TreesTyped, Members DEF IInv, Reported, UnforcedIsReported, Undamaged
<1> QED
  BY <1>3, <1>4, <1>5, <1>6, <1>8, <1>9, <1>10 DEF IInv

(* The next of the batch gets the shared outcome; with the last of them    *)
(* the loop goes back to waiting.                                          *)
LEMMA NotifyStep ==
  ASSUME IInv, Notify
  PROVE  IInv'
<1> DEFINE r == batch[at + 1]
<1>1. /\ pc = "notify" /\ errChan' = [errChan EXCEPT ![r] = flushErr]
      /\ UNCHANGED <<phase, jobChan, root, master, stray, full>>
  BY DEF Notify, disk, spoil
<1>2. /\ at \in Nat /\ at + 1 \in 1 .. Len(batch) /\ Len(batch) \in Nat /\ batch \in Seq(Request)
      /\ ToSet(batch) = {batch[i] : i \in 1 .. Len(batch)}
      /\ r \in ToSet(batch) /\ r \in Request
  BY <1>1, Queues DEF IInv, Position
<1>3. \/ /\ at + 1 < Len(batch) /\ at' = at + 1
         /\ UNCHANGED <<pc, batch, tick, newRoot, flushErr>>
      \/ /\ pc' = "select" /\ batch' = << >> /\ tick' = FALSE
         /\ at' = 0 /\ newRoot' = Empty /\ flushErr' = "nil" /\ at + 1 = Len(batch)
  BY <1>1, <1>2 DEF Notify, EndFlush
<1>4. << >> \in Seq(Request) /\ ToSet(<< >>) = {} /\ IsInjective(<< >>) /\ Len(<< >>) = 0
  BY EmptyList, ToSetIsRange
<1>5. flushErr \in Outcomes /\ errChan \in [Request -> {"none"} \cup Outcomes]
  BY DEF IInv, TypeOK
<1>6. Unanswered = {batch[i] : i \in at + 1 .. Len(batch)} /\ r \in Unanswered
  BY <1>1, <1>2 DEF Unanswered
<1>7. Unanswered' = Unanswered \ {r}
  <2>1. \A i, j \in 1 .. Len(batch) : batch[i] = batch[j] => i = j
    BY <1>2 DEF IInv, EachAnsweredOnce, IsInjective
  <2>2. CASE at + 1 < Len(batch) /\ at' = at + 1 /\ UNCHANGED <<pc, batch>>
    <3>1. Unanswered' = {batch[i] : i \in at + 2 .. Len(batch)}
      BY <2>2, <1>1, <1>2 DEF Unanswered
    <3> QED
      BY <3>1, <2>1, <1>2, <1>6
  <2>3. CASE pc' = "select" /\ batch' = << >> /\ at + 1 = Len(batch)
    <3>1. Unanswered' = {}
      BY <2>3, <1>4 DEF Unanswered
    <3>2. Unanswered = {r}
      BY <2>3, <1>2, <1>6
    <3> QED
      BY <3>1, <3>2
  <2> QED
    BY <2>2, <2>3, <1>3
<1>8. errChan[r] = "none" /\ phase[r] = "waiting"
  BY <1>1, <1>2, <1>6 DEF IInv, EachAnsweredOnce
<1>9. \A q \in Request : errChan'[q] = IF q = r THEN flushErr ELSE errChan[q]
  BY <1>1, <1>2, <1>5
<1>10. TypeOK'
  <2>1. errChan' \in [Request -> {"none"} \cup Outcomes]
    BY <1>1, <1>2, <1>5
  <2>2. Empty \in Trees
    BY <1>4 DEF Empty, Trees
  <2>3. tick' \in BOOLEAN
    BY <1>3, Zenon DEF IInv, TypeOK
  <2>4. pc' \in {pc, "select"} /\ at' \in Nat /\ flushErr' \in Outcomes /\ newRoot' \in Trees
    BY <1>2, <1>3, <1>5, <2>2, TreesTyped DEF Outcomes
  <2>5. batch' \in Seq(Request)
    BY <1>2, <1>3, <1>4
  <2>6. pc' \in {"select", "apply", "fsync", "master", "msync", "notify", "broken"}
    BY <1>1, <2>4
  <2> QED
    BY <1>1, <2>1, <2>3, <2>4, <2>5, <2>6 DEF IInv, TypeOK
<1>11. IsInjective(batch') /\ ToSet(batch') \subseteq ToSet(batch)
  BY <1>3, <1>4 DEF IInv, EachAnsweredOnce
<1>12. EachAnsweredOnce'
  <2>1. IsInjective(jobChan') /\ ToSet(jobChan') \cap ToSet(batch') = {}
    BY <1>1, <1>11 DEF IInv, EachAnsweredOnce
  <2>2. flushErr # "none"
    BY <1>5 DEF Outcomes
  <2>3. ToSet(jobChan) \cap ToSet(batch) = {}
    BY DEF IInv, EachAnsweredOnce
  <2>4. ASSUME NEW q \in Request
        PROVE  q \in ToSet(jobChan') \cup Unanswered'
                 <=> phase'[q] = "waiting" /\ errChan'[q] = "none"
    <3>1. CASE q = r
      BY <1>1, <1>2, <1>7, <1>9, <2>2, <2>3, <3>1
    <3>2. CASE q # r
      BY <1>1, <1>7, <1>9, <3>2 DEF IInv, EachAnsweredOnce
    <3> QED
      BY <3>1, <3>2
  <2> QED
    BY <1>11, <2>1, <2>4 DEF EachAnsweredOnce
<1>13. Committed'
  BY <1>1, <1>8, <1>9, <1>11 DEF IInv, Committed
<1>14. /\ pc' \in {"notify", "select"} /\ ~Building /\ ~Building'
       /\ pc' = "select" => batch' = << >> /\ flushErr' = "nil"
       /\ pc' = "notify" => /\ at' < Len(batch') /\ batch' = batch /\ flushErr' = flushErr
                            /\ batch' # << >>
  BY <1>1, <1>2, <1>3, Queues DEF Building
<1>15. Position' /\ Threaded'
  BY <1>4, <1>14 DEF Position, Threaded
<1>16. Settled'
  BY <1>1, <1>14 DEF IInv, Settled
<1>17. Acked'
  <2> SUFFICES ASSUME root.whole, NEW q \in Request, errChan'[q] = "nil"
               PROVE  q \in ToSet(root.log) /\ q \in ToSet(master.log)
    BY <1>1, <1>14 DEF Acked
  <2>1. CASE q = r
    <3>1. flushErr = "nil"
      BY <1>9, <2>1
    <3> QED
      BY <1>1, <1>2, <2>1, <3>1 DEF IInv, Settled
  <2>2. CASE q # r
    BY <1>9, <2>2 DEF IInv, Acked
  <2> QED
    BY <2>1, <2>2
<1>18. Spoiling'
  <2>1. ASSUME Excused PROVE Excused'
    BY <1>1, <1>8, <1>9, <2>1 DEF Excused, LateDelete
  <2>2. flushErr = "refused" => Excused'
    BY <1>2, <1>9 DEF Excused
  <2>3. "kept" \in stray => Excused \/ flushErr = "refused"
    BY <1>1, <1>14 DEF IInv, Spoiling
  <2>4. ("published" \in stray => Excused) /\ (~root.whole => Excused)
    BY DEF IInv, Spoiling
  <2> QED
    BY <1>1, <1>14, <2>1, <2>2, <2>3, <2>4 DEF Spoiling
<1>19. Undamaged' = Undamaged
  BY <1>1 DEF Undamaged
<1>20. Durable'
  BY <1>1, <1>14 DEF IInv, Durable
<1>21. ASSUME NEW i \in Nat \ {0}, Warned(i) PROVE Warned(i)'
  <2>1. Extends(root.log, root'.log) /\ root'.log \in Seq(Request)
    BY <1>1, TreesTyped DEF Extends
  <2>2. \A q \in Request : errChan[q] = "unforced" => errChan'[q] = "unforced"
    BY <1>8, <1>9
  <2>3. ASSUME flushErr = "unforced", NEW q \in Unanswered
        PROVE  errChan'[q] = "unforced" \/ (q \in Unanswered' /\ flushErr' = "unforced")
    <3>1. CASE q = r
      BY <1>2, <1>9, <2>3, <3>1
    <3>2. CASE q # r
      <4>1. q \in Unanswered'
        BY <1>7, <2>3, <3>2
      <4>2. Unanswered' = {} \/ flushErr' = flushErr
        BY <1>3, <1>4 DEF Unanswered
      <4> QED
        BY <2>3, <4>1, <4>2
    <3> QED
      BY <3>1, <3>2
  <2> QED
    BY <1>21, <2>1, <2>2, <2>3, WarnedKept
<1>22. Lagging'
  <2> SUFFICES ASSUME Undamaged, master # root
               PROVE  root.log # << >> /\ Warned(Len(root.log))'
    BY <1>1, <1>14, <1>19 DEF Lagging
  <2>1. root.log # << >> /\ Warned(Len(root.log))
    BY <1>1 DEF IInv, Lagging
  <2>2. Len(root.log) \in Nat \ {0}
    BY <2>1, TreesTyped
  <2>3. Len(root'.log) = Len(root.log)
    BY <1>1
  <2> QED
    BY <1>21, <2>1, <2>2, <2>3 DEF Warned
<1>23. Reported'
  <2> SUFFICES ASSUME Sync, Undamaged, NEW i \in 1 .. Len(root.log)
               PROVE  root.log[i] \in root.forced \/ Warned(i)'
    BY <1>1, <1>14, <1>19 DEF Reported
  <2> QED
    BY <1>21, TreesTyped DEF IInv, Reported
<1>24. UnforcedIsReported'
  <2> SUFFICES ASSUME Sync, Undamaged, NEW i \in 1 .. Len(master.log)
               PROVE  (master.whole /\ master.log[i] \in master.forced) \/ Warned(i)'
    BY <1>1, <1>19, TreesTyped DEF UnforcedIsReported
  <2> QED
    BY <1>21, TreesTyped DEF IInv, UnforcedIsReported
<1> QED
  BY <1>10, <1>12, <1>13, <1>15, <1>16, <1>17, <1>18, <1>20, <1>22, <1>23, <1>24 DEF IInv

(* The process ends where the loop applies a request, where it writes the  *)
(* master page, or anywhere once the tree has lost a page.                 *)
LEMMA PanicStep ==
  ASSUME IInv, Panic
  PROVE  IInv'
<1>1. pc' = "broken" /\ pc # "broken" /\ UNCHANGED <<phase, errChan, queue, flush, spoil>>
  BY DEF Panic
<1>2. /\ UNCHANGED <<jobChan, batch, tick, at, newRoot, flushErr, stray, full>>
      /\ ~Building'
  BY <1>1 DEF queue, flush, spoil, Building
<1>3. CASE pc = "apply" /\ Allocates
  <2>1. Allocating
    BY <1>1, <1>2, <1>3 DEF Allocating
  <2>2. /\ EachAnsweredOnce' /\ Committed' /\ UnforcedIsReported'
        /\ Sync /\ Undamaged' =>
             \A i \in 1 .. Len(root'.log) : root'.log[i] \in root'.forced \/ Warned(i)'
    BY <2>1, ApplyKeepsTree
  <2>3. /\ root' \in Trees /\ root'.log = root.log /\ root'.forced = root.forced
        /\ root'.whole => root.whole
        /\ "published" \notin stray => root' = root
        /\ master' \in Trees /\ master'.log = master.log
        /\ master = root => master' = root'
        /\ Excused => Excused'
    BY <2>1, ApplyFrame
  <2>4. TypeOK'
    BY <1>1, <1>2, <2>3 DEF IInv, TypeOK
  <2>5. Position' /\ Threaded' /\ Settled' /\ Lagging'
    BY <1>1, <1>2 DEF IInv, Position, Threaded, Settled, Lagging
  <2>6. Acked'
    BY <1>1, <1>2, <2>3 DEF IInv, Acked
  <2>7. Spoiling'
    <3>1. ("published" \in stray => Excused) /\ (~root.whole => Excused)
      BY DEF IInv, Spoiling
    <3> QED
      BY <1>1, <1>2, <2>3, <3>1 DEF Spoiling
  <2>8. Durable'
    BY <1>1, <1>3, <2>3 DEF IInv, Durable
  <2>9. Reported'
    BY <1>1, <2>2 DEF Reported
  <2> QED
    BY <2>2, <2>4, <2>5, <2>6, <2>7, <2>8, <2>9 DEF IInv
<1>4. CASE (pc = "master" \/ ~root.whole) /\ UNCHANGED disk
  <2>1. UNCHANGED <<root, master>>
    BY <1>4 DEF disk
  <2>2. TypeOK' /\ Committed'
    BY <1>1, <1>2, <2>1 DEF IInv, TypeOK, Committed
  <2>3. EachAnsweredOnce'
    BY <1>1, <1>2 DEF IInv, EachAnsweredOnce
  <2>4. Position' /\ Threaded' /\ Settled' /\ Lagging'
    BY <1>1, <1>2 DEF IInv, Position, Threaded, Settled, Lagging
  <2>5. Acked'
    BY <1>1, <1>2, <2>1 DEF IInv, Acked
  <2>6. Spoiling'
    BY <1>1, <1>2, <2>1 DEF IInv, Spoiling, Excused
  <2>7. Undamaged' = Undamaged /\ (Undamaged => root.whole /\ pc = "master")
    BY <1>2, <1>4, <2>1 DEF Undamaged
  <2>8. Durable'
    BY <1>1, <1>4, <2>1 DEF IInv, Durable
  <2>9. ASSUME Undamaged, NEW i, Warned(i) PROVE Warned(i)'
    <3>1. Unanswered' = Unanswered
      BY <1>1, <1>2, <2>7, <2>9 DEF Unanswered
    <3> QED
      BY <1>1, <1>2, <2>1, <2>9, <3>1 DEF Warned
  <2>10. UnforcedIsReported' /\ Reported'
    BY <1>1, <2>1, <2>7, <2>9 DEF IInv, UnforcedIsReported, Reported
  <2> QED
    BY <2>2, <2>3, <2>4, <2>5, <2>6, <2>8, <2>10 DEF IInv
<1> QED
  BY <1>3, <1>4 DEF Panic

(* The invariant is inductive.                                             *)
LEMMA NextInv == IInv /\ [Next]_vars => IInv'
<1> SUFFICES ASSUME IInv, [Next]_vars PROVE IInv'
  OBVIOUS
<1>1. ASSUME NEW r \in Request, Call(r) \/ Send(r) \/ Return(r) PROVE IInv'
  BY <1>1, CallStep, SendStep, ReturnStep
<1>2. CASE Receive \/ TickArrives \/ OnTick
  BY <1>2, ReceiveStep, TickStep
<1>3. CASE Flush
  BY <1>3, ApplyStep, FsyncStep, MasterStep, MsyncStep, NotifyStep DEF Flush
<1>4. CASE WriteBack \/ Panic
  BY <1>4, WriteBackStep, PanicStep
<1>5. CASE UNCHANGED vars
  <2>1. /\ UNCHANGED <<errChan, batch, pc, flush, disk, spoil>>
        /\ UNCHANGED <<phase, jobChan, tick>>
    BY <1>5 DEF vars, queue
  <2>2. /\ Unanswered' = Unanswered
        /\ Position' /\ Threaded' /\ Settled' /\ Acked' /\ Spoiling' /\ Durable' /\ Lagging'
        /\ UnforcedIsReported' /\ Reported'
    BY <2>1, OutsideKept
  <2>3. TypeOK' /\ EachAnsweredOnce' /\ Committed'
    BY <2>1, <2>2 DEF IInv, TypeOK, EachAnsweredOnce, Committed, flush, disk, spoil
  <2> QED
    BY <2>2, <2>3 DEF IInv
<1> QED
  BY <1>1, <1>2, <1>3, <1>4, <1>5 DEF Next, Stopped

(* What all the promises of the engine rest on.                            *)
LEMMA EngineInductive == Spec => []IInv
  BY InitInv, NextInv, PTL DEF Spec

(* The engine's state stays within its types, whatever fails.              *)
THEOREM EngineTypeCorrect == Spec => []TypeOK
<1>1. IInv => TypeOK
  BY DEF IInv
<1> QED
  BY <1>1, EngineInductive, PTL

(* Every blocked caller is in one place from which it will be answered,    *)
(* and none is answered twice: batchCommitLoop never blocks on an errChan. *)
THEOREM CallersAnsweredOnce == Spec => []EachAnsweredOnce
<1>1. IInv => EachAnsweredOnce
  BY DEF IInv
<1> QED
  BY <1>1, EngineInductive, PTL

(* As long as no page of the tree has been given away, nil from Insert or  *)
(* Delete means that the request is in the tree in use and in the one the  *)
(* disk's master page names, whatever requests, pages and barriers fail.   *)
THEOREM NilMeansCommitted == Spec => []AckedIsCommitted
<1>1. IInv => AckedIsCommitted
  BY DEF IInv, Acked, AckedIsCommitted
<1> QED
  BY <1>1, EngineInductive, PTL

(* As long as the tree is undamaged, a request that a crash may undo, its  *)
(* pair or that of a page copied for a later one missing on the disk, is   *)
(* one whose caller, or one after it, has the error of a barrier or is in  *)
(* the batch that is being answered with it.                               *)
THEOREM LossIsReported == Spec => []UnforcedIsReported
<1>1. IInv => UnforcedIsReported
  BY DEF IInv
<1> QED
  BY <1>1, EngineInductive, PTL

(* As long as no barrier fails and the tree is undamaged, the master page  *)
(* on the disk names a root whose pages are on the disk, also when the     *)
(* kernel writes it back early.  The run of FindEngineFsync shows why the  *)
(* assumption on fsync is needed.                                          *)
THEOREM CrashFindsWholeTree ==
  ASSUME "fsync" \notin Faults, "msync" \notin Faults
  PROVE  Spec => []CrashConsistent
<1>1. IInv => CrashConsistent
  <2> SUFFICES ASSUME IInv, Sync, Undamaged
               PROVE  master.whole /\ ToSet(master.log) \subseteq master.forced
    BY DEF CrashConsistent
  <2>1. CASE pc = "msync"
    BY <2>1 DEF IInv, Durable
  <2>2. CASE pc # "msync"
    BY <2>2 DEF IInv, Durable, Undamaged
  <2> QED
    BY <2>1, <2>2
<1> QED
  BY <1>1, EngineInductive, PTL

-----------------------------------------------------------------------------
(* When no request fails and no insert lacks space, and a batch has one    *)
(* request or no Delete, nothing is ever free though in use.               *)
Tidy ==
  /\ stray = {} /\ ~full
  /\ root.whole /\ (Building => newRoot.whole)
  /\ Len(batch) <= BatchMax /\ (pc = "select" => Len(batch) < BatchMax)

(* What an engine does that meets no such request keeps its tree tidy.     *)
LEMMA TidyStep ==
  ASSUME Faults \cap {"request", "space"} = {}, Deletes = {} \/ BatchMax = 1,
         IInv, Tidy, [Next]_vars
  PROVE  Tidy'
<1>1. "published" \notin stray /\ "kept" \notin stray /\ BatchMax \in Nat \ {0}
  BY EngineAssumption DEF Tidy
<1>2. ASSUME UNCHANGED <<newRoot, root, spoil, batch>>,
             pc' = pc \/ pc' \in {"msync", "notify", "broken"} \/ (pc = "fsync" /\ pc' = "master")
      PROVE  Tidy'
  BY <1>2 DEF Tidy, Building, spoil
<1>3. CASE Receive
  <2>1. batch' = Append(batch, Head(jobChan)) /\ pc = "select" /\ UNCHANGED <<root, spoil>>
    BY <1>3 DEF Receive, disk
  <2>2. Len(batch') = Len(batch) + 1 /\ Len(batch) \in Nat
    BY <2>1, Queues
  <2>3. \/ Len(batch') >= BatchMax /\ pc' = "apply" /\ newRoot' = root
        \/ ~(Len(batch') >= BatchMax) /\ UNCHANGED <<pc, newRoot>>
    BY <1>3 DEF Receive, BeginFlush, flush
  <2>4. Len(batch') <= BatchMax /\ (pc' = "select" => Len(batch') < BatchMax)
    BY <1>1, <2>1, <2>2, <2>3 DEF Tidy
  <2> QED
    BY <2>1, <2>3, <2>4 DEF Tidy, Building, spoil
<1>4. CASE OnTick
  <2>1. UNCHANGED <<batch, root, stray, full>> /\ pc = "select"
    BY <1>4 DEF OnTick, disk, spoil
  <2>2. \/ pc' = "apply" /\ newRoot' = root
        \/ UNCHANGED <<pc, newRoot>>
    BY <1>4 DEF OnTick, BeginFlush, flush
  <2> QED
    BY <2>1, <2>2, Queues DEF Tidy, Building
<1>5. CASE Apply
  <2>1. /\ pc = "apply" /\ UNCHANGED batch /\ root' = root /\ at + 1 \in 1 .. Len(batch)
        /\ at \in Nat /\ Len(batch) \in Nat
    BY <1>1, <1>5, ApplyAllocates, ApplyFrame, Queues DEF queue
  <2>2. Applied
    BY <1>5 DEF Apply, ApplyAllOr, Swallowed, Refused
  <2>3. ~(current \in Deletes /\ at > 0)
    BY <1>1, <2>1 DEF Tidy
  <2>4. UNCHANGED <<stray, full>> /\ pc' \in {"apply", "fsync"}
    BY <2>2, <2>3 DEF Applied, NextOfBatch
  <2>5. newRoot' = [newRoot EXCEPT !.log = Append(@, current)]
    BY <1>1, <2>2 DEF Applied, MayLose
  <2>6. newRoot'.whole
    BY <2>1, <2>5, TreesTyped DEF Tidy, Building, Trees
  <2> QED
    BY <2>1, <2>4, <2>6 DEF Tidy
<1>6. CASE Fsync
  <2>1. /\ pc = "fsync" /\ pc' = "master" /\ UNCHANGED <<batch, root, stray, full>>
        /\ newRoot'.whole = newRoot.whole
    BY <1>6, TreesTyped DEF Fsync, queue, disk, spoil, Trees
  <2> QED
    BY <2>1 DEF Tidy, Building
<1>7. CASE HandleMasterPage
  <2>1. /\ pc = "master" /\ pc' = "msync" /\ root' = newRoot /\ UNCHANGED <<batch, full>>
        /\ stray' = {}
    BY <1>1, <1>7 DEF HandleMasterPage, queue, Tidy
  <2> QED
    BY <2>1 DEF Tidy, Building
<1>8. CASE Notify
  <2>1. \/ pc = "notify" /\ UNCHANGED <<pc, batch, newRoot, root, spoil>>
        \/ pc' = "select" /\ batch' = << >> /\ UNCHANGED <<root, stray, full>>
    BY <1>8 DEF Notify, EndFlush, disk, spoil
  <2>2. CASE pc' = "select" /\ batch' = << >> /\ UNCHANGED <<root, stray, full>>
    <3>1. Len(batch') = 0
      BY <2>2, EmptyList
    <3> QED
      BY <1>1, <2>2, <3>1 DEF Tidy, Building
  <2> QED
    BY <1>2, <2>1, <2>2
<1>9. CASE Panic
  <2>1. pc = "apply" /\ Allocates => root' = root
    BY <1>1, AllocatesTrees DEF IInv
  <2> QED
    BY <1>2, <1>9, <2>1 DEF Panic, disk, queue, flush
<1>10. CASE Msync \/ TickArrives \/ WriteBack \/ UNCHANGED vars \/ Stopped
  BY <1>2, <1>10 DEF Msync, TickArrives, WriteBack, Stopped, vars, queue, flush, disk
<1>11. CASE \E r \in Request : Call(r) \/ Send(r) \/ Return(r)
  BY <1>2, <1>11 DEF Call, Send, Return, queue, flush, disk
<1> QED
  BY <1>3, <1>4, <1>5, <1>6, <1>7, <1>8, <1>9, <1>10, <1>11 DEF Next, Flush

(* When no request fails and no insert lacks space, and a batch has one    *)
(* request or no Delete, no page of the tree is ever given away, whatever  *)
(* barriers fail.                                                          *)
THEOREM TreeKept ==
  ASSUME Faults \cap {"request", "space"} = {}, Deletes = {} \/ BatchMax = 1
  PROVE  Spec => []root.whole
<1>1. Init => Tidy
  <2>1. Empty.whole /\ Len(<< >>) = 0
    BY EmptyList DEF Empty
  <2> QED
    BY <2>1, EngineAssumption DEF Init, Tidy, Building
<1>2. IInv /\ Tidy /\ [Next]_vars => Tidy'
  BY TidyStep
<1>3. Tidy => root.whole
  BY DEF Tidy
<1> QED
  BY <1>1, <1>2, <1>3, EngineInductive, PTL DEF Spec

(* Of such an engine nil means committed without a condition.              *)
Kept ==
  \A r \in Request : errChan[r] = "nil" => r \in ToSet(root.log) /\ r \in ToSet(master.log)

(* When no request fails and no insert lacks space, and a batch has one    *)
(* request or no Delete, nil from Insert or Delete means that the request  *)
(* is in the tree in use and in the one the disk's master page names.      *)
THEOREM NilIsKept ==
  ASSUME Faults \cap {"request", "space"} = {}, Deletes = {} \/ BatchMax = 1
  PROVE  Spec => []Kept
<1>1. AckedIsCommitted /\ root.whole => Kept
  BY DEF AckedIsCommitted, Kept
<1>2. Spec => []root.whole
  BY TreeKept
<1> QED
  BY <1>1, <1>2, NilMeansCommitted, PTL

-----------------------------------------------------------------------------
(* What an AtomicLog sees of the callers.                                  *)
Called == {r \in Request : phase[r] # "new"}
Told   == [r \in {q \in Request : errChan[q] # "none"} |-> errChan[r]]

(* The causes for which the log may be lost are those of the invariant.    *)
LEMMA SameExcuses ==
  ASSUME IInv, Excused
  PROVE  Log!Excused
<1>1. ASSUME NEW r \in Request, errChan[r] = "refused"
      PROVE  r \in DOMAIN Told /\ Told[r] = "refused"
  BY <1>1 DEF Told
<1>2. DOMAIN root.log = 1 .. Len(root.log)
  BY TreesTyped
<1> QED
  BY <1>1, <1>2 DEF Excused, LateDelete, Log!Excused, Told

(* A call of the engine is a call of the log.                              *)
LEMMA CallImplemented ==
  ASSUME TypeOK, NEW r \in Request, Call(r)
  PROVE  Log!Call
<1>1. r \notin Called /\ Called' = Called \cup {r} /\ UNCHANGED <<root, Told, full>>
  BY DEF TypeOK, Call, Called, Told, disk, spoil
<1> QED
  BY <1>1, Zenon DEF Log!Call, Called, Told

(* What costs the tree in use is excused.                                  *)
LEMMA SpoilImplemented ==
  ASSUME IInv, UNCHANGED <<phase, errChan>>, root'.log = root.log, full' \in {full, TRUE},
         ~root'.whole => ~root.whole \/ Excused
  PROVE  Log!Spoil
<1>1. UNCHANGED <<Called, Told>>
  BY DEF Called, Told
<1>2. (~root'.whole) \in BOOLEAN /\ (~root'.whole => ~root.whole \/ Log!Excused)
  BY SameExcuses
<1> QED
  BY <1>1, <1>2, Zenon DEF Log!Spoil, Log!MayBeLost, Called, Told

(* The change of the master page is the moment at which a batch takes      *)
(* effect in the log, unless all of it has been lost.                      *)
LEMMA TakeEffectImplemented ==
  ASSUME IInv, HandleMasterPage
  PROVE  Log!TakeEffect \/ Log!Spoil
<1>1. /\ pc = "master" /\ root' = newRoot /\ UNCHANGED <<phase, errChan, full, batch>>
  BY DEF HandleMasterPage, queue
<1>2. /\ Extends(root.log, newRoot.log) /\ IsInjective(newRoot.log)
      /\ ToSet(newRoot.log) \subseteq ToSet(root.log) \cup ToSet(batch)
      /\ ~newRoot.whole => Excused
  BY <1>1 DEF IInv, Threaded, Spoiling, Building
<1>3. CASE newRoot.log = root.log
  BY <1>1, <1>2, <1>3, SpoilImplemented
<1>4. CASE newRoot.log # root.log
  <2>1. IsStrictPrefix(root.log, newRoot.log)
    BY <1>2, <1>4, TreesTyped, ContinuedIsPrefix DEF IsStrictPrefix
  <2>2. UNCHANGED <<Called, Told>>
    BY <1>1 DEF Called, Told
  <2>3. ASSUME NEW r \in ToSet(newRoot.log) \ ToSet(root.log) PROVE r \in Called \ DOMAIN Told
    <3>1. r \in ToSet(batch) /\ r \in Unanswered /\ r \in Request
      BY <1>1, <1>2, <2>3, Queues
    <3>2. phase[r] = "waiting" /\ errChan[r] = "none"
      BY <1>1, <3>1 DEF IInv, EachAnsweredOnce
    <3> QED
      BY <3>1, <3>2 DEF Called, Told
  <2>4. Log!MayBeLost
    <3>1. (~root'.whole) \in BOOLEAN /\ (~root'.whole => ~root.whole \/ Log!Excused)
      BY <1>1, <1>2, SameExcuses
    <3> QED
      BY <3>1, Zenon DEF Log!MayBeLost
  <2>5. /\ Log!IsStrictPrefix(root.log, root'.log) /\ Log!IsInjective(root'.log)
        /\ Log!ToSet(root'.log) \ Log!ToSet(root.log) \subseteq Called \ DOMAIN Told
    BY <1>1, <1>2, <2>1, <2>3
       DEF Log!IsStrictPrefix, Log!IsPrefix, Log!IsInjective, Log!ToSet,
           IsStrictPrefix, IsPrefix, IsInjective, ToSet
  <2> QED
    BY <1>1, <2>2, <2>4, <2>5, Zenon DEF Log!TakeEffect, Log!Pending, Called, Told
<1> QED
  BY <1>3, <1>4

(* Allocation is invisible but for the pages it may cost.                  *)
LEMMA AllocatingImplemented ==
  ASSUME IInv, Allocating
  PROVE  Log!Spoil
<1>1. /\ UNCHANGED <<phase, errChan>> /\ root'.log = root.log
      /\ "published" \notin stray => root' = root
  BY ApplyFrame
<1>2. full' \in {full, TRUE}
  BY DEF Allocating
<1>3. "published" \in stray => Excused
  BY DEF IInv, Spoiling
<1> QED
  BY <1>1, <1>2, <1>3, SpoilImplemented

(* An answer of the engine is an answer of the log.                        *)
LEMMA ReplyImplemented ==
  ASSUME IInv, Notify
  PROVE  Log!Reply
<1> DEFINE r == batch[at + 1]
           answer == flushErr
<1>1. /\ UNCHANGED <<phase, root, full>> /\ pc = "notify"
      /\ errChan' = [errChan EXCEPT ![r] = answer]
  BY DEF Notify, disk, spoil
<1>2. at + 1 \in 1 .. Len(batch) /\ r \in ToSet(batch) /\ r \in Request
  BY <1>1, Queues DEF IInv, Position
<1>3. r \in Unanswered
  BY <1>1, <1>2, Queues DEF Unanswered
<1>4. phase[r] = "waiting" /\ errChan[r] = "none"
  BY <1>1, <1>2, <1>3 DEF IInv, EachAnsweredOnce
<1>5. answer \in IF ~root.whole THEN {"nil", "unforced", "refused"}
                 ELSE IF r \in ToSet(root.log) THEN {"nil", "unforced"} ELSE {"refused"}
  BY <1>1, <1>2 DEF IInv, TypeOK, Outcomes, Settled
<1>6. r \in Called \ DOMAIN Told
  BY <1>2, <1>4 DEF Called, Told
<1>7. Told' = [q \in DOMAIN Told \cup {r} |-> IF q = r THEN answer ELSE Told[q]]
  <2>1. answer # "none" /\ errChan \in [Request -> {"none"} \cup Outcomes]
    BY DEF IInv, TypeOK, Outcomes
  <2> HIDE DEF answer
  <2>2. errChan'[r] = answer /\ \A q \in Request \ {r} : errChan'[q] = errChan[q]
    BY <1>1, <1>2, <2>1
  <2>3. DOMAIN Told' = DOMAIN Told \cup {r}
    BY <1>2, <2>1, <2>2 DEF Told
  <2>4. \A q \in DOMAIN Told' : Told'[q] = IF q = r THEN answer ELSE Told[q]
    BY <1>2, <2>1, <2>2 DEF Told
  <2> QED
    BY <2>3, <2>4 DEF Told
<1>8. UNCHANGED <<root, Called, full>>
  BY <1>1 DEF Called
<1>9. answer \in Log!Answers(r)
  BY <1>5 DEF Log!Answers, Log!ToSet, ToSet
<1> HIDE DEF answer
<1> QED
  BY <1>6, <1>7, <1>8, <1>9, Zenon DEF Log!Reply, Log!Pending, Called, Told

(* Every step of the engine is a step of AtomicLog or none.                *)
LEMMA StepImplemented ==
  ASSUME IInv, [Next]_vars
  PROVE  [Log!Next]_(Log!vars)
<1>1. CASE \E r \in Request : Call(r)
  BY <1>1, CallImplemented DEF Log!Next, IInv
<1>2. CASE HandleMasterPage
  BY <1>2, TakeEffectImplemented DEF Log!Next
<1>3. CASE Notify
  BY <1>3, ReplyImplemented DEF Log!Next
<1>4. ASSUME UNCHANGED <<errChan, root, full, Called>> PROVE UNCHANGED Log!vars
  BY <1>4 DEF Log!vars, Called
<1>5. CASE \E r \in Request : Send(r) \/ Return(r)
  <2>1. UNCHANGED <<errChan, root, full, Called>>
    BY <1>5 DEF Send, Return, Called, IInv, TypeOK, disk, spoil
  <2> QED
    BY <1>4, <2>1
<1>6. CASE \/ Receive \/ TickArrives \/ OnTick \/ Fsync \/ Msync \/ WriteBack \/ Stopped
           \/ UNCHANGED vars
  <2>1. UNCHANGED <<phase, errChan, root, full>>
    BY <1>6 DEF Receive, TickArrives, OnTick, Fsync, Msync, WriteBack, Stopped, vars,
                disk, spoil
  <2> QED
    BY <1>4, <2>1 DEF Called
<1>7. CASE Apply
  BY <1>7, ApplyAllocates, AllocatingImplemented DEF Log!Next
<1>8. CASE Panic
  <2>1. /\ UNCHANGED <<phase, errChan, queue, stray, full>> /\ pc' # "notify"
        /\ (pc = "apply" /\ Allocates) \/ UNCHANGED <<root, master>>
    BY <1>8 DEF Panic, spoil, disk
  <2>2. CASE pc = "apply" /\ Allocates
    <3>1. Allocating
      BY <2>1, <2>2 DEF Allocating
    <3> QED
      BY <3>1, AllocatingImplemented DEF Log!Next
  <2>3. CASE UNCHANGED <<root, master>>
    BY <1>4, <2>1, <2>3 DEF Called
  <2> QED
    BY <2>1, <2>2, <2>3
<1> QED
  BY <1>1, <1>2, <1>3, <1>5, <1>6, <1>7, <1>8 DEF Next, Flush

(* The queue, the batches and the barriers are invisible: each request     *)
(* takes effect at one instant between call and reply or not at all, and   *)
(* the reply tells which, until the tree is lost; and it is lost only      *)
(* after a refusal, a Delete behind another request or an insert that      *)
(* found no space, never by a failed barrier.                              *)
THEOREM EngineImplementsLog == Spec => AtomicReplies
<1>1. Init => Log!Init
  <2>1. Empty.log = << >> /\ Empty.whole
    BY DEF Empty
  <2> QED
    BY <2>1 DEF Init, Log!Init
<1>2. IInv /\ [Next]_vars => [Log!Next]_(Log!vars)
  BY StepImplemented
<1> QED
  BY <1>1, <1>2, EngineInductive, PTL DEF Spec, AtomicReplies, Log!Spec
=============================================================================
