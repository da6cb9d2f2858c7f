-------------------------- MODULE SteerQueueProofs --------------------------
(***************************************************************************)
(* Proofs about SteerQueue, for any items, requests, workers and attempts,  *)
(* whatever fails, is cancelled, withdrawn, stalls or crashes: the types    *)
(* and the sequence numbers; that an instruction is said once if it is      *)
(* applied; that it stays in its chain; and that the order is kept.         *)
(***************************************************************************)
EXTENDS SteerQueue, FiniteSetTheorems, WellFoundedInduction, TLAPS

-----------------------------------------------------------------------------
(* Types: the parts of QueueTypeOK, and what makes them inductive.          *)

Item == [st: {"none", "accepted", "claimed", "applied", "cancelled", "superseded"},
         mode: Modes, target: Runs \cup {None}, seq: 0 .. Cardinality(Items),
         attempt: 0 .. MaxAttempts, fresh: BOOLEAN]
Run  == [st: {"absent", "live", "completed", "stopped"}, root: Runs \cup {None},
         owner: Workers \cup {None}, phase: {"early", "late", "saved"}]
Held == Delivery \cup {None}
Task == [run: Runs \cup {None}, pc: {"free", "reason", "model", "act", "ended"},
         held: Held, injected: Held]

Present == {i \in Items : item[i].st # "none"}

\* An item nobody has claimed has had no delivery, and a claim that ran out was not the last.
ItemsTyped ==
    /\ item \in [Items -> Item]
    /\ \A i \in Items :
          /\ item[i].st = "none" <=> item[i].seq = 0
          /\ item[i].st # "none" => item[i].target \in Runs
          /\ item[i].st \in {"none", "accepted"} => item[i].attempt = 0
          /\ item[i].st = "claimed" /\ ~item[i].fresh => item[i].attempt < MaxAttempts

\* steer_seq is unique, and never beyond the number of items there are.
Numbered ==
    /\ \A i, j \in Items : item[i].seq = item[j].seq => i = j \/ item[i].seq = 0
    /\ \A i \in Items : item[i].seq <= Cardinality(Present)

RunsTyped == run \in [Runs -> Run]

TasksTyped ==
    /\ task \in [Workers -> Task]
    /\ \A w \in Workers : task[w].pc # "free" => task[w].run \in Runs

NotesTyped == shown \subseteq Items /\ said \in [Items -> 0 .. 2]

Typed == ItemsTyped /\ Numbered /\ RunsTyped /\ TasksTyped /\ NotesTyped

\* The named types are those of the type invariant.
LEMMA TypedIsTypeOK == Typed => QueueTypeOK
  <1> SUFFICES ASSUME Typed PROVE QueueTypeOK
    OBVIOUS
  <1>1. run \in [Runs -> [st: {"absent", "live", "completed", "stopped"}, root: Runs \cup {None},
                          owner: Workers \cup {None}, phase: {"early", "late", "saved"}]]
    BY DEF Typed, RunsTyped, Run
  <1>2. task \in [Workers -> [run: Runs \cup {None}, pc: {"free", "reason", "model", "act", "ended"},
                              held: Delivery \cup {None}, injected: Delivery \cup {None}]]
    BY DEF Typed, TasksTyped, Task, Held
  <1>3. item \in [Items ->
          [st: {"none", "accepted", "claimed", "applied", "cancelled", "superseded"},
           mode: Modes, target: Runs \cup {None}, seq: 0 .. Cardinality(Items),
           attempt: 0 .. MaxAttempts, fresh: BOOLEAN]]
    BY DEF Typed, ItemsTyped, Item
  <1>4. /\ \A i \in Items : (item[i].st = "none") <=> (item[i].seq = 0)
        /\ \A i, j \in Items : item[i].seq = item[j].seq => i = j \/ item[i].seq = 0
    BY DEF Typed, ItemsTyped, Numbered
  <1> QED BY <1>1, <1>2, <1>3, <1>4 DEF Typed, NotesTyped, QueueTypeOK

\* What the assumption on the constants says of single values and of sets of items.
LEMMA Bounds ==
    ASSUME QueueAssumption
    PROVE  /\ MaxAttempts \in Nat \ {0} /\ Cardinality(Items) \in Nat
           /\ None \notin Runs /\ Items \subseteq Runs
           /\ \A S \in SUBSET Items : IsFiniteSet(S) /\ Cardinality(S) \in Nat
                                      /\ Cardinality(S) <= Cardinality(Items)
  <1>1. IsFiniteSet(Items)
    BY DEF QueueAssumption
  <1>2. \A S \in SUBSET Items : IsFiniteSet(S) /\ Cardinality(S) <= Cardinality(Items)
    BY <1>1, FS_Subset
  <1>3. \A S \in SUBSET Items : Cardinality(S) \in Nat
    BY <1>2, FS_CardinalityType
  <1> QED BY <1>2, <1>3 DEF QueueAssumption, Runs

\* An empty queue has its types.
LEMMA TypedInit == QueueAssumption /\ Init => Typed
  <1> SUFFICES ASSUME QueueAssumption, Init PROVE Typed
    OBVIOUS
  <1>1. ItemsTyped
    BY Bounds DEF Init, ItemsTyped, Item, Modes
  <1>2. Present = {}
    BY DEF Init, Present
  <1>3. Numbered
    BY <1>2, FS_EmptySet DEF Init, Numbered
  <1>4. RunsTyped
    BY DEF Init, RunsTyped, Run
  <1>5. FreeTask \in Task /\ FreeTask.pc = "free"
    BY DEF FreeTask, Task, Held
  <1>6. TasksTyped
    BY <1>5 DEF Init, TasksTyped
  <1> QED BY <1>1, <1>3, <1>4, <1>6 DEF Init, NotesTyped, Typed

-----------------------------------------------------------------------------
(* What the operations of the queue do.                                     *)

\* A set of numbers has a least one: the head of the queue.
LEMMA LeastNumber ==
    ASSUME NEW N \in SUBSET Nat, N # {}
    PROVE  \E n \in N : \A m \in N : n <= m
  <1> DEFINE R == {ss \in Nat \X Nat : ss[1] < ss[2]}
  <1>1. IsWellFoundedOn(R, Nat)
    BY NatLessThanWellFounded DEF OpToRel
  <1>2. \E n \in N : \A m \in N : ~(<<m, n>> \in R)
    <2> HIDE DEF R
    <2> QED BY <1>1, WFMin
  <1>3. \A n, m \in N : ~(<<m, n>> \in R) => n <= m
    OBVIOUS
  <1> QED BY <1>2, <1>3

\* order_by(steer_seq).first() is there if there is any, and is the first.
LEMMA OldestOK ==
    ASSUME QueueAssumption, ItemsTyped, NEW S \in SUBSET Items, S # {}
    PROVE  Oldest(S) \in S /\ \A j \in S : item[Oldest(S)].seq <= item[j].seq
  <1> DEFINE N == {item[j].seq : j \in S}
  <1>1. N \in SUBSET Nat /\ N # {}
    BY Bounds DEF ItemsTyped, Item
  <1>2. \E n \in N : \A m \in N : n <= m
    <2> HIDE DEF N
    <2> QED BY <1>1, LeastNumber
  <1>3. \E i \in S : \A j \in S : item[i].seq <= item[j].seq
    BY <1>2
  <1> QED BY <1>3 DEF Oldest

\* The first of the items that the agent of run r may take is claimed.
Claims(i, r) ==
    /\ i \in Claimable(r)
    /\ \A j \in Claimable(r) : item[i].seq <= item[j].seq
    /\ item' = [item EXCEPT ![i] = [item[i] EXCEPT !.st = "claimed", !.fresh = TRUE,
                                                   !.attempt = item[i].attempt + 1]]

\* A poll holds nothing or an item, and changes nothing or claims an item.
LEMMA PollOK ==
    ASSUME QueueAssumption, Typed, NEW w \in Workers, task[w].pc # "free", Poll(w)
    PROVE  /\ Polled(w) \in Held
           /\ Polled(w) = None \/ Polled(w).item \in Items
           /\ item' = item \/ \E i \in Items : Claims(i, task[w].run)
  <1> DEFINE r == task[w].run
             i == Oldest(Claimable(r))
  <1>1. task[w].held \in Held /\ r \in Runs /\ Claimable(r) \in SUBSET Items
    BY DEF Typed, TasksTyped, Task, Claimable
  <1>2. CASE task[w].held # None \/ Claimable(r) = {}
    BY <1>1, <1>2 DEF Polled, Poll, Held, Delivery
  <1>3. CASE ~(task[w].held # None \/ Claimable(r) = {})
    <2>1. i \in Claimable(r) /\ i \in Items /\ \A j \in Claimable(r) : item[i].seq <= item[j].seq
      BY <1>1, <1>3, OldestOK DEF Typed
    <2>2. Polled(w) = [item |-> i, attempt |-> item[i].attempt + 1]
      BY <1>3 DEF Polled
    <2> HIDE DEF i
    <2>3. item[i].attempt < MaxAttempts /\ item[i].attempt \in 0 .. MaxAttempts
      BY <2>1, Bounds DEF Claimable, Typed, ItemsTyped, Item
    <2>4. Polled(w) \in Delivery /\ Polled(w).item = i /\ Polled(w).attempt = item[i].attempt + 1
      BY <2>1, <2>2, <2>3, Bounds DEF Delivery
    <2>5. item' = item \/ Claims(i, r)
      <3>1. CASE Polled(w) = task[w].held
        BY <3>1 DEF Poll
      <3>2. CASE Polled(w) # task[w].held
        <4>1. item' = [item EXCEPT ![i].st = "claimed", ![i].attempt = item[i].attempt + 1,
                                   ![i].fresh = TRUE]
          BY <3>2, <2>4 DEF Poll
        <4>2. item' = [item EXCEPT ![i] = [item[i] EXCEPT !.st = "claimed", !.fresh = TRUE,
                                                          !.attempt = item[i].attempt + 1]]
          BY <4>1, <2>1 DEF Typed, ItemsTyped, Item
        <4> QED BY <2>1, <4>2 DEF Claims
      <3> QED BY <3>1, <3>2
    <2> QED BY <2>1, <2>4, <2>5 DEF Held
  <1> QED BY <1>2, <1>3

\* One item changes, and keeps its place.
LEMMA ItemChanges ==
    ASSUME QueueAssumption, Typed, NEW i \in Items, NEW x \in Item,
           item' = [item EXCEPT ![i] = x], item[i].st # "none",
           x.st \notin {"none", "accepted"}, x.seq = item[i].seq, x.target = item[i].target,
           x.st = "claimed" /\ ~x.fresh => x.attempt < MaxAttempts
    PROVE  ItemsTyped' /\ Numbered'
  <1>1. item'[i] = x /\ \A j \in Items : j # i => item'[j] = item[j]
    BY DEF Typed, ItemsTyped
  <1>2. ItemsTyped'
    BY <1>1 DEF Typed, ItemsTyped
  <1>3. Present' = Present
    BY <1>1 DEF Present
  <1>4. \A j \in Items : item'[j].seq = item[j].seq
    BY <1>1
  <1> QED BY <1>2, <1>3, <1>4 DEF Typed, Numbered

\* A run completes, and the first of the items that are left over opens the next.
HandsOff(r, i) ==
    /\ i \in LeftOvers(r)
    /\ \A j \in LeftOvers(r) : item[i].seq <= item[j].seq
    /\ item' = [item EXCEPT ![i] = [item[i] EXCEPT !.st = "applied"]]
    /\ said' = [said EXCEPT ![i] = Twice(said[i])]
    /\ run' = [run EXCEPT ![r] = [run[r] EXCEPT !.st = "completed", !.owner = None],
                          ![i] = [st |-> "live", root |-> run[r].root, owner |-> None, phase |-> "early"]]

\* A run completes with nothing queued, or hands off to an item.
LEMMA CompletesOK ==
    ASSUME QueueAssumption, Typed, NEW r \in Runs, Completes(r)
    PROVE  \/ /\ run' = [run EXCEPT ![r] = [run[r] EXCEPT !.st = "completed", !.owner = None]]
              /\ UNCHANGED <<item, said>>
           \/ \E i \in Items : HandsOff(r, i)
  <1> DEFINE i == Oldest(LeftOvers(r))
             done == [run EXCEPT ![r].st = "completed", ![r].owner = None]
  <1>1. done = [run EXCEPT ![r] = [run[r] EXCEPT !.st = "completed", !.owner = None]]
    BY DEF Typed, RunsTyped, Run
  <1>2. CASE LeftOvers(r) = {}
    BY <1>1, <1>2 DEF Completes
  <1>3. CASE LeftOvers(r) # {}
    <2>1. LeftOvers(r) \in SUBSET Items
      BY DEF LeftOvers
    <2>2. i \in LeftOvers(r) /\ i \in Items /\ \A j \in LeftOvers(r) : item[i].seq <= item[j].seq
      BY <1>3, <2>1, OldestOK DEF Typed
    <2>3. /\ run' = [done EXCEPT ![i] = [st |-> "live", root |-> run[r].root,
                                         owner |-> None, phase |-> "early"]]
          /\ item' = [item EXCEPT ![i].st = "applied"]
          /\ said' = [said EXCEPT ![i] = Twice(@)]
      BY <1>3 DEF Completes
    <2> HIDE DEF i
    <2> QED BY <1>1, <2>2, <2>3 DEF HandsOff
  <1> QED BY <1>2, <1>3

\* How often an instruction is said is counted up to two.
LEMMA TwiceOK == ASSUME NEW n \in 0 .. 2 PROVE Twice(n) \in 0 .. 2 /\ (n = 0 => Twice(n) = 1)
  BY DEF Twice

-----------------------------------------------------------------------------
(* The types are kept.                                                      *)

\* A claim keeps the types of the items and their numbers.
LEMMA ClaimsTyped ==
    ASSUME QueueAssumption, Typed, NEW r \in Runs, NEW i \in Items, Claims(i, r)
    PROVE  ItemsTyped' /\ Numbered'
  <1> DEFINE x == [item[i] EXCEPT !.st = "claimed", !.fresh = TRUE, !.attempt = item[i].attempt + 1]
  <1>1. /\ item[i] \in Item /\ item[i].st \in {"accepted", "claimed"}
        /\ item[i].attempt < MaxAttempts /\ item' = [item EXCEPT ![i] = x]
    BY Bounds DEF Claims, Claimable, Typed, ItemsTyped
  <1>2. item[i].attempt + 1 \in 0 .. MaxAttempts
    BY <1>1, Bounds DEF Item
  <1>3. x \in Item
    BY <1>1, <1>2 DEF Item
  <1>4. x.st = "claimed" /\ x.seq = item[i].seq /\ x.target = item[i].target
    BY <1>1 DEF Item
  <1>5. x.fresh
    BY <1>1 DEF Item
  <1> HIDE DEF x
  <1> QED BY <1>1, <1>3, <1>4, <1>5, ItemChanges

\* So does a hand-off.
LEMMA HandsOffTyped ==
    ASSUME QueueAssumption, Typed, NEW r \in Runs, NEW i \in Items, HandsOff(r, i)
    PROVE  ItemsTyped' /\ Numbered'
  <1> DEFINE x == [item[i] EXCEPT !.st = "applied"]
  <1>1. item[i] \in Item /\ item[i].st = "accepted" /\ item' = [item EXCEPT ![i] = x]
    BY DEF HandsOff, LeftOvers, Typed, ItemsTyped
  <1>2. x \in Item /\ x.st = "applied" /\ x.seq = item[i].seq /\ x.target = item[i].target
    BY <1>1 DEF Item
  <1> QED BY <1>1, <1>2, ItemChanges

\* max(steer_seq) + 1 is new, and the number of items there are then.
LEMMA NextSeqOK ==
    ASSUME QueueAssumption, Typed, NEW i \in Items, item[i].st = "none"
    PROVE  /\ NextSeq \in 1 .. Cardinality(Items)
           /\ Cardinality(Present \cup {i}) = NextSeq
           /\ \A j \in Items : item[j].seq < NextSeq
  <1>1. Present \in SUBSET Items /\ i \notin Present /\ NextSeq = 1 + Cardinality(Present)
    BY DEF Present, NextSeq
  <1>2. IsFiniteSet(Present) /\ Cardinality(Present) \in Nat
    BY <1>1, Bounds
  <1>3. Cardinality(Present \cup {i}) = Cardinality(Present) + 1
    BY <1>1, <1>2, FS_AddElement
  <1>4. Cardinality(Present \cup {i}) <= Cardinality(Items) /\ Cardinality(Items) \in Nat
    BY <1>1, Bounds
  <1>5. \A j \in Items : item[j].seq <= Cardinality(Present) /\ item[j].seq \in Nat
    BY Bounds DEF Typed, Numbered, ItemsTyped, Item
  <1> QED BY <1>1, <1>2, <1>3, <1>4, <1>5

\* What SteerQueue.accept does to each item: one is new and the last, some are superseded.
LEMMA AcceptOK ==
    ASSUME QueueAssumption, Typed, NEW i \in Items, NEW r \in Runs, NEW m \in Modes, NEW b \in BOOLEAN,
           Accept(i, r, m, b)
    PROVE  /\ item[i].st = "none" /\ Live(r) /\ UNCHANGED <<run, task, shown, said>>
           /\ item' \in [Items -> Item]
           /\ item'[i].st = "accepted" /\ item'[i].seq = NextSeq /\ item'[i].target = r
           /\ item'[i].mode = m /\ item'[i].attempt = 0
           /\ \A j \in Items : j # i =>
                 \/ item'[j] = item[j]
                 \/ item[j].st = "accepted" /\ item'[j] = [item[j] EXCEPT !.st = "superseded"]
  <1> DEFINE old == IF b /\ m = "steer" THEN {j \in Items : /\ item[j].target = r
                                                          /\ item[j].mode = "steer"
                                                          /\ item[j].st = "accepted"}
                    ELSE {}
             x == [item[i] EXCEPT !.st = "accepted", !.mode = m, !.target = r, !.seq = NextSeq]
             y(j) == [item[j] EXCEPT !.st = "superseded"]
  <1>1. /\ item[i].st = "none" /\ Live(r) /\ UNCHANGED <<run, task, shown, said>>
        /\ item' = [j \in Items |-> IF j = i THEN x ELSE IF j \in old THEN y(j) ELSE item[j]]
    BY DEF Accept
  <1>2. \A j \in Items : item[j] \in Item
    BY DEF Typed, ItemsTyped
  <1>3. NextSeq \in 0 .. Cardinality(Items)
    <2> HIDE DEF x, y, old
    <2>1. NextSeq \in 1 .. Cardinality(Items)
      BY <1>1, NextSeqOK
    <2> QED BY <2>1, Bounds
  <1>4. x \in Item /\ x.st = "accepted" /\ x.seq = NextSeq /\ x.target = r /\ x.mode = m
        /\ x.attempt = item[i].attempt
    BY <1>2, <1>3 DEF Item
  <1>5. \A j \in Items : y(j) \in Item
    BY <1>2 DEF Item
  <1>6. \A j \in old : item[j].st = "accepted"
    OBVIOUS
  <1>7. item[i].attempt = 0
    BY <1>1 DEF Typed, ItemsTyped
  <1> HIDE DEF x, old
  <1> QED BY <1>1, <1>2, <1>4, <1>5, <1>6, <1>7

\* So does the acceptance of an instruction.
LEMMA AcceptTyped ==
    ASSUME QueueAssumption, Typed, NEW i \in Items, NEW r \in Runs, NEW m \in Modes, NEW b \in BOOLEAN,
           Accept(i, r, m, b)
    PROVE  ItemsTyped' /\ Numbered'
  <1>1. /\ item[i].st = "none" /\ item' \in [Items -> Item]
        /\ item'[i].st = "accepted" /\ item'[i].seq = NextSeq /\ item'[i].target = r /\ item'[i].attempt = 0
        /\ \A j \in Items : j # i =>
              \/ item'[j] = item[j]
              \/ item[j].st = "accepted" /\ item'[j] = [item[j] EXCEPT !.st = "superseded"]
    BY AcceptOK
  <1>2. ASSUME NEW j \in Items, j # i
        PROVE  /\ item'[j].seq = item[j].seq /\ item'[j].target = item[j].target
               /\ item'[j].attempt = item[j].attempt
               /\ (item'[j].st = item[j].st \/ (item'[j].st = "superseded" /\ item[j].st = "accepted"))
               /\ item'[j].st = "claimed" => item'[j] = item[j]
    <2>1. CASE item'[j] = item[j]
      BY <2>1
    <2>2. CASE item[j].st = "accepted" /\ item'[j] = [item[j] EXCEPT !.st = "superseded"]
      BY <2>2 DEF Typed, ItemsTyped, Item
    <2> QED BY <1>1, <1>2, <2>1, <2>2
  <1>3. NextSeq \in Nat /\ NextSeq # 0 /\ Cardinality(Present \cup {i}) = NextSeq
        /\ \A j \in Items : item[j].seq < NextSeq /\ item[j].seq \in Nat
    <2>1. \A j \in Items : item[j].seq \in Nat
      BY Bounds DEF Typed, ItemsTyped, Item
    <2> QED BY <1>1, <2>1, NextSeqOK
  <1>4. ItemsTyped'
    BY <1>1, <1>2, <1>3 DEF Typed, ItemsTyped
  <1>5. Present' = Present \cup {i}
    BY <1>1, <1>2 DEF Present
  <1>6. Numbered'
    BY <1>1, <1>2, <1>3, <1>5 DEF Typed, Numbered
  <1> QED BY <1>4, <1>6

\* The items and their numbers: accept, claim_next, mark_applied, cancel, consume_next_handoff.
LEMMA ItemsStep ==
    ASSUME QueueAssumption, Typed, Next
    PROVE  ItemsTyped' /\ Numbered'
  <1>1. ASSUME NEW w \in Workers, Reason(w) PROVE ItemsTyped' /\ Numbered'
    <2>1. task[w].pc # "free" /\ Poll(w)
      BY <1>1 DEF Reason
    <2>2. CASE item' = item
      BY <2>2 DEF Typed, ItemsTyped, Numbered, Present
    <2>3. CASE \E i \in Items : Claims(i, task[w].run)
      BY <2>1, <2>3, ClaimsTyped DEF Typed, TasksTyped
    <2> QED BY <2>1, <2>2, <2>3, PollOK
  <1>2. ASSUME NEW w \in Workers, Acknowledge(w) PROVE ItemsTyped' /\ Numbered'
    <2> DEFINE d == task[w].injected
               x == [item[d.item] EXCEPT !.st = "applied", !.fresh = FALSE]
    <2>1. d.item \in Items /\ StillClaimed(d) /\ item' = [item EXCEPT ![d.item] = x]
      BY <1>2 DEF Acknowledge, Typed, TasksTyped, Task, Held, Delivery
    <2>2. item[d.item] \in Item /\ item[d.item].st = "claimed"
      BY <2>1 DEF StillClaimed, Typed, ItemsTyped
    <2>3. x \in Item /\ x.st = "applied" /\ x.seq = item[d.item].seq /\ x.target = item[d.item].target
      BY <2>2 DEF Item
    <2> QED BY <2>1, <2>2, <2>3, ItemChanges
  <1>3. ASSUME NEW w \in Workers, Complete(w) PROVE ItemsTyped' /\ Numbered'
    <2>1. task[w].run \in Runs /\ Completes(task[w].run)
      BY <1>3 DEF Complete, Owned, Typed, TasksTyped
    <2>2. CASE item' = item
      BY <2>2 DEF Typed, ItemsTyped, Numbered, Present
    <2>3. CASE \E i \in Items : HandsOff(task[w].run, i)
      BY <2>1, <2>3, HandsOffTyped
    <2> QED BY <2>1, <2>2, <2>3, CompletesOK
  <1>4. ASSUME NEW w \in Workers, NEW next \in {"act", "ended", "reason"}, Act(w,
    next) PROVE ItemsTyped' /\ Numbered'
    <2>1. task[w].pc # "free" /\ Poll(w)
      BY <1>4 DEF Act
    <2>2. CASE item' = item
      BY <2>2 DEF Typed, ItemsTyped, Numbered, Present
    <2>3. CASE \E i \in Items : Claims(i, task[w].run)
      BY <2>1, <2>3, ClaimsTyped DEF Typed, TasksTyped
    <2> QED BY <2>1, <2>2, <2>3, PollOK
  <1>5. ASSUME NEW r \in Runs, Recommit(r) PROVE ItemsTyped' /\ Numbered'
    <2>1. CASE item' = item
      BY <2>1 DEF Typed, ItemsTyped, Numbered, Present
    <2>2. CASE \E i \in Items : HandsOff(r, i)
      BY <2>2, HandsOffTyped
    <2> QED BY <1>5, <2>1, <2>2, CompletesOK DEF Recommit
  <1>6. ASSUME NEW i \in Items, Withdraw(i) PROVE ItemsTyped' /\ Numbered'
    <2> DEFINE x == [item[i] EXCEPT !.st = "cancelled", !.fresh = FALSE]
    <2>1. item[i] \in Item /\ item[i].st \in {"accepted", "claimed"}
      BY <1>6 DEF Withdraw, Typed, ItemsTyped
    <2>2. item' = [item EXCEPT ![i] = x]
      BY <1>6 DEF Withdraw
    <2>3. x \in Item /\ x.st = "cancelled" /\ x.seq = item[i].seq /\ x.target = item[i].target
      BY <2>1 DEF Item
    <2> QED BY <2>1, <2>2, <2>3, ItemChanges
  <1>7. ASSUME NEW i \in Items, ClaimEnds(i) PROVE ItemsTyped' /\ Numbered'
    <2> DEFINE x == [item[i] EXCEPT !.fresh = FALSE]
    <2>1. item[i] \in Item /\ item[i].st = "claimed" /\ item[i].attempt < MaxAttempts
      BY <1>7 DEF ClaimEnds, Typed, ItemsTyped
    <2>2. item' = [item EXCEPT ![i] = x]
      BY <1>7 DEF ClaimEnds
    <2>3. x \in Item /\ x.st = "claimed" /\ x.seq = item[i].seq /\ x.target = item[i].target
          /\ x.attempt = item[i].attempt
      BY <2>1 DEF Item
    <2> QED BY <2>1, <2>2, <2>3, ItemChanges
  <1>8. ASSUME NEW i \in Items, NEW r \in Runs, NEW m \in Modes, NEW b \in BOOLEAN,
    Accept(i, r, m, b) PROVE ItemsTyped' /\ Numbered'
    BY <1>8, AcceptTyped
  <1>9. ASSUME NEW w \in Workers, RecordDispatch(w) \/ RunFails(w) \/ Fenced(w) \/
    Save(w) \/ Crash(w)
       PROVE  UNCHANGED <<item>>
    BY <1>9 DEF RecordDispatch, RunFails, Fenced, Freed, Save, Crash
  <1>10. ASSUME NEW w \in Workers, NEW next \in {"act", "ended", "reason"},
    ModelAnswers(w, next)
       PROVE  UNCHANGED <<item>>
    BY <1>10 DEF ModelAnswers
  <1>11. ASSUME NEW r \in Runs, Ask(r) \/ CancelRun(r) \/ Park(r) \/ RunLeaseEnds(r)
       PROVE  UNCHANGED <<item>>
    BY <1>11 DEF Ask, CancelRun, Park, RunLeaseEnds
  <1>12. ASSUME NEW r \in Runs, NEW w \in Workers, Start(r, w)
       PROVE  UNCHANGED <<item>>
    BY <1>12 DEF Start
  <1>13. ASSUME UNCHANGED <<item>> PROVE ItemsTyped' /\ Numbered'
    BY <1>13 DEF Typed, ItemsTyped, Numbered, Present
  <1>14. QED
    BY <1>1, <1>2, <1>3, <1>4, <1>5, <1>6, <1>7, <1>8, <1>9, <1>10, <1>11, <1>12,
      <1>13 DEF Next, AgentStep, ExecutorStep, RecoveryStep

\* A completed run is a run.
LEMMA RunCompleted ==
    ASSUME Typed, NEW r \in Runs
    PROVE  [run[r] EXCEPT !.st = "completed", !.owner = None] \in Run
  <1>1. run[r] \in Run
    BY DEF Typed, RunsTyped
  <1> QED BY <1>1 DEF Run

\* A hand-off keeps the types of the runs.
LEMMA RunsHandedOver ==
    ASSUME QueueAssumption, Typed, NEW r \in Runs, NEW i \in Items, HandsOff(r, i)
    PROVE  RunsTyped'
  <1>1. run[r] \in Run /\ i \in Runs
    BY Bounds DEF Typed, RunsTyped
  <1>2. [run[r] EXCEPT !.st = "completed", !.owner = None] \in Run
    BY RunCompleted
  <1>3. [st |-> "live", root |-> run[r].root, owner |-> None, phase |-> "early"] \in Run
    BY <1>1 DEF Run
  <1> QED BY <1>1, <1>2, <1>3 DEF HandsOff, Typed, RunsTyped

\* The runs of the chat.
LEMMA RunsStep ==
    ASSUME QueueAssumption, Typed, Next
    PROVE  RunsTyped'
  <1>1. ASSUME NEW w \in Workers, RecordDispatch(w) PROVE RunsTyped'
    BY <1>1, Bounds DEF RecordDispatch, Owned, TasksTyped, Typed, RunsTyped, Run
  <1>2. ASSUME NEW w \in Workers, Acknowledge(w) PROVE RunsTyped'
    BY <1>2, Bounds DEF Acknowledge, Owned, TasksTyped, Typed, RunsTyped, Run
  <1>3. ASSUME NEW w \in Workers, RunFails(w) PROVE RunsTyped'
    BY <1>3, Bounds DEF RunFails, Owned, TasksTyped, Typed, RunsTyped, Run
  <1>4. ASSUME NEW w \in Workers, Save(w) PROVE RunsTyped'
    BY <1>4, Bounds DEF Save, Owned, TasksTyped, Typed, RunsTyped, Run
  <1>5. ASSUME NEW w \in Workers, Complete(w) PROVE RunsTyped'
    <2>1. task[w].run \in Runs /\ Completes(task[w].run)
      BY <1>5 DEF Complete, Owned, Typed, TasksTyped
    <2>2. CASE run' = [run EXCEPT ![task[w].run] = [run[task[w].run] EXCEPT !.st = "completed", !.owner = None]]
      BY <2>1, <2>2, RunCompleted DEF Typed, RunsTyped
    <2>3. CASE \E i \in Items : HandsOff(task[w].run, i)
      BY <2>1, <2>3, RunsHandedOver
    <2> QED BY <2>1, <2>2, <2>3, CompletesOK
  <1>6. ASSUME NEW r \in Runs, Ask(r) PROVE RunsTyped'
    BY <1>6, Bounds DEF Ask, NewRun, Typed, RunsTyped, Run
  <1>7. ASSUME NEW r \in Runs, CancelRun(r) PROVE RunsTyped'
    <2> DEFINE x == [run[r] EXCEPT !.st = "stopped", !.owner = None]
    <2>0. run[r] \in Run /\ run' = [run EXCEPT ![r].st = "stopped", ![r].owner = None]
      BY <1>7 DEF CancelRun, Typed, RunsTyped
    <2>1. run' = [run EXCEPT ![r] = x]
      BY <2>0 DEF Typed, RunsTyped, Run
    <2>2. x \in Run
      BY <2>0 DEF Run
    <2> HIDE DEF x
    <2> QED BY <2>0, <2>1, <2>2 DEF Typed, RunsTyped
  <1>8. ASSUME NEW r \in Runs, Recommit(r) PROVE RunsTyped'
    <2>1. Completes(r)
      BY <1>8 DEF Recommit
    <2>2. CASE run' = [run EXCEPT ![r] = [run[r] EXCEPT !.st = "completed", !.owner = None]]
      BY <2>1, <2>2, RunCompleted DEF Typed, RunsTyped
    <2>3. CASE \E i \in Items : HandsOff(r, i)
      BY <2>1, <2>3, RunsHandedOver
    <2> QED BY <2>1, <2>2, <2>3, CompletesOK
  <1>9. ASSUME NEW r \in Runs, Park(r) PROVE RunsTyped'
    BY <1>9, Bounds DEF Park, Typed, RunsTyped, Run
  <1>10. ASSUME NEW r \in Runs, RunLeaseEnds(r) PROVE RunsTyped'
    BY <1>10, Bounds DEF RunLeaseEnds, Typed, RunsTyped, Run
  <1>11. ASSUME NEW r \in Runs, NEW w \in Workers, Start(r, w) PROVE RunsTyped'
    BY <1>11, Bounds DEF Start, Typed, RunsTyped, Run
  <1>12. ASSUME NEW w \in Workers, Reason(w) \/ Fenced(w) \/ Crash(w)
       PROVE  UNCHANGED <<run>>
    BY <1>12 DEF Reason, Fenced, Freed, Crash
  <1>13. ASSUME NEW w \in Workers, NEW next \in {"act", "ended", "reason"},
    ModelAnswers(w, next) \/ Act(w, next)
       PROVE  UNCHANGED <<run>>
    BY <1>13 DEF ModelAnswers, Act
  <1>14. ASSUME NEW i \in Items, Withdraw(i) \/ ClaimEnds(i)
       PROVE  UNCHANGED <<run>>
    BY <1>14 DEF Withdraw, ClaimEnds
  <1>15. ASSUME NEW i \in Items, NEW r \in Runs, NEW m \in Modes, NEW b \in BOOLEAN,
    Accept(i, r, m, b)
       PROVE  UNCHANGED <<run>>
    BY <1>15 DEF Accept
  <1>16. ASSUME UNCHANGED <<run>> PROVE RunsTyped'
    BY <1>16 DEF Typed, RunsTyped
  <1>17. QED
    BY <1>1, <1>2, <1>3, <1>4, <1>5, <1>6, <1>7, <1>8, <1>9, <1>10, <1>11, <1>12,
      <1>13, <1>14, <1>15, <1>16 DEF Next, AgentStep, ExecutorStep, RecoveryStep

\* The workers and their agents.
LEMMA TasksStep ==
    ASSUME QueueAssumption, Typed, Next
    PROVE  TasksTyped'
  <1>1. ASSUME NEW w \in Workers, Reason(w) PROVE TasksTyped'
    <2> DEFINE inj == IF Polled(w) = None THEN task[w].injected ELSE Polled(w)
               x == [task[w] EXCEPT !.pc = "model", !.held = None, !.injected = inj]
    <2>1. task[w].pc # "free" /\ Poll(w) /\ task[w] \in Task
      BY <1>1 DEF Reason, Typed, TasksTyped
    <2>2. inj \in Held
      BY <2>1, PollOK DEF Task
    <2>3. task' = [task EXCEPT ![w] = x]
      BY <1>1, <2>1 DEF Reason, Task
    <2> HIDE DEF inj
    <2>4. x \in Task /\ x.run = task[w].run
      BY <2>1, <2>2 DEF Task, Held
    <2> QED BY <2>1, <2>3, <2>4 DEF Typed, TasksTyped
  <1>2. ASSUME NEW w \in Workers, Acknowledge(w) PROVE TasksTyped'
    BY <1>2 DEF Acknowledge, Typed, TasksTyped, Task, Held
  <1>3. ASSUME NEW w \in Workers, Fenced(w) PROVE TasksTyped'
    <2>1. FreeTask \in Task /\ FreeTask.pc = "free"
      BY DEF FreeTask, Task, Held
    <2> QED BY <2>1, <1>3 DEF Fenced, Freed, Typed, TasksTyped
  <1>4. ASSUME NEW w \in Workers, Complete(w) PROVE TasksTyped'
    <2>1. FreeTask \in Task /\ FreeTask.pc = "free"
      BY DEF FreeTask, Task, Held
    <2> QED BY <2>1, <1>4 DEF Complete, Freed, Typed, TasksTyped
  <1>5. ASSUME NEW w \in Workers, Crash(w) PROVE TasksTyped'
    <2>1. FreeTask \in Task /\ FreeTask.pc = "free"
      BY DEF FreeTask, Task, Held
    <2> QED BY <2>1, <1>5 DEF Crash, Freed, Typed, TasksTyped
  <1>6. ASSUME NEW w \in Workers, NEW next \in {"act", "ended", "reason"},
    ModelAnswers(w, next) PROVE TasksTyped'
    BY <1>6 DEF ModelAnswers, Typed, TasksTyped, Task, Held
  <1>7. ASSUME NEW w \in Workers, NEW next \in {"act", "ended", "reason"}, Act(w,
    next) PROVE TasksTyped'
    <2>1. task[w].pc # "free" /\ Poll(w)
      BY <1>7 DEF Act
    <2>2. Polled(w) \in Held
      BY <2>1, PollOK
    <2>3. PICK h \in Held : h = Polled(w)
      BY <2>2
    <2> DEFINE x == [task[w] EXCEPT !.pc = next, !.held = h]
    <2>4. task \in [Workers -> Task] /\ run' = run
      BY <1>7 DEF Act, Typed, TasksTyped
    <2>5. task' = [task EXCEPT ![w].pc = next, ![w].held = h]
      BY <1>7, <2>3 DEF Act
    <2>6. task[w] \in Task
      BY <2>4
    <2>7. x \in Task /\ x.run = task[w].run
      BY <2>6 DEF Task
    <2>8. task' = [task EXCEPT ![w] = x]
      BY <2>4, <2>5 DEF Task
    <2> HIDE DEF x
    <2> QED BY <2>1, <2>4, <2>7, <2>8 DEF Typed, TasksTyped
  <1>8. ASSUME NEW r \in Runs, NEW w \in Workers, Start(r, w) PROVE TasksTyped'
    BY <1>8 DEF Start, Typed, TasksTyped, Task, Held
  <1>9. ASSUME NEW w \in Workers, RecordDispatch(w) \/ RunFails(w) \/ Save(w)
       PROVE  UNCHANGED <<task>>
    BY <1>9 DEF RecordDispatch, RunFails, Save
  <1>10. ASSUME NEW r \in Runs, Ask(r) \/ CancelRun(r) \/ Recommit(r) \/ Park(r) \/
    RunLeaseEnds(r)
       PROVE  UNCHANGED <<task>>
    BY <1>10 DEF Ask, CancelRun, Recommit, Park, RunLeaseEnds
  <1>11. ASSUME NEW i \in Items, Withdraw(i) \/ ClaimEnds(i)
       PROVE  UNCHANGED <<task>>
    BY <1>11 DEF Withdraw, ClaimEnds
  <1>12. ASSUME NEW i \in Items, NEW r \in Runs, NEW m \in Modes, NEW b \in BOOLEAN,
    Accept(i, r, m, b)
       PROVE  UNCHANGED <<task>>
    BY <1>12 DEF Accept
  <1>13. ASSUME UNCHANGED <<task>> PROVE TasksTyped'
    BY <1>13 DEF Typed, TasksTyped
  <1>14. QED
    BY <1>1, <1>2, <1>3, <1>4, <1>5, <1>6, <1>7, <1>8, <1>9, <1>10, <1>11, <1>12,
      <1>13 DEF Next, AgentStep, ExecutorStep, RecoveryStep

\* And of the counts.
LEMMA SaidHandedOver ==
    ASSUME Typed, NEW r \in Runs, NEW i \in Items, HandsOff(r, i)
    PROVE  said' \in [Items -> 0 .. 2]
  BY TwiceOK DEF HandsOff, Typed, NotesTyped

\* What the model was shown and what became a message.
LEMMA NotesStep ==
    ASSUME QueueAssumption, Typed, Next
    PROVE  NotesTyped'
  <1>1. ASSUME NEW w \in Workers, Reason(w) PROVE NotesTyped'
    <2>1. task[w].pc # "free" /\ Poll(w)
      BY <1>1 DEF Reason
    <2> QED BY <2>1, PollOK, <1>1 DEF Reason, Typed, NotesTyped
  <1>2. ASSUME NEW w \in Workers, Acknowledge(w) PROVE NotesTyped'
    <2> DEFINE d == task[w].injected
    <2>1. d.item \in Items /\ said' = [said EXCEPT ![d.item] = Twice(@)] /\ shown' = shown
      BY <1>2 DEF Acknowledge, Typed, TasksTyped, Task, Held, Delivery
    <2> QED BY <2>1, TwiceOK DEF Typed, NotesTyped
  <1>3. ASSUME NEW w \in Workers, Complete(w) PROVE NotesTyped'
    <2>1. task[w].run \in Runs /\ Completes(task[w].run) /\ shown' = shown
      BY <1>3 DEF Complete, Owned, Typed, TasksTyped
    <2>2. said' \in [Items -> 0 .. 2]
      BY <2>1, CompletesOK, SaidHandedOver DEF Typed, NotesTyped
    <2> QED BY <2>1, <2>2 DEF Typed, NotesTyped
  <1>4. ASSUME NEW r \in Runs, Recommit(r) PROVE NotesTyped'
    <2>1. said' \in [Items -> 0 .. 2]
      BY <1>4, CompletesOK, SaidHandedOver DEF Recommit, Typed, NotesTyped
    <2> QED BY <1>4, <2>1 DEF Recommit, Typed, NotesTyped
  <1>5. ASSUME NEW w \in Workers, RecordDispatch(w) \/ RunFails(w) \/ Fenced(w) \/
    Save(w) \/ Crash(w)
       PROVE  UNCHANGED <<shown, said>>
    BY <1>5 DEF RecordDispatch, RunFails, Fenced, Freed, Save, Crash
  <1>6. ASSUME NEW w \in Workers, NEW next \in {"act", "ended", "reason"},
    ModelAnswers(w, next) \/ Act(w, next)
       PROVE  UNCHANGED <<shown, said>>
    BY <1>6 DEF ModelAnswers, Act
  <1>7. ASSUME NEW r \in Runs, Ask(r) \/ CancelRun(r) \/ Park(r) \/ RunLeaseEnds(r)
       PROVE  UNCHANGED <<shown, said>>
    BY <1>7 DEF Ask, CancelRun, Park, RunLeaseEnds
  <1>8. ASSUME NEW r \in Runs, NEW w \in Workers, Start(r, w)
       PROVE  UNCHANGED <<shown, said>>
    BY <1>8 DEF Start
  <1>9. ASSUME NEW i \in Items, Withdraw(i) \/ ClaimEnds(i)
       PROVE  UNCHANGED <<shown, said>>
    BY <1>9 DEF Withdraw, ClaimEnds
  <1>10. ASSUME NEW i \in Items, NEW r \in Runs, NEW m \in Modes, NEW b \in BOOLEAN,
    Accept(i, r, m, b)
       PROVE  UNCHANGED <<shown, said>>
    BY <1>10 DEF Accept
  <1>11. ASSUME UNCHANGED <<shown, said>> PROVE NotesTyped'
    BY <1>11 DEF Typed, NotesTyped
  <1>12. QED
    BY <1>1, <1>2, <1>3, <1>4, <1>5, <1>6, <1>7, <1>8, <1>9, <1>10, <1>11 DEF Next,
      AgentStep, ExecutorStep, RecoveryStep

\* Every step keeps the types.
LEMMA TypedStep == QueueAssumption /\ Typed /\ [Next]_vars => Typed'
  <1> SUFFICES ASSUME QueueAssumption, Typed, [Next]_vars PROVE Typed'
    OBVIOUS
  <1>1. CASE Next
    BY <1>1, ItemsStep, RunsStep, TasksStep, NotesStep DEF Typed
  <1>2. CASE UNCHANGED vars
    BY <1>2 DEF vars, Typed, ItemsTyped, Numbered, Present, RunsTyped, TasksTyped, NotesTyped
  <1> QED BY <1>1, <1>2

\* The types hold along every behaviour.
LEMMA TypedAlways == Spec => []Typed
  <1>1. Init => Typed
    BY QueueAssumption, TypedInit
  <1>2. Typed /\ [Next]_vars => Typed'
    BY QueueAssumption, TypedStep
  <1> QED BY <1>1, <1>2, PTL DEF Spec

\* QueueTypeOK: among the types, steer_seq is unique in the chat, whatever was withdrawn or superseded.
THEOREM QueueTypeCorrect == Spec => []QueueTypeOK
  <1>1. Typed => QueueTypeOK
    BY TypedIsTypeOK
  <1> QED BY TypedAlways, <1>1, PTL


-----------------------------------------------------------------------------
(* What a step does to the items and the messages, and what it does to the  *)
(* runs: all that the three properties look at.                             *)

\* Item i goes on to x.st; one that nobody had claimed is the first of its kind.
Moves(i, x) ==
    /\ item' = [item EXCEPT ![i] = x]
    /\ item[i].st \in {"accepted", "claimed"} /\ x.st \in {"claimed", "applied", "cancelled"}
    /\ x.seq = item[i].seq /\ x.target = item[i].target /\ x.mode = item[i].mode
    /\ said' = IF x.st = "applied" THEN [said EXCEPT ![i] = Twice(said[i])] ELSE said
    /\ (item[i].st = "accepted" /\ x.st # "cancelled") =>
          \A j \in Items : (item[j].st = "accepted" /\ item[j].target = item[i].target
                            /\ item[j].mode = item[i].mode) => item[i].seq <= item[j].seq

\* claim_next takes the first.
LEMMA ClaimsMoves ==
    ASSUME QueueAssumption, Typed, NEW r \in Runs, NEW i \in Items, Claims(i, r), said' = said
    PROVE  \E x \in Item : Moves(i, x)
  <1> DEFINE x == [item[i] EXCEPT !.st = "claimed", !.fresh = TRUE, !.attempt = item[i].attempt + 1]
  <1>1. /\ item[i] \in Item /\ item[i].st \in {"accepted", "claimed"}
        /\ item[i].attempt < MaxAttempts /\ item' = [item EXCEPT ![i] = x]
    BY Bounds DEF Claims, Claimable, Typed, ItemsTyped
  <1>2. item[i].attempt + 1 \in 0 .. MaxAttempts
    BY <1>1, Bounds DEF Item
  <1>3. x \in Item
    BY <1>1, <1>2 DEF Item
  <1>4. /\ x.st = "claimed" /\ x.seq = item[i].seq /\ x.target = item[i].target
        /\ x.mode = item[i].mode
    BY <1>1 DEF Item
  <1>5. ASSUME NEW j \in Items, item[j].st = "accepted", item[j].target = item[i].target,
               item[j].mode = item[i].mode
        PROVE  item[i].seq <= item[j].seq
    BY <1>5 DEF Claims, Claimable
  <1> HIDE DEF x
  <1>6. Moves(i, x)
    BY <1>1, <1>4, <1>5 DEF Moves
  <1> QED BY <1>3, <1>6

\* consume_next_handoff takes the first.
LEMMA HandsOffMoves ==
    ASSUME QueueAssumption, Typed, NEW r \in Runs, NEW i \in Items, HandsOff(r, i)
    PROVE  \E x \in Item : Moves(i, x) /\ x.st = "applied"
  <1> DEFINE x == [item[i] EXCEPT !.st = "applied"]
  <1>1. item[i] \in Item /\ item[i].st = "accepted" /\ item' = [item EXCEPT ![i] = x]
        /\ said' = [said EXCEPT ![i] = Twice(said[i])]
    BY DEF HandsOff, LeftOvers, Typed, ItemsTyped
  <1>2. x \in Item /\ x.st = "applied" /\ x.seq = item[i].seq /\ x.target = item[i].target
        /\ x.mode = item[i].mode
    BY <1>1 DEF Item
  <1>3. ASSUME NEW j \in Items, item[j].st = "accepted", item[j].target = item[i].target,
               item[j].mode = item[i].mode
        PROVE  item[i].seq <= item[j].seq
    BY <1>3 DEF HandsOff, LeftOvers
  <1> HIDE DEF x
  <1>4. Moves(i, x)
    BY <1>1, <1>2, <1>3 DEF Moves
  <1> QED BY <1>2, <1>4

ItemsKept == item' = item /\ said' = said
ItemNew   == \E i \in Items, r \in Runs, m \in Modes, b \in BOOLEAN : Accept(i, r, m, b)
ItemMoves == \E i \in Items, x \in Item : Moves(i, x)

\* A step accepts one item, moves one item on, or leaves the queue alone.
LEMMA ItemKinds ==
    ASSUME QueueAssumption, Typed, Next
    PROVE  ItemsKept \/ ItemNew \/ ItemMoves
  <1>1. ASSUME NEW w \in Workers, Reason(w) PROVE ItemsKept \/ ItemNew \/ ItemMoves
    <2>1. task[w].pc # "free" /\ Poll(w) /\ said' = said /\ task[w].run \in Runs
      BY <1>1 DEF Reason, Typed, TasksTyped
    <2>2. CASE item' = item
      BY <2>1, <2>2 DEF ItemsKept
    <2>3. CASE \E i \in Items : Claims(i, task[w].run)
      BY <2>1, <2>3, ClaimsMoves DEF ItemMoves
    <2> QED BY <2>1, <2>2, <2>3, PollOK
  <1>2. ASSUME NEW w \in Workers, Acknowledge(w) PROVE ItemsKept \/ ItemNew \/
    ItemMoves
    <2> DEFINE d == task[w].injected
               x == [item[d.item] EXCEPT !.st = "applied", !.fresh = FALSE]
    <2>1. d.item \in Items /\ StillClaimed(d) /\ item' = [item EXCEPT ![d.item] = x]
          /\ said' = [said EXCEPT ![d.item] = Twice(said[d.item])]
      BY <1>2 DEF Acknowledge, Typed, TasksTyped, Task, Held, Delivery
    <2>2. item[d.item] \in Item /\ item[d.item].st = "claimed"
      BY <2>1 DEF StillClaimed, Typed, ItemsTyped
    <2>3. x \in Item /\ x.st = "applied" /\ x.seq = item[d.item].seq /\ x.target = item[d.item].target
          /\ x.mode = item[d.item].mode
      BY <2>2 DEF Item
    <2> HIDE DEF x
    <2>4. Moves(d.item, x)
      BY <2>1, <2>2, <2>3 DEF Moves
    <2> QED BY <2>1, <2>3, <2>4 DEF ItemMoves
  <1>3. ASSUME NEW w \in Workers, Complete(w) PROVE ItemsKept \/ ItemNew \/ ItemMoves
    <2>1. task[w].run \in Runs /\ Completes(task[w].run)
      BY <1>3 DEF Complete, Owned, Typed, TasksTyped
    <2> QED BY <2>1, CompletesOK, HandsOffMoves DEF ItemsKept, ItemMoves
  <1>4. ASSUME NEW w \in Workers, NEW next \in {"act", "ended", "reason"}, Act(w,
    next) PROVE ItemsKept \/ ItemNew \/ ItemMoves
    <2>1. task[w].pc # "free" /\ Poll(w) /\ said' = said /\ task[w].run \in Runs
      BY <1>4 DEF Act, Typed, TasksTyped
    <2>2. CASE item' = item
      BY <2>1, <2>2 DEF ItemsKept
    <2>3. CASE \E i \in Items : Claims(i, task[w].run)
      BY <2>1, <2>3, ClaimsMoves DEF ItemMoves
    <2> QED BY <2>1, <2>2, <2>3, PollOK
  <1>5. ASSUME NEW r \in Runs, Recommit(r) PROVE ItemsKept \/ ItemNew \/ ItemMoves
    BY <1>5, CompletesOK, HandsOffMoves DEF Recommit, ItemsKept, ItemMoves
  <1>6. ASSUME NEW i \in Items, Withdraw(i) PROVE ItemsKept \/ ItemNew \/ ItemMoves
    <2> DEFINE x == [item[i] EXCEPT !.st = "cancelled", !.fresh = FALSE]
    <2>1. item[i] \in Item /\ item[i].st \in {"accepted", "claimed"}
      BY <1>6 DEF Withdraw, Typed, ItemsTyped
    <2>2. item' = [item EXCEPT ![i] = x] /\ said' = said
      BY <1>6 DEF Withdraw
    <2>3. x \in Item /\ x.st = "cancelled" /\ x.seq = item[i].seq /\ x.target = item[i].target
          /\ x.mode = item[i].mode
      BY <2>1 DEF Item
    <2> HIDE DEF x
    <2>4. Moves(i, x)
      BY <2>1, <2>2, <2>3 DEF Moves
    <2> QED BY <2>3, <2>4 DEF ItemMoves
  <1>7. ASSUME NEW i \in Items, ClaimEnds(i) PROVE ItemsKept \/ ItemNew \/ ItemMoves
    <2> DEFINE x == [item[i] EXCEPT !.fresh = FALSE]
    <2>1. item[i] \in Item /\ item[i].st = "claimed"
      BY <1>7 DEF ClaimEnds, Typed, ItemsTyped
    <2>2. item' = [item EXCEPT ![i] = x] /\ said' = said
      BY <1>7 DEF ClaimEnds
    <2>3. x \in Item /\ x.st = "claimed" /\ x.seq = item[i].seq /\ x.target = item[i].target
          /\ x.mode = item[i].mode
      BY <2>1 DEF Item
    <2> HIDE DEF x
    <2>4. Moves(i, x)
      BY <2>1, <2>2, <2>3 DEF Moves
    <2> QED BY <2>3, <2>4 DEF ItemMoves
  <1>8. ASSUME NEW i \in Items, NEW r \in Runs, NEW m \in Modes, NEW b \in BOOLEAN,
    Accept(i, r, m, b) PROVE ItemsKept \/ ItemNew \/ ItemMoves
    BY <1>8 DEF ItemNew
  <1>9. ASSUME NEW w \in Workers, RecordDispatch(w) \/ RunFails(w) \/ Fenced(w) \/
    Save(w) \/ Crash(w)
       PROVE  UNCHANGED <<item, said>>
    BY <1>9 DEF RecordDispatch, RunFails, Fenced, Freed, Save, Crash
  <1>10. ASSUME NEW w \in Workers, NEW next \in {"act", "ended", "reason"},
    ModelAnswers(w, next)
       PROVE  UNCHANGED <<item, said>>
    BY <1>10 DEF ModelAnswers
  <1>11. ASSUME NEW r \in Runs, Ask(r) \/ CancelRun(r) \/ Park(r) \/ RunLeaseEnds(r)
       PROVE  UNCHANGED <<item, said>>
    BY <1>11 DEF Ask, CancelRun, Park, RunLeaseEnds
  <1>12. ASSUME NEW r \in Runs, NEW w \in Workers, Start(r, w)
       PROVE  UNCHANGED <<item, said>>
    BY <1>12 DEF Start
  <1>13. ASSUME UNCHANGED <<item, said>> PROVE ItemsKept \/ ItemNew \/ ItemMoves
    BY <1>13 DEF ItemsKept
  <1>14. QED
    BY <1>1, <1>2, <1>3, <1>4, <1>5, <1>6, <1>7, <1>8, <1>9, <1>10, <1>11, <1>12,
      <1>13 DEF Next, AgentStep, ExecutorStep, RecoveryStep

\* No run opens, and none moves to another chain.
RunsKept  == \A q \in Runs : /\ run'[q].root = run[q].root
                             /\ run'[q].st = "absent" <=> run[q].st = "absent"
RunAsked  == \E r \in Requests : /\ run[r].st = "absent" /\ run' = NewRun(r, r)
                                 /\ UNCHANGED <<item, said>>
RunHanded == \E r \in Runs, i \in Items : Live(r) /\ HandsOff(r, i)

\* A step opens one run, for a request or for an item handed off, or leaves the chains alone.
LEMMA RunKinds ==
    ASSUME QueueAssumption, Typed, Next
    PROVE  RunsKept \/ RunAsked \/ RunHanded
  <1>1. ASSUME NEW w \in Workers, RecordDispatch(w) PROVE RunsKept \/ RunAsked \/
    RunHanded
    BY <1>1 DEF RecordDispatch, Owned, TasksTyped, RunsKept, Live, Typed, RunsTyped,
      Run
  <1>2. ASSUME NEW w \in Workers, Acknowledge(w) PROVE RunsKept \/ RunAsked \/
    RunHanded
    BY <1>2 DEF Acknowledge, Owned, TasksTyped, RunsKept, Live, Typed, RunsTyped, Run
  <1>3. ASSUME NEW w \in Workers, RunFails(w) PROVE RunsKept \/ RunAsked \/ RunHanded
    BY <1>3 DEF RunFails, Owned, TasksTyped, RunsKept, Live, Typed, RunsTyped, Run
  <1>4. ASSUME NEW w \in Workers, Save(w) PROVE RunsKept \/ RunAsked \/ RunHanded
    BY <1>4 DEF Save, Owned, TasksTyped, RunsKept, Live, Typed, RunsTyped, Run
  <1>5. ASSUME NEW w \in Workers, Complete(w) PROVE RunsKept \/ RunAsked \/ RunHanded
    <2>1. task[w].run \in Runs /\ Live(task[w].run) /\ Completes(task[w].run)
      BY <1>5 DEF Complete, Owned, Typed, TasksTyped
    <2>2. CASE run' = [run EXCEPT ![task[w].run] = [run[task[w].run] EXCEPT !.st = "completed", !.owner = None]]
      BY <2>1, <2>2 DEF RunsKept, Live, Typed, RunsTyped, Run
    <2>3. CASE \E i \in Items : HandsOff(task[w].run, i)
      BY <2>1, <2>3 DEF RunHanded
    <2> QED BY <2>1, <2>2, <2>3, CompletesOK
  <1>6. ASSUME NEW r \in Runs, Ask(r) PROVE RunsKept \/ RunAsked \/ RunHanded
    BY <1>6 DEF Ask, RunAsked
  <1>7. ASSUME NEW r \in Runs, CancelRun(r) PROVE RunsKept \/ RunAsked \/ RunHanded
    BY <1>7 DEF CancelRun, RunsKept, Live, Typed, RunsTyped, Run
  <1>8. ASSUME NEW r \in Runs, Recommit(r) PROVE RunsKept \/ RunAsked \/ RunHanded
    <2>1. Live(r) /\ Completes(r)
      BY <1>8 DEF Recommit
    <2>2. CASE run' = [run EXCEPT ![r] = [run[r] EXCEPT !.st = "completed", !.owner = None]]
      BY <2>1, <2>2 DEF RunsKept, Live, Typed, RunsTyped, Run
    <2>3. CASE \E i \in Items : HandsOff(r, i)
      BY <2>1, <2>3 DEF RunHanded
    <2> QED BY <2>1, <2>2, <2>3, CompletesOK
  <1>9. ASSUME NEW r \in Runs, Park(r) PROVE RunsKept \/ RunAsked \/ RunHanded
    BY <1>9 DEF Park, RunsKept, Live, Typed, RunsTyped, Run
  <1>10. ASSUME NEW r \in Runs, RunLeaseEnds(r) PROVE RunsKept \/ RunAsked \/
    RunHanded
    BY <1>10 DEF RunLeaseEnds, RunsKept, Live, Typed, RunsTyped, Run
  <1>11. ASSUME NEW r \in Runs, NEW w \in Workers, Start(r, w) PROVE RunsKept \/
    RunAsked \/ RunHanded
    BY <1>11 DEF Start, RunsKept, Live, Typed, RunsTyped, Run
  <1>12. ASSUME NEW w \in Workers, Reason(w) \/ Fenced(w) \/ Crash(w)
       PROVE  UNCHANGED <<run>>
    BY <1>12 DEF Reason, Fenced, Freed, Crash
  <1>13. ASSUME NEW w \in Workers, NEW next \in {"act", "ended", "reason"},
    ModelAnswers(w, next) \/ Act(w, next)
       PROVE  UNCHANGED <<run>>
    BY <1>13 DEF ModelAnswers, Act
  <1>14. ASSUME NEW i \in Items, Withdraw(i) \/ ClaimEnds(i)
       PROVE  UNCHANGED <<run>>
    BY <1>14 DEF Withdraw, ClaimEnds
  <1>15. ASSUME NEW i \in Items, NEW r \in Runs, NEW m \in Modes, NEW b \in BOOLEAN,
    Accept(i, r, m, b)
       PROVE  UNCHANGED <<run>>
    BY <1>15 DEF Accept
  <1>16. ASSUME UNCHANGED <<run>> PROVE RunsKept \/ RunAsked \/ RunHanded
    BY <1>16 DEF RunsKept
  <1>17. QED
    BY <1>1, <1>2, <1>3, <1>4, <1>5, <1>6, <1>7, <1>8, <1>9, <1>10, <1>11, <1>12,
      <1>13, <1>14, <1>15, <1>16 DEF Next, AgentStep, ExecutorStep, RecoveryStep

-----------------------------------------------------------------------------
(* An instruction is a message exactly if it was applied, and then once.    *)

\* No step says an applied instruction again.
LEMMA SaidStep ==
    ASSUME QueueAssumption, Typed, SaidOnceIfApplied, [Next]_vars
    PROVE  SaidOnceIfApplied'
  <1>1. ASSUME item' = item, said' = said
        PROVE  SaidOnceIfApplied'
    BY <1>1 DEF SaidOnceIfApplied
  <1>2. ASSUME NEW i \in Items, NEW r \in Runs, NEW m \in Modes, NEW b \in BOOLEAN, Accept(i, r, m, b)
        PROVE  SaidOnceIfApplied'
    <2>1. /\ item[i].st = "none" /\ item'[i].st = "accepted" /\ said' = said
          /\ \A j \in Items : j # i =>
                \/ item'[j] = item[j]
                \/ item[j].st = "accepted" /\ item'[j] = [item[j] EXCEPT !.st = "superseded"]
      BY <1>2, AcceptOK
    <2>2. ASSUME NEW j \in Items
          PROVE  item'[j].st = "applied" <=> item[j].st = "applied"
      <3>1. CASE j = i
        BY <2>1, <3>1
      <3>2. CASE item'[j] = item[j]
        BY <3>2
      <3>3. CASE item[j].st = "accepted" /\ item'[j] = [item[j] EXCEPT !.st = "superseded"]
        BY <3>3 DEF Typed, ItemsTyped, Item
      <3> QED BY <2>1, <3>1, <3>2, <3>3
    <2> QED BY <2>1, <2>2 DEF SaidOnceIfApplied
  <1>3. ASSUME NEW i \in Items, NEW x \in Item, Moves(i, x)
        PROVE  SaidOnceIfApplied'
    <2>1. item'[i] = x /\ \A j \in Items : j # i => item'[j] = item[j]
      BY <1>3 DEF Moves, Typed, ItemsTyped
    <2>2. item[i].st # "applied" /\ said[i] = 0
      BY <1>3 DEF Moves, SaidOnceIfApplied
    <2>3. said'[i] = IF x.st = "applied" THEN 1 ELSE 0
      BY <1>3, <2>2, TwiceOK DEF Moves, Typed, NotesTyped
    <2>4. \A j \in Items : j # i => said'[j] = said[j]
      BY <1>3 DEF Moves, Typed, NotesTyped
    <2> QED BY <2>1, <2>3, <2>4 DEF SaidOnceIfApplied
  <1> QED BY <1>1, <1>2, <1>3, ItemKinds DEF vars, ItemsKept, ItemNew, ItemMoves

\* SaidOnceIfApplied: acknowledgement, redelivery, withdrawal and hand-off never make two messages
\* of one instruction, nor one of an instruction that was not applied.
THEOREM SaidOnceAlways == Spec => []SaidOnceIfApplied
  <1>1. Init => SaidOnceIfApplied
    BY DEF Init, SaidOnceIfApplied
  <1>2. Typed /\ Typed' /\ SaidOnceIfApplied /\ [Next]_vars => SaidOnceIfApplied'
    BY QueueAssumption, SaidStep
  <1> QED BY <1>1, <1>2, TypedAlways, PTL DEF Spec

-----------------------------------------------------------------------------
(* Order.  It is decided when an item is claimed or handed off, long before *)
(* it is applied, so the invariant speaks of the claimed ones too.          *)

OrderInv ==
    \A i, j \in Items :
        (/\ item[i].target = item[j].target /\ item[i].mode = item[j].mode
         /\ item[i].seq < item[j].seq
         /\ item[j].st \in {"claimed", "applied"})
        => item[i].st # "accepted"

\* No step delivers an instruction out of order.
LEMMA OrderStep ==
    ASSUME QueueAssumption, Typed, OrderInv, [Next]_vars
    PROVE  OrderInv'
  <1>1. ASSUME item' = item
        PROVE  OrderInv'
    BY <1>1 DEF OrderInv
  <1>2. ASSUME NEW i \in Items, NEW r \in Runs, NEW m \in Modes, NEW b \in BOOLEAN, Accept(i, r, m, b)
        PROVE  OrderInv'
    <2>1. /\ item[i].st = "none" /\ item'[i].st = "accepted" /\ item'[i].seq = NextSeq
          /\ \A j \in Items : j # i =>
                \/ item'[j] = item[j]
                \/ item[j].st = "accepted" /\ item'[j] = [item[j] EXCEPT !.st = "superseded"]
      BY <1>2, AcceptOK
    <2>2. ASSUME NEW j \in Items, j # i
          PROVE  /\ item'[j].target = item[j].target /\ item'[j].mode = item[j].mode
                 /\ item'[j].seq = item[j].seq
                 /\ (item'[j].st = item[j].st \/ item'[j].st = "superseded")
      <3>1. CASE item'[j] = item[j]
        BY <3>1
      <3>2. CASE item[j].st = "accepted" /\ item'[j] = [item[j] EXCEPT !.st = "superseded"]
        BY <3>2 DEF Typed, ItemsTyped, Item
      <3> QED BY <2>1, <2>2, <3>1, <3>2
    <2>3. NextSeq \in Nat /\ \A j \in Items : item[j].seq < NextSeq
      <3>1. NextSeq \in 1 .. Cardinality(Items) /\ \A j \in Items : item[j].seq < NextSeq
        BY <2>1, NextSeqOK
      <3> QED BY <3>1, Bounds
    <2>4. \A j \in Items : item[j].seq \in Nat
      BY Bounds DEF Typed, ItemsTyped, Item
    <2>5. \A j \in Items : j # i => ~(item'[i].seq < item'[j].seq)
      BY <2>1, <2>2, <2>3, <2>4
    <2> QED BY <2>1, <2>2, <2>5 DEF OrderInv
  <1>3. ASSUME NEW i \in Items, NEW x \in Item, Moves(i, x)
        PROVE  OrderInv'
    <2>1. item'[i] = x /\ \A j \in Items : j # i => item'[j] = item[j]
      BY <1>3 DEF Moves, Typed, ItemsTyped
    <2>2. ASSUME NEW j \in Items
          PROVE  /\ item'[j].target = item[j].target /\ item'[j].mode = item[j].mode
                 /\ item'[j].seq = item[j].seq /\ item[j].seq \in Nat
                 /\ (item'[j].st = "accepted" => item[j].st = "accepted")
      BY <1>3, <2>1, Bounds DEF Moves, Typed, ItemsTyped, Item
    <2>3. ASSUME NEW k \in Items, NEW j \in Items,
                 item'[k].target = item'[j].target, item'[k].mode = item'[j].mode,
                 item'[k].seq < item'[j].seq, item'[j].st \in {"claimed", "applied"},
                 item'[k].st = "accepted"
          PROVE  FALSE
      <3>1. /\ item[k].target = item[j].target /\ item[k].mode = item[j].mode
            /\ item[k].seq < item[j].seq /\ item[k].st = "accepted"
            /\ item[k].seq \in Nat /\ item[j].seq \in Nat
        BY <2>2, <2>3
      <3>2. CASE item[j].st \in {"claimed", "applied"}
        BY <3>1, <3>2 DEF OrderInv
      <3>3. CASE item[j].st \notin {"claimed", "applied"}
        <4>1. j = i /\ item[i].st = "accepted" /\ x.st # "cancelled"
          BY <1>3, <2>1, <2>3, <3>3 DEF Moves
        <4>2. item[j].seq <= item[k].seq
          BY <1>3, <3>1, <4>1 DEF Moves
        <4> QED BY <3>1, <4>2
      <3> QED BY <3>2, <3>3
    <2> QED BY <2>3 DEF OrderInv
  <1> QED BY <1>1, <1>2, <1>3, ItemKinds DEF vars, ItemsKept, ItemNew, ItemMoves

\* InOrder: none is applied while an earlier one of its kind for its run still waits.
THEOREM InOrderAlways == Spec => []InOrder
  <1>1. Init => OrderInv
    BY DEF Init, OrderInv
  <1>2. Typed /\ Typed' /\ OrderInv /\ [Next]_vars => OrderInv'
    BY QueueAssumption, OrderStep
  <1>3. OrderInv => InOrder
    BY DEF OrderInv, InOrder
  <1> QED BY <1>1, <1>2, <1>3, TypedAlways, PTL DEF Spec

-----------------------------------------------------------------------------
(* Chains.  A run and its root are of one chain, and a root is its own; an  *)
(* item of which there is a run has been applied, so no item that still     *)
(* waits is the run of anything.                                            *)

Rooted ==
    \A r \in Runs : run[r].st # "absent" =>
        /\ run[r].root \in Runs
        /\ run[run[r].root].st # "absent" /\ run[run[r].root].root = run[r].root
Addressed == \A i \in Items : item[i].st # "none" => run[item[i].target].st # "absent"
Opened    == \A i \in Items : run[i].st # "absent" => item[i].st = "applied"

ChainInv == Rooted /\ Addressed /\ Opened /\ StaysInChain

\* What the queue does between two steps: an applied item stays as it is, a new one is for a live run.
LEMMA ItemsGrow ==
    ASSUME QueueAssumption, Typed, Next
    PROVE  \A j \in Items :
              /\ item[j].st # "none" => item'[j].target = item[j].target /\ item'[j].mode = item[j].mode
              /\ item[j].st = "applied" => item'[j].st = "applied"
              /\ (item[j].st = "none" /\ item'[j].st # "none") =>
                    item'[j].target \in Runs /\ Live(item'[j].target)
  <1>1. ASSUME item' = item
        PROVE  \A j \in Items :
              /\ item'[j].target = item[j].target /\ item'[j].mode = item[j].mode
              /\ item'[j].st = item[j].st
    BY <1>1
  <1>2. ASSUME NEW i \in Items, NEW r \in Runs, NEW m \in Modes, NEW b \in BOOLEAN, Accept(i, r, m, b),
               NEW j \in Items
        PROVE /\ item[j].st # "none" => item'[j].target = item[j].target /\ item'[j].mode = item[j].mode
              /\ item[j].st = "applied" => item'[j].st = "applied"
              /\ (item[j].st = "none" /\ item'[j].st # "none") =>
                    item'[j].target \in Runs /\ Live(item'[j].target)
    <2>1. /\ item[i].st = "none" /\ item'[i].target = r /\ Live(r)
          /\ (j # i => \/ item'[j] = item[j]
                       \/ item[j].st = "accepted" /\ item'[j] = [item[j] EXCEPT !.st = "superseded"])
      BY <1>2, AcceptOK
    <2>2. CASE j = i
      BY <2>1, <2>2
    <2>3. CASE item'[j] = item[j]
      BY <2>3
    <2>4. CASE item[j].st = "accepted" /\ item'[j] = [item[j] EXCEPT !.st = "superseded"]
      BY <2>4 DEF Typed, ItemsTyped, Item
    <2> QED BY <2>1, <2>2, <2>3, <2>4
  <1>3. ASSUME NEW i \in Items, NEW x \in Item, Moves(i, x)
        PROVE \A j \in Items :
              /\ item'[j].target = item[j].target /\ item'[j].mode = item[j].mode
              /\ item[j].st = "applied" => item'[j].st = "applied"
              /\ item[j].st = "none" => item'[j].st = "none"
    BY <1>3 DEF Moves, Typed, ItemsTyped
  <1> QED BY <1>1, <1>2, <1>3, ItemKinds DEF ItemsKept, ItemNew, ItemMoves

\* No run opens.
LEMMA ChainKept ==
    ASSUME QueueAssumption, Typed, Typed', ChainInv, Next, RunsKept
    PROVE  ChainInv'
  <1>1. \A i \in Items : item[i].st # "none" => item[i].target \in Runs
    BY DEF Typed, ItemsTyped
  <1>2. \A i \in Items : i \in Runs
    BY Bounds
  <1>3. Rooted'
    BY DEF ChainInv, Rooted, RunsKept
  <1>4. Addressed'
    BY <1>1, ItemsGrow DEF ChainInv, Addressed, RunsKept, Live
  <1>5. Opened'
    BY <1>2, ItemsGrow DEF ChainInv, Opened, RunsKept
  <1>6. StaysInChain'
    BY <1>1, <1>2, ItemsGrow DEF ChainInv, Opened, StaysInChain, RunsKept
  <1> QED BY <1>3, <1>4, <1>5, <1>6 DEF ChainInv

\* A request opens a chain.
LEMMA ChainAsked ==
    ASSUME QueueAssumption, Typed, ChainInv, RunAsked
    PROVE  ChainInv'
  <1> PICK r \in Requests : run[r].st = "absent" /\ run' = NewRun(r, r) /\ UNCHANGED <<item, said>>
    BY DEF RunAsked
  <1>1. r \in Runs /\ r \notin Items /\ \A i \in Items : i \in Runs
    BY DEF Runs, QueueAssumption
  <1>2. /\ run'[r].st = "live" /\ run'[r].root = r
        /\ \A q \in Runs : q # r => run'[q] = run[q]
    BY <1>1 DEF NewRun, Typed, RunsTyped
  <1>3. \A i \in Items : item[i].st # "none" => item[i].target \in Runs
    BY DEF Typed, ItemsTyped
  <1>4. Rooted'
    BY <1>1, <1>2 DEF ChainInv, Rooted
  <1>5. Addressed' /\ Opened'
    BY <1>1, <1>2, <1>3 DEF ChainInv, Addressed, Opened
  <1>6. StaysInChain'
    BY <1>1, <1>2, <1>3 DEF ChainInv, Addressed, Opened, StaysInChain
  <1> QED BY <1>4, <1>5, <1>6 DEF ChainInv

\* A completed run hands an item on, within its chain or to whatever comes next.
LEMMA ChainHanded ==
    ASSUME QueueAssumption, Typed, ChainInv, RunHanded
    PROVE  ChainInv'
  <1> PICK r \in Runs, i \in Items : Live(r) /\ HandsOff(r, i)
    BY DEF RunHanded
  <1> DEFINE root == run[r].root
  <1>1. /\ item[i].st = "accepted" /\ (item[i].mode = "next_run" \/ item[i].target \in {r, root})
        /\ item' = [item EXCEPT ![i] = [item[i] EXCEPT !.st = "applied"]]
    BY DEF HandsOff, LeftOvers, HandoffTargets
  <1>2. /\ i \in Runs /\ run[i].st = "absent" /\ r # i /\ run[r].st # "absent"
        /\ \A j \in Items : j \in Runs
    BY <1>1, Bounds DEF Live, ChainInv, Opened
  <1>3. root \in Runs /\ run[root].st # "absent" /\ run[root].root = root /\ root # i
    BY <1>2 DEF ChainInv, Rooted
  <1>4. /\ run'[i].st = "live" /\ run'[i].root = root
        /\ \A q \in Runs : q # i => run'[q].root = run[q].root
                                    /\ (run'[q].st = "absent" <=> run[q].st = "absent")
    BY <1>2 DEF HandsOff, Live, Typed, RunsTyped, Run
  <1>5. /\ item'[i].st = "applied"
        /\ \A j \in Items : /\ item'[j].target = item[j].target /\ item'[j].mode = item[j].mode
                            /\ j # i => item'[j].st = item[j].st
    BY <1>1 DEF Typed, ItemsTyped, Item
  <1>6. \A j \in Items : item[j].st # "none" => item[j].target \in Runs
    BY DEF Typed, ItemsTyped
  <1> HIDE DEF root
  <1>7. Rooted'
    BY <1>2, <1>3, <1>4 DEF ChainInv, Rooted
  <1>8. Addressed'
    BY <1>1, <1>2, <1>4, <1>5, <1>6 DEF ChainInv, Addressed
  <1>9. Opened'
    BY <1>2, <1>4, <1>5 DEF ChainInv, Opened
  <1>10. ASSUME NEW j \in Items, run'[j].st # "absent", item'[j].mode # "next_run"
         PROVE  run'[j].root = run'[item'[j].target].root
    <2>1. item[j].st # "none" /\ item[j].target \in Runs /\ run[item[j].target].st # "absent"
      BY <1>1, <1>2, <1>4, <1>6, <1>10 DEF ChainInv, Addressed, Opened
    <2>2. item[j].target # i /\ run'[item'[j].target].root = run[item[j].target].root
      BY <1>2, <1>4, <1>5, <2>1
    <2>3. CASE j = i
      BY <1>1, <1>3, <1>4, <1>5, <1>10, <2>2, <2>3 DEF root
    <2>4. CASE j # i
      BY <1>2, <1>4, <1>5, <1>10, <2>2, <2>4 DEF ChainInv, StaysInChain
    <2> QED BY <2>3, <2>4
  <1> QED BY <1>7, <1>8, <1>9, <1>10 DEF ChainInv, StaysInChain

\* No step delivers an instruction outside its chain of runs.
LEMMA ChainStep ==
    ASSUME QueueAssumption, Typed, Typed', ChainInv, [Next]_vars
    PROVE  ChainInv'
  <1>1. CASE Next
    BY <1>1, RunKinds, ChainKept, ChainAsked, ChainHanded
  <1>2. CASE UNCHANGED vars
    BY <1>2 DEF vars, ChainInv, Rooted, Addressed, Opened, StaysInChain
  <1> QED BY <1>1, <1>2

\* StaysInChain: what was meant for one conversation chain does not surface in another.
THEOREM StaysInChainAlways == Spec => []StaysInChain
  <1>1. Init => ChainInv
    BY Bounds, QueueAssumption DEF Init, ChainInv, Rooted, Addressed, Opened, StaysInChain
  <1>2. Typed /\ Typed' /\ ChainInv /\ [Next]_vars => ChainInv'
    BY QueueAssumption, ChainStep
  <1>3. ChainInv => StaysInChain
    BY DEF ChainInv
  <1> QED BY <1>1, <1>2, <1>3, TypedAlways, PTL DEF Spec

=============================================================================
