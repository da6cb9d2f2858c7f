------------------------- MODULE MemoryOutboxProofs -------------------------
(***************************************************************************)
(* Proofs about MemoryOutbox, for any turns, layers, rules, entries and     *)
(* workers, any number of attempts and faults: the types, with the bound on *)
(* the attempts of a job; that what ended stays ended; that a card is       *)
(* complete; and that a rule changes the store once.                        *)
(***************************************************************************)
EXTENDS MemoryOutbox, FiniteSetTheorems, SequenceTheorems, TLAPS

-----------------------------------------------------------------------------
(* Types, but for the bound on the attempts.                                *)

States == {"absent", "pending", "processing", "retry"} \cup Done

\* Only a row that is being processed has an owner, and it has been claimed.
RawRow == [st: States, attempts: Nat, owner: Workers \cup {None}, fresh: BOOLEAN]
Row    == {r \in RawRow : /\ r.owner # None => r.st = "processing"
                          /\ r.st = "processing" => r.attempts > 0}

Hand == [pc: {"free", "claimed", "ready", "turn", "done", "failed", "failing", "down"},
         job: Jobs \cup {None}, rule: 1 .. Rules + 1,
         confirmed: SUBSET (Entries \X (1 .. Rules)), tries: Nat, facts: Facts \cup {None}]

RowsTyped == row \in [Jobs -> Row]

LineTyped ==
    /\ line \in Seq(Jobs) /\ IsInjective(line)
    /\ \A j \in Jobs : row[j].st # "absent" <=> j \in Range(line)

FoundTyped ==
    /\ found \in [Messages -> (SUBSET Layers) \cup {None}]
    /\ \A m \in Messages, l \in Layers :
          row[<<l, m>>].st # "absent" <=> found[m] # None /\ l \in found[m]

\* Who has a job has one that is there, and is in its turn exactly while it has the lane.
WorkersTyped ==
    /\ worker \in [Workers -> Hand]
    /\ \A w \in Workers :
          /\ worker[w].pc \notin {"free", "down"} =>
                worker[w].job \in Jobs /\ row[worker[w].job].st # "absent"
          /\ worker[w].pc \in {"free", "down"} => worker[w].job = None
          /\ worker[w].pc = "turn" => Kind(worker[w].job) = "L2"
    /\ lane \in Workers \cup {None}
    /\ \A w \in Workers : lane = w <=> worker[w].pc = "turn"

StoreTyped == store \in [Entries -> SUBSET Receipts] /\ applied \in [Receipts -> 0 .. 2]

NotesTyped ==
    /\ saved \subseteq Messages
    /\ card \in [Messages -> Facts \cup {None}]
    /\ faults \in 0 .. MaxFaults

Typed == RowsTyped /\ LineTyped /\ FoundTyped /\ WorkersTyped /\ StoreTyped /\ NotesTyped

\* What the assumption on the constants says of single values.
LEMMA Bounds ==
    ASSUME OutboxAssumption
    PROVE  /\ Rules \in Nat /\ MaxAttempts \in Nat \ {0} /\ MaxFaults \in Nat
           /\ None \notin Workers /\ None \notin Jobs
           /\ \A S \in SUBSET Layers : S # None
           /\ IsFiniteSet(Messages) /\ IsFiniteSet(Layers)
           /\ "pipeline" \notin Layers /\ "settlement" \notin Layers
  <1>1. IsFiniteSet({"L1", "L2"})
    <2>1. IsFiniteSet({"L1"})
      BY FS_Singleton
    <2>2. IsFiniteSet({"L1"} \cup {"L2"})
      BY <2>1, FS_AddElement
    <2>3. {"L1", "L2"} = {"L1"} \cup {"L2"}
      OBVIOUS
    <2> QED BY <2>2, <2>3
  <1>2. IsFiniteSet(Layers)
    BY <1>1, FS_Subset DEF OutboxAssumption
  <1> QED BY <1>2 DEF OutboxAssumption

\* The jobs of a message: its pipeline, its settlement and one per layer.
LEMMA JobsOK ==
    ASSUME OutboxAssumption, NEW m \in Messages
    PROVE  /\ <<"pipeline", m>> \in Jobs /\ <<"settlement", m>> \in Jobs
           /\ \A l \in Layers : <<l, m>> \in Jobs
           /\ \A j \in Jobs : /\ Msg(j) \in Messages /\ j = <<Kind(j), Msg(j)>>
                              /\ Kind(j) \in {"pipeline", "settlement"} \cup Layers
           /\ Kind(<<"pipeline", m>>) = "pipeline" /\ Kind(<<"settlement", m>>) = "settlement"
           /\ Msg(<<"pipeline", m>>) = m /\ Msg(<<"settlement", m>>) = m
           /\ \A l \in Layers : Kind(<<l, m>>) = l /\ Msg(<<l, m>>) = m
  BY DEF Jobs, Kind, Msg

\* The same, seen from a job.
LEMMA JobOK ==
    ASSUME OutboxAssumption, NEW j \in Jobs
    PROVE  /\ Msg(j) \in Messages /\ j = <<Kind(j), Msg(j)>>
           /\ Kind(j) \in {"pipeline", "settlement"} \cup Layers
           /\ <<"pipeline", Msg(j)>> \in Jobs /\ <<"settlement", Msg(j)>> \in Jobs
  BY DEF Jobs, Kind, Msg

-----------------------------------------------------------------------------
(* What the operators on rows and on their order do.                        *)

\* A row that is given back has no owner and keeps its attempts.
LEMMA ReleasedOK ==
    ASSUME NEW r \in RawRow, NEW st \in States \ {"processing"}
    PROVE  /\ Released(r, st) \in Row
           /\ Released(r, st).st = st /\ Released(r, st).attempts = r.attempts
           /\ Released(r, st).owner = None
  BY DEF Released, Row, RawRow

\* The rows after one of them was released.
LEMMA ReleaseOK ==
    ASSUME RowsTyped, NEW i \in Jobs, NEW st \in States \ {"processing"}
    PROVE  LET rows == [row EXCEPT ![i] = Released(row[i], st)] IN
           /\ rows \in [Jobs -> Row] /\ rows[i].st = st /\ rows[i].attempts = row[i].attempts
           /\ rows[i].owner = None
           /\ \A j \in Jobs : j # i => rows[j] = row[j]
  <1>1. row[i] \in RawRow
    BY DEF RowsTyped, Row
  <1> QED BY <1>1, ReleasedOK DEF RowsTyped

\* Expiry changes only rows whose lease ended, and sends them to retry.
LEMMA ExpiredOK ==
    ASSUME RowsTyped
    PROVE  /\ Expired(row) \in [Jobs -> Row]
           /\ \A j \in Jobs : \/ Expired(row)[j] = row[j]
                              \/ /\ row[j].st = "processing" /\ ~row[j].fresh /\ Takeable(j)
                                 /\ Expired(row)[j].st = "retry" /\ Expired(row)[j].owner = None
                                 /\ Expired(row)[j].attempts = row[j].attempts
  <1>1. \A j \in Jobs : row[j] \in Row /\ row[j] \in RawRow
    BY DEF RowsTyped, Row
  <1>2. ASSUME NEW j \in Jobs
        PROVE  /\ Released(row[j], "retry") \in Row
               /\ Released(row[j], "retry").st = "retry" /\ Released(row[j], "retry").owner = None
               /\ Released(row[j], "retry").attempts = row[j].attempts
    BY <1>1, ReleasedOK DEF States
  <1> QED BY <1>1, <1>2 DEF Expired

\* SetToSeqs lists a finite set, each element once.
LEMMA Listed ==
    ASSUME NEW S, IsFiniteSet(S), NEW n \in SetToSeqs(S)
    PROVE  n \in Seq(S) /\ IsInjective(n) /\ Range(n) = S
  <1> DEFINE D == 1 .. Cardinality(S)
  <1>1. Cardinality(S) \in Nat /\ IsFiniteSet(D) /\ Cardinality(D) = Cardinality(S)
    BY FS_CardinalityType, FS_Interval
  <1>2. n \in [D -> S] /\ IsInjective(n)
    BY DEF SetToSeqs, IsInjective
  <1>3. n \in Surjection(D, S)
    BY <1>1, <1>2, FS_Injection DEF Injection
  <1>4. n \in Seq(S)
    BY <1>1, <1>2
  <1> QED BY <1>2, <1>3, <1>4 DEF Surjection, Range

\* t is s with n put in after the first k.
IsSplice(t, s, n, k) ==
    /\ DOMAIN t = 1 .. Len(s) + Len(n)
    /\ \A i \in 1 .. k : t[i] = s[i]
    /\ \A i \in 1 .. Len(n) : t[k + i] = n[i]
    /\ \A i \in k + 1 .. Len(s) : t[Len(n) + i] = s[i]

\* Where the elements of three sequences are in their concatenation.
LEMMA Concat3 ==
    ASSUME NEW T, NEW a \in Seq(T), NEW n \in Seq(T), NEW b \in Seq(T)
    PROVE  /\ (a \o n) \o b \in Seq(T)
           /\ Len((a \o n) \o b) = Len(a) + Len(n) + Len(b)
           /\ \A i \in 1 .. Len(a) : ((a \o n) \o b)[i] = a[i]
           /\ \A i \in 1 .. Len(n) : ((a \o n) \o b)[Len(a) + i] = n[i]
           /\ \A i \in 1 .. Len(b) : ((a \o n) \o b)[Len(a) + Len(n) + i] = b[i]
  <1> DEFINE u == a \o n
  <1>1. u \in Seq(T) /\ Len(u) = Len(a) + Len(n)
        /\ \A i \in 1 .. Len(a) + Len(n) : u[i] = IF i <= Len(a) THEN a[i] ELSE n[i - Len(a)]
    BY ConcatProperties
  <1>0. u \in Seq(T)
    BY <1>1
  <1> HIDE DEF u
  <1> DEFINE v == u \o b
  <1>2. v \in Seq(T) /\ Len(v) = Len(u) + Len(b)
        /\ \A i \in 1 .. Len(u) + Len(b) : v[i] = IF i <= Len(u) THEN u[i] ELSE b[i - Len(u)]
    BY <1>0, ConcatProperties
  <1> HIDE DEF v
  <1>3. Len(a) \in Nat /\ Len(n) \in Nat /\ Len(b) \in Nat
    OBVIOUS
  <1>4. \A i \in 1 .. Len(a) : v[i] = a[i]
    BY <1>1, <1>2, <1>3
  <1>5. ASSUME NEW i \in 1 .. Len(n) PROVE v[Len(a) + i] = n[i]
    <2>1. Len(a) + i \in 1 .. Len(a) + Len(n) /\ ~(Len(a) + i <= Len(a)) /\ (Len(a) + i) - Len(a) = i
      BY <1>3
    <2>2. u[Len(a) + i] = n[i]
      BY <1>1, <2>1
    <2> QED BY <1>1, <1>2, <1>3, <2>1, <2>2
  <1>6. ASSUME NEW i \in 1 .. Len(b) PROVE v[Len(a) + Len(n) + i] = b[i]
    <2> DEFINE x == Len(a) + Len(n) + i
    <2>1. x \in 1 .. Len(u) + Len(b) /\ ~(x <= Len(u)) /\ x - Len(u) = i
      BY <1>1, <1>3
    <2> HIDE DEF x
    <2>2. v[x] = b[i]
      BY <1>2, <2>1
    <2> QED BY <2>2 DEF x
  <1> QED BY <1>1, <1>2, <1>4, <1>5, <1>6 DEF u, v

\* A sequence cut at a place with another put in between.
LEMMA SpliceOK ==
    ASSUME NEW T, NEW s \in Seq(T), NEW n \in Seq(T), NEW k \in 0 .. Len(s)
    PROVE  LET t == SubSeq(s, 1, k) \o n \o SubSeq(s, k + 1, Len(s)) IN
           t \in Seq(T) /\ IsSplice(t, s, n, k)
  <1> DEFINE a == SubSeq(s, 1, k)
             b == SubSeq(s, k + 1, Len(s))
  <1>1. Len(s) \in Nat /\ Len(n) \in Nat /\ k \in Nat /\ k <= Len(s) /\ \A i \in 1 .. Len(s) : s[i] \in T
    OBVIOUS
  <1>2. a \in Seq(T) /\ Len(a) = k /\ \A i \in 1 .. k : a[i] = s[i]
    BY <1>1, SubSeqProperties
  <1>3. /\ b \in Seq(T) /\ Len(b) = IF k + 1 <= Len(s) THEN Len(s) - (k + 1) + 1 ELSE 0
        /\ \A i \in 1 .. Len(s) - (k + 1) + 1 : b[i] = s[k + 1 + i - 1]
    BY <1>1, SubSeqProperties
  <1> HIDE DEF a, b
  <1>4. Len(b) = Len(s) - k /\ \A i \in 1 .. Len(s) - k : b[i] = s[k + i]
    <2>1. Len(b) = Len(s) - k
      BY <1>1, <1>3
    <2>2. ASSUME NEW i \in 1 .. Len(s) - k PROVE b[i] = s[k + i]
      <3>1. i \in 1 .. Len(s) - (k + 1) + 1 /\ k + 1 + i - 1 = k + i
        BY <1>1
      <3> QED BY <1>3, <3>1
    <2> QED BY <2>1, <2>2
  <1> DEFINE t == (a \o n) \o b
  <1>5. /\ t \in Seq(T) /\ Len(t) = Len(a) + Len(n) + Len(b)
        /\ \A i \in 1 .. Len(a) : t[i] = a[i]
        /\ \A i \in 1 .. Len(n) : t[Len(a) + i] = n[i]
        /\ \A i \in 1 .. Len(b) : t[Len(a) + Len(n) + i] = b[i]
    <2>1. a \in Seq(T) /\ b \in Seq(T)
      BY <1>2, <1>3
    <2> QED BY <2>1, Concat3
  <1> HIDE DEF t
  <1>6. DOMAIN t = 1 .. Len(s) + Len(n)
    <2>1. Len(t) = Len(s) + Len(n)
      BY <1>1, <1>2, <1>4, <1>5
    <2> QED BY <1>5, <2>1, LenProperties
  <1>7. ASSUME NEW i \in k + 1 .. Len(s) PROVE t[Len(n) + i] = s[i]
    <2>1. i - k \in 1 .. Len(b) /\ Len(a) + Len(n) + (i - k) = Len(n) + i /\ k + (i - k) = i
      BY <1>1, <1>2, <1>4
    <2>2. t[Len(a) + Len(n) + (i - k)] = b[i - k] /\ b[i - k] = s[k + (i - k)]
      BY <1>4, <1>5, <2>1
    <2> QED BY <2>1, <2>2
  <1>8. IsSplice(t, s, n, k)
    BY <1>2, <1>5, <1>6, <1>7 DEF IsSplice
  <1> QED BY <1>5, <1>8 DEF t, a, b

\* What is in the list, and that each is there once.
LEMMA Spliced ==
    ASSUME NEW T, NEW s \in Seq(T), NEW n \in Seq(T), NEW k \in 0 .. Len(s),
           IsInjective(s), IsInjective(n), Range(s) \cap Range(n) = {},
           NEW t, IsSplice(t, s, n, k)
    PROVE  IsInjective(t) /\ Range(t) = Range(s) \cup Range(n)
  <1>1. Len(s) \in Nat /\ Len(n) \in Nat /\ k \in Nat /\ k <= Len(s)
    OBVIOUS
  <1>2. DOMAIN s = 1 .. Len(s) /\ DOMAIN n = 1 .. Len(n) /\ DOMAIN t = 1 .. Len(s) + Len(n)
    BY LenProperties DEF IsSplice
  <1>3. ASSUME NEW i \in DOMAIN t
        PROVE  \/ i \in 1 .. k /\ i \in DOMAIN s /\ t[i] = s[i]
               \/ i - k \in DOMAIN n /\ t[i] = n[i - k]
               \/ i - Len(n) \in k + 1 .. Len(s) /\ i - Len(n) \in DOMAIN s /\ t[i] = s[i - Len(n)]
    <2>1. i \in Nat /\ 1 <= i /\ i <= Len(s) + Len(n)
      BY <1>1, <1>2
    <2>2. CASE i <= k
      BY <1>1, <1>2, <2>1, <2>2 DEF IsSplice
    <2>3. CASE k < i /\ i <= k + Len(n)
      <3>1. i - k \in 1 .. Len(n) /\ k + (i - k) = i
        BY <1>1, <2>1, <2>3
      <3>2. t[k + (i - k)] = n[i - k]
        BY <3>1 DEF IsSplice
      <3> QED BY <1>2, <3>1, <3>2
    <2>4. CASE k + Len(n) < i
      <3>1. i - Len(n) \in k + 1 .. Len(s) /\ Len(n) + (i - Len(n)) = i /\ i - Len(n) \in 1 .. Len(s)
        BY <1>1, <2>1, <2>4
      <3>2. t[Len(n) + (i - Len(n))] = s[i - Len(n)]
        BY <3>1 DEF IsSplice
      <3> QED BY <1>2, <3>1, <3>2
    <2> QED BY <1>1, <2>1, <2>2, <2>3, <2>4
  <1>4. \A i \in DOMAIN s, j \in DOMAIN n : s[i] # n[j]
    BY DEF Range
  <1>5. ASSUME NEW i \in DOMAIN t, NEW j \in DOMAIN t, t[i] = t[j]
        PROVE  i = j
    <2>1. i \in Nat /\ j \in Nat
      BY <1>1, <1>2
    <2>2. CASE i - k \in DOMAIN n /\ t[i] = n[i - k]
      <3>1. j - k \in DOMAIN n /\ t[j] = n[j - k]
        BY <1>3, <1>4, <1>5, <2>2
      <3>2. i - k = j - k
        BY <1>5, <2>2, <3>1 DEF IsInjective
      <3> QED BY <1>1, <2>1, <3>2
    <2>3. CASE i \in 1 .. k /\ i \in DOMAIN s /\ t[i] = s[i]
      <3>1. CASE j \in DOMAIN s /\ t[j] = s[j]
        BY <1>5, <2>3, <3>1 DEF IsInjective
      <3>2. CASE j - Len(n) \in k + 1 .. Len(s) /\ j - Len(n) \in DOMAIN s /\ t[j] = s[j - Len(n)]
        <4>1. i = j - Len(n)
          BY <1>5, <2>3, <3>2 DEF IsInjective
        <4> QED BY <1>1, <2>1, <2>3, <3>2, <4>1
      <3> QED BY <1>3, <1>4, <1>5, <2>3, <3>1, <3>2
    <2>4. CASE i - Len(n) \in k + 1 .. Len(s) /\ i - Len(n) \in DOMAIN s /\ t[i] = s[i - Len(n)]
      <3>1. CASE j \in 1 .. k /\ j \in DOMAIN s /\ t[j] = s[j]
        <4>1. j = i - Len(n)
          BY <1>5, <2>4, <3>1 DEF IsInjective
        <4> QED BY <1>1, <2>1, <2>4, <3>1, <4>1
      <3>2. CASE j - Len(n) \in DOMAIN s /\ t[j] = s[j - Len(n)]
        <4>1. i - Len(n) = j - Len(n)
          BY <1>5, <2>4, <3>2 DEF IsInjective
        <4> QED BY <1>1, <2>1, <4>1
      <3> QED BY <1>3, <1>4, <1>5, <2>4, <3>1, <3>2
    <2> QED BY <1>3, <2>2, <2>3, <2>4
  <1>6. Range(t) \subseteq Range(s) \cup Range(n)
    BY <1>3 DEF Range
  <1>7. ASSUME NEW i \in DOMAIN s PROVE s[i] \in Range(t)
    <2>1. i \in Nat /\ 1 <= i /\ i <= Len(s)
      BY <1>1, <1>2
    <2>2. CASE i <= k
      BY <1>1, <1>2, <2>1, <2>2 DEF IsSplice, Range
    <2>3. CASE k < i
      <3>1. i \in k + 1 .. Len(s) /\ Len(n) + i \in DOMAIN t
        BY <1>1, <1>2, <2>1, <2>3
      <3> QED BY <3>1 DEF IsSplice, Range
    <2> QED BY <1>1, <2>1, <2>2, <2>3
  <1>8. ASSUME NEW i \in DOMAIN n PROVE n[i] \in Range(t)
    <2>1. i \in 1 .. Len(n) /\ k + i \in DOMAIN t
      BY <1>1, <1>2
    <2> QED BY <2>1 DEF IsSplice, Range
  <1> QED BY <1>5, <1>6, <1>7, <1>8 DEF Range, IsInjective

\* New rows in the order of created_at.
LEMMA PlacedOK ==
    ASSUME line \in Seq(Jobs), IsInjective(line),
           NEW S \in SUBSET Jobs, IsFiniteSet(S), S \cap Range(line) = {}, NEW t \in Placed(S)
    PROVE  t \in Seq(Jobs) /\ IsInjective(t) /\ Range(t) = Range(line) \cup S
  <1>1. \E n \in SetToSeqs(S), k \in 0 .. Len(line) :
                t = SubSeq(line, 1, k) \o n \o SubSeq(line, k + 1, Len(line))
    <2> DEFINE Spl(n, k) == SubSeq(line, 1, k) \o n \o SubSeq(line, k + 1, Len(line))
               K == IF "skew" \in Disturbances THEN 0 .. Len(line) ELSE {Len(line)}
    <2>1. Placed(S) = {Spl(n, k) : n \in SetToSeqs(S), k \in K}
      BY DEF Placed
    <2>2. Len(line) \in 0 .. Len(line)
      OBVIOUS
    <2>3. K \subseteq 0 .. Len(line)
      BY <2>2
    <2> HIDE DEF Spl, K
    <2>4. \E n \in SetToSeqs(S), k \in K : t = Spl(n, k)
      BY <2>1
    <2>5. \E n \in SetToSeqs(S), k \in 0 .. Len(line) : t = Spl(n, k)
      BY <2>3, <2>4
    <2> QED BY <2>5 DEF Spl
  <1>2. PICK n \in SetToSeqs(S), k \in 0 .. Len(line) :
                t = SubSeq(line, 1, k) \o n \o SubSeq(line, k + 1, Len(line))
    BY <1>1
  <1>3. n \in Seq(S) /\ IsInjective(n) /\ Range(n) = S
    BY Listed
  <1>4. n \in Seq(Jobs)
    BY <1>3, SeqMonotonic
  <1>5. Range(line) \cap Range(n) = {}
    BY <1>3
  <1>6. t \in Seq(Jobs) /\ IsSplice(t, line, n, k)
    BY <1>2, <1>4, SpliceOK
  <1>7. IsInjective(t) /\ Range(t) = Range(line) \cup Range(n)
    BY <1>3, <1>4, <1>5, <1>6, Spliced
  <1> QED BY <1>3, <1>6, <1>7

\* Without skew they come last, and the others keep their order.
LEMMA PlacedLast ==
    ASSUME line \in Seq(Jobs), IsInjective(line), "skew" \notin Disturbances,
           NEW S \in SUBSET Jobs, IsFiniteSet(S), S \cap Range(line) = {}, line' \in Placed(S)
    PROVE  \A i, j \in Jobs : (j \in Range(line) /\ Before(i, j)') => i \in Range(line) /\ Before(i, j)
  <1>1. PICK n \in SetToSeqs(S) :
                line' = SubSeq(line, 1, Len(line)) \o n \o SubSeq(line, Len(line) + 1, Len(line))
    BY DEF Placed
  <1>2. n \in Seq(S) /\ IsInjective(n) /\ Range(n) = S
    BY Listed
  <1>3. n \in Seq(Jobs) /\ Len(line) \in Nat /\ Len(n) \in Nat
    BY <1>2, SeqMonotonic
  <1>4. SubSeq(line, 1, Len(line)) = line /\ SubSeq(line, Len(line) + 1, Len(line)) = << >>
    BY <1>3, SubSeqFull, SubSeqEmpty
  <1>5. line \o n \in Seq(Jobs)
    BY <1>3, ConcatProperties
  <1>6. line' = line \o n
    BY <1>1, <1>4, <1>5, ConcatEmptySeq
  <1>7. /\ DOMAIN line' = 1 .. Len(line) + Len(n) /\ DOMAIN line = 1 .. Len(line)
        /\ DOMAIN n = 1 .. Len(n)
        /\ \A i \in 1 .. Len(line) + Len(n) :
              line'[i] = IF i <= Len(line) THEN line[i] ELSE n[i - Len(line)]
    BY <1>3, <1>6, ConcatProperties
  <1>8. ASSUME NEW i \in Jobs, NEW j \in Jobs, j \in Range(line), Before(i, j)'
        PROVE  i \in Range(line) /\ Before(i, j)
    <2>1. PICK a \in DOMAIN line', b \in DOMAIN line' : a < b /\ line'[a] = i /\ line'[b] = j
      BY <1>8 DEF Before
    <2>2. b <= Len(line)
      <3>1. CASE b > Len(line)
        <4>1. b - Len(line) \in DOMAIN n /\ line'[b] = n[b - Len(line)]
          BY <1>3, <1>7, <3>1
        <4>2. j \in S
          BY <1>2, <2>1, <4>1 DEF Range
        <4> QED BY <1>8, <4>2
      <3> QED BY <1>3, <1>7, <3>1
    <2>3. a \in DOMAIN line /\ b \in DOMAIN line /\ line[a] = i /\ line[b] = j
      BY <1>3, <1>7, <2>1, <2>2
    <2> QED BY <2>1, <2>3 DEF Before, Range
  <1> QED BY <1>8

\* The order is one: of two rows one was created before the other.
LEMMA LineTotal ==
    ASSUME LineTyped, NEW i \in Jobs, NEW j \in Jobs, i # j,
           row[i].st # "absent", row[j].st # "absent"
    PROVE  Before(i, j) \/ Before(j, i)
  <1>1. i \in Range(line) /\ j \in Range(line) /\ line \in Seq(Jobs)
    BY DEF LineTyped
  <1>2. PICK a \in DOMAIN line, b \in DOMAIN line : line[a] = i /\ line[b] = j
    BY <1>1 DEF Range
  <1>3. a \in Nat /\ b \in Nat /\ a # b
    BY <1>1, <1>2
  <1> QED BY <1>2, <1>3 DEF Before

\* rows in place of the rows there were, and new ones.
LEMMA InsertOK ==
    ASSUME OutboxAssumption, RowsTyped, LineTyped, NEW rows \in [Jobs -> Row],
           \A j \in Jobs : rows[j].st = "absent" <=> row[j].st = "absent",
           NEW S \in SUBSET Jobs, IsFiniteSet(S), \A j \in S : rows[j].st = "absent",
           Insert(rows, S)
    PROVE  /\ RowsTyped' /\ LineTyped'
           /\ \A j \in S : row'[j].st = "pending" /\ row'[j].attempts = rows[j].attempts
           /\ \A j \in Jobs \ S : row'[j] = rows[j]
           /\ S \cap Range(line) = {} /\ line' \in Placed(S)
  <1>1. row' = [j \in Jobs |-> IF j \in S THEN [rows[j] EXCEPT !.st = "pending"] ELSE rows[j]]
    BY DEF Insert
  <1>2. \A j \in S : [rows[j] EXCEPT !.st = "pending"] \in Row
    BY DEF Row, RawRow, States
  <1>3. \A j \in S : /\ [rows[j] EXCEPT !.st = "pending"].st = "pending"
                     /\ [rows[j] EXCEPT !.st = "pending"].attempts = rows[j].attempts
    BY DEF Row, RawRow
  <1>4. row' \in [Jobs -> Row]
    BY <1>1, <1>2
  <1>5. /\ \A j \in S : row'[j].st = "pending" /\ row'[j].attempts = rows[j].attempts
        /\ \A j \in Jobs \ S : row'[j] = rows[j]
    BY <1>1, <1>3
  <1>6. S \cap Range(line) = {} /\ line' \in Placed(S)
    BY DEF LineTyped, Insert
  <1>7. line' \in Seq(Jobs) /\ IsInjective(line') /\ Range(line') = Range(line) \cup S
    BY <1>6, PlacedOK DEF LineTyped
  <1>8. LineTyped'
    BY <1>5, <1>7 DEF LineTyped
  <1> QED BY <1>4, <1>5, <1>6, <1>8 DEF RowsTyped

\* The settlements that are due.
LEMMA UnsettledOK ==
    ASSUME OutboxAssumption, NEW rows, NEW M \in SUBSET Messages
    PROVE  /\ Unsettled(rows, M) \in SUBSET Jobs /\ IsFiniteSet(Unsettled(rows, M))
           /\ \A j \in Unsettled(rows, M) : /\ Kind(j) = "settlement" /\ rows[j].st = "absent"
                                            /\ Msg(j) \in M /\ Settled(rows, Msg(j))
  <1> DEFINE N == {n \in M : Settled(rows, n) /\ rows[<<"settlement", n>>].st = "absent"}
             f(m) == <<"settlement", m>>
  <1>1. Unsettled(rows, M) = {f(m) : m \in N}
    BY DEF Unsettled
  <1>2. IsFiniteSet(N)
    BY Bounds, FS_Subset
  <1>3. IsFiniteSet(Unsettled(rows, M))
    <2> DEFINE g == [m \in N |-> f(m)]
    <2>1. g \in Surjection(N, Unsettled(rows, M))
      BY <1>1 DEF Surjection
    <2> HIDE DEF N, g
    <2> QED BY <1>2, <2>1, FS_Surjection
  <1>4. ASSUME NEW j \in Unsettled(rows, M)
        PROVE  /\ j \in Jobs /\ Kind(j) = "settlement" /\ rows[j].st = "absent"
               /\ Msg(j) \in M /\ Settled(rows, Msg(j))
    <2>1. PICK m \in M : /\ Settled(rows, m) /\ rows[<<"settlement", m>>].st = "absent"
                         /\ j = <<"settlement", m>>
      BY <1>1
    <2>2. m \in Messages
      BY <2>1
    <2>3. /\ <<"settlement", m>> \in Jobs /\ Kind(<<"settlement", m>>) = "settlement"
          /\ Msg(<<"settlement", m>>) = m
      BY <2>2, JobsOK
    <2> QED BY <2>1, <2>3
  <1> QED BY <1>3, <1>4

-----------------------------------------------------------------------------
(* What becomes of a row in a step.                                         *)

\* The assumption of Takeable is made.
NoLate == "late" \notin Disturbances

\* When a row is created: an effect by its pipeline's job, a settlement once all has ended.
Created(j) ==
    \/ Kind(j) = "pipeline"
    \/ /\ Kind(j) \in Layers /\ row[<<"pipeline", Msg(j)>>].st = "processing"
       /\ found'[Msg(j)] # None /\ Kind(j) \in found'[Msg(j)]
    \/ Kind(j) = "settlement" /\ Settled(row', Msg(j))

Same(j) == row'[j].st = row[j].st /\ row'[j].owner = row[j].owner /\ row'[j].attempts = row[j].attempts
New(j)  == row[j].st = "absent" /\ row'[j].st = "pending" /\ row'[j].attempts = row[j].attempts /\ Created(j)
Back(j, st) == row[j].st = "processing" /\ row'[j].st = st /\ row'[j].attempts = row[j].attempts
Lapsed(j)   == row[j].st = "processing" /\ ~row[j].fresh /\ Takeable(j)
Claimed(j, w) ==
    /\ worker[w].pc = "free"
    /\ row[j].st \in {"pending", "retry"} \/ Lapsed(j)
    /\ row'[j].st = "processing" /\ row'[j].owner = w /\ row'[j].attempts = row[j].attempts + 1
    /\ row'[j].fresh /\ worker'[w].job = j
Deferred(j, w) ==
    /\ worker[w].pc = "ready" /\ worker[w].job = j /\ row[j].st = "processing" /\ row[j].owner = w
    /\ row'[j].st = "retry" /\ row'[j].attempts = row[j].attempts - 1
Succeeded(j, w) ==
    worker[w].pc = "done" /\ worker[w].job = j /\ row[j].owner = w /\ Back(j, "succeeded")
Failed(j, w) ==
    /\ worker[w].pc = "failing" /\ worker[w].job = j /\ worker'[w].pc = "free"
    /\ Back(j, "quarantined") \/ (Back(j, "retry") /\ row[j].attempts < MaxAttempts)
Lost(j, w) ==
    /\ row[j].owner = w /\ worker'[w].pc = "down" /\ faults' = faults + 1
    /\ \/ worker[w].pc # "failing" /\ Back(j, "retry")
       \/ Back(j, "processing")

Fate(j) ==
    \/ Same(j) \/ New(j)
    \/ Lapsed(j) /\ Back(j, "retry")
    \/ \E w \in Workers : Claimed(j, w) \/ Deferred(j, w) \/ Succeeded(j, w) \/ Failed(j, w) \/ Lost(j, w)

\* A worker that is about to record a failure still has its row, and has read it.
FailingOwns ==
    \A w \in Workers : worker[w].pc = "failing" =>
        /\ row[worker[w].job].st = "processing" /\ row[worker[w].job].owner = w
        /\ worker[w].tries = row[worker[w].job].attempts

RowsGo == RowsTyped' /\ LineTyped' /\ \A j \in Jobs : Fate(j)

\* Same rows present, none new.
LEMMA RowsGoOn ==
    ASSUME LineTyped, row' \in [Jobs -> Row], line' = line,
           \A j \in Jobs : Fate(j) /\ (row'[j].st = "absent" <=> row[j].st = "absent")
    PROVE  RowsGo
  BY DEF RowsGo, RowsTyped, LineTyped

\* The settlements of M join the rows.
LEMMA SettlementsJoin ==
    ASSUME OutboxAssumption, RowsTyped, LineTyped, NEW rows \in [Jobs -> Row], NEW M \in SUBSET Messages,
           \A j \in Jobs : rows[j] = row[j] \/ (row[j].st = "processing" /\ rows[j].st \in Done),
           \A j \in Jobs : (row[j].st # "absent" /\ rows[j] # row[j] /\ row'[j] = rows[j]) => Fate(j),
           Insert(rows, Unsettled(rows, M))
    PROVE  /\ RowsGo
           /\ \A j \in Jobs : row[j].st # "absent" => row'[j] = rows[j]
  <1> DEFINE S == Unsettled(rows, M)
  <1>1. /\ S \in SUBSET Jobs /\ IsFiniteSet(S)
        /\ \A j \in S : /\ Kind(j) = "settlement" /\ rows[j].st = "absent"
                        /\ Msg(j) \in Messages /\ Settled(rows, Msg(j))
    BY UnsettledOK
  <1>2. \A j \in Jobs : rows[j].st = "absent" <=> row[j].st = "absent"
    BY DEF Done
  <1> HIDE DEF S
  <1>3. /\ RowsTyped' /\ LineTyped'
        /\ \A j \in S : row'[j].st = "pending" /\ row'[j].attempts = rows[j].attempts
        /\ \A j \in Jobs \ S : row'[j] = rows[j]
    BY <1>1, <1>2, InsertOK DEF S
  <1>4. ASSUME NEW j \in S PROVE Settled(row', Msg(j))
    <2>1. \A i \in EffectsOf(Msg(j)) : i \in Jobs \ S
      BY <1>1 DEF EffectsOf
    <2>2. <<"pipeline", Msg(j)>> \in Jobs \ S
      BY <1>1, JobsOK
    <2> QED BY <1>1, <1>3, <2>1, <2>2 DEF Settled
  <1>5. ASSUME NEW j \in Jobs PROVE Fate(j)
    <2>1. CASE j \in S
      <3>1. rows[j] = row[j] /\ row[j].st = "absent"
        BY <1>1, <1>2, <2>1
      <3>2. New(j)
        BY <1>1, <1>3, <1>4, <2>1, <3>1 DEF New, Created
      <3> QED BY <3>2 DEF Fate
    <2>2. CASE j \notin S /\ rows[j] = row[j]
      BY <1>3, <2>2 DEF Fate, Same
    <2>3. CASE j \notin S /\ rows[j] # row[j]
      <3>1. row[j].st = "processing" /\ row'[j] = rows[j]
        BY <1>3, <2>3
      <3> QED BY <2>3, <3>1
    <2> QED BY <2>1, <2>2, <2>3
  <1> QED BY <1>1, <1>2, <1>3, <1>5 DEF RowsGo

\* The rows are well formed, in one order, and go their way.
LEMMA RowsStep ==
    ASSUME OutboxAssumption, NoLate, Typed, FailingOwns, Next
    PROVE  RowsGo
  <1>1. ASSUME NEW m \in Messages, Enqueue(m) PROVE RowsGo
    <2> DEFINE i == <<"pipeline", m>>
               S == {i}
    <2>0. i \in Jobs /\ Kind(i) = "pipeline"
      BY JobsOK
    <2>a. Insert(row, S) /\ row[i].st = "absent"
      BY <1>1 DEF Enqueue
    <2> HIDE DEF i
    <2>1. /\ S \in SUBSET Jobs /\ IsFiniteSet(S) /\ Insert(row, S)
          /\ \A j \in S : row[j].st = "absent" /\ Kind(j) = "pipeline"
      BY <2>0, <2>a, FS_Singleton
    <2> HIDE DEF S
    <2>2. /\ RowsTyped' /\ LineTyped'
          /\ \A j \in S : row'[j].st = "pending" /\ row'[j].attempts = row[j].attempts
          /\ \A j \in Jobs \ S : row'[j] = row[j]
      BY <2>1, InsertOK DEF Typed, RowsTyped
    <2>3. \A j \in Jobs : Same(j) \/ New(j)
      BY <2>1, <2>2 DEF Same, New, Created
    <2> QED BY <2>2, <2>3 DEF RowsGo, Fate
  <1>2. ASSUME NEW w \in Workers, NEW j \in Jobs, ClaimNext(w, j) PROVE RowsGo
    <2> DEFINE rows == Expired(row)
               x == [st |-> "processing", owner |-> w, fresh |-> TRUE, attempts |-> rows[j].attempts + 1]
    <2>1. /\ rows \in [Jobs -> Row]
          /\ \A i \in Jobs : \/ rows[i] = row[i]
                             \/ /\ Lapsed(i) /\ rows[i].st = "retry" /\ rows[i].owner = None
                                /\ rows[i].attempts = row[i].attempts
      BY ExpiredOK DEF Typed, Lapsed
    <2>2. /\ rows[j].st \in {"pending", "retry"} /\ row' = [rows EXCEPT ![j] = x] /\ line' = line
          /\ worker[w].pc = "free" /\ worker'[w].job = j
      BY <1>2 DEF ClaimNext, At, FreeWorker, Typed, WorkersTyped
    <2> HIDE DEF rows
    <2>3. x \in Row /\ x.st = "processing" /\ x.owner = w /\ x.attempts = rows[j].attempts + 1 /\ x.fresh
      BY <2>1 DEF Row, RawRow, States
    <2> HIDE DEF x
    <2>4. row' \in [Jobs -> Row] /\ row'[j] = x /\ \A i \in Jobs : i # j => row'[i] = rows[i]
      BY <2>1, <2>2, <2>3
    <2>5. Claimed(j, w)
      BY <2>1, <2>2, <2>3, <2>4 DEF Claimed
    <2>6. ASSUME NEW i \in Jobs, i # j PROVE Same(i) \/ (Lapsed(i) /\ Back(i, "retry"))
      BY <2>1, <2>4, <2>6 DEF Same, Lapsed, Back
    <2>7. \A i \in Jobs : Fate(i)
      BY <2>5, <2>6 DEF Fate
    <2>8. \A i \in Jobs : row'[i].st = "absent" <=> row[i].st = "absent"
      BY <2>1, <2>2, <2>3, <2>4 DEF Lapsed
    <2> QED BY <2>2, <2>4, <2>7, <2>8, RowsGoOn DEF Typed
  <1>3. ASSUME NEW w \in Workers, Defer(w) PROVE RowsGo
    <2> DEFINE j == worker[w].job
               x == [Released(row[j], "retry") EXCEPT !.attempts = row[j].attempts - 1]
    <2>1. j \in Jobs /\ row[j] \in Row /\ row[j] \in RawRow /\ line' = line /\ worker[w].pc = "ready"
      BY <1>3 DEF Defer, At, Typed, RowsTyped, Row, WorkersTyped, Hand
    <2>2. CASE Owns(w)
      <3>1. row[j].st = "processing" /\ row[j].owner = w /\ row[j].attempts \in Nat \ {0}
        BY <2>1, <2>2 DEF Owns, Row, RawRow
      <3>2. /\ Released(row[j], "retry") \in Row /\ Released(row[j], "retry").st = "retry"
            /\ Released(row[j], "retry").owner = None
            /\ Released(row[j], "retry").attempts = row[j].attempts
        BY <2>1, ReleasedOK DEF States
      <3>3. x \in Row /\ x.st = "retry" /\ x.attempts = row[j].attempts - 1
        BY <3>1, <3>2 DEF Row, RawRow
      <3>4. row' = [row EXCEPT ![j] = x]
        BY <1>3, <2>2, <3>2 DEF Defer
      <3> HIDE DEF x
      <3>5. row' \in [Jobs -> Row] /\ row'[j] = x /\ \A i \in Jobs : i # j => row'[i] = row[i]
        BY <2>1, <3>3, <3>4 DEF Typed, RowsTyped
      <3>6. Deferred(j, w) /\ \A i \in Jobs : i # j => Same(i)
        BY <2>1, <3>1, <3>3, <3>5 DEF Deferred, Same
      <3>7. \A i \in Jobs : Fate(i)
        BY <3>6 DEF Fate
      <3> QED BY <2>1, <3>1, <3>3, <3>5, <3>7, RowsGoOn DEF Typed
    <2>3. CASE ~Owns(w)
      <3>1. row' = row
        BY <1>3, <2>3 DEF Defer
      <3> QED BY <2>1, <3>1, RowsGoOn DEF Typed, RowsTyped, Fate, Same
    <2> QED BY <2>2, <2>3
  <1>4. ASSUME NEW w \in Workers, FinishSuccess(w) PROVE RowsGo
    <2> DEFINE j == worker[w].job
               rows == [row EXCEPT ![j] = Released(row[j], "succeeded")]
    <2>1. /\ j \in Jobs /\ row[j].st = "processing" /\ row[j].owner = w /\ Msg(j) \in Messages
          /\ worker[w].pc = "done"
      BY <1>4, JobOK DEF FinishSuccess, At, Owns, Typed, FailingOwns, WorkersTyped, Hand
    <2>2. Insert(rows, Unsettled(rows, {Msg(j)}))
      BY <1>4 DEF FinishSuccess, JoinSettlement
    <2>3. /\ rows \in [Jobs -> Row] /\ rows[j].st = "succeeded" /\ rows[j].attempts = row[j].attempts
          /\ \A i \in Jobs : i # j => rows[i] = row[i]
      BY <2>1, ReleaseOK DEF Typed, States, Done
    <2> HIDE DEF rows
    <2>4. \A i \in Jobs : rows[i] = row[i] \/ (row[i].st = "processing" /\ rows[i].st \in Done)
      BY <2>1, <2>3 DEF Done
    <2>5. {Msg(j)} \in SUBSET Messages
      BY <2>1
    <2>6. row'[j] = rows[j] => Succeeded(j, w)
      BY <2>1, <2>3 DEF Back, Succeeded
    <2>7. \A i \in Jobs : (row[i].st # "absent" /\ rows[i] # row[i] /\ row'[i] = rows[i]) => Fate(i)
      BY <2>3, <2>6 DEF Fate
    <2> QED BY <2>2, <2>3, <2>4, <2>5, <2>7, SettlementsJoin DEF Typed
  <1>5. ASSUME NEW w \in Workers, RecordFailure(w) PROVE RowsGo
    <2> DEFINE j == worker[w].job
               rows == [row EXCEPT ![j] = Released(row[j], "quarantined")]
    <2>1. /\ j \in Jobs /\ row[j].st = "processing" /\ row[j].owner = w /\ Msg(j) \in Messages
          /\ worker[w].pc = "failing"
      BY <1>5, JobOK DEF RecordFailure, At, Owns, Typed, FailingOwns, WorkersTyped, Hand
    <2>a. worker'[w].pc = "free"
      BY <1>5 DEF RecordFailure, Freed, FreeWorker, Typed, WorkersTyped
    <2>b. worker[w].tries = row[j].attempts
      BY <2>1 DEF FailingOwns
    <2>c. CASE worker[w].tries >= MaxAttempts
      <3>2. Insert(rows, Unsettled(rows, {Msg(j)}))
        BY <1>5, <2>c DEF RecordFailure, JoinAfterFailure, JoinSettlement
      <3>3. /\ rows \in [Jobs -> Row] /\ rows[j].st = "quarantined" /\ rows[j].attempts = row[j].attempts
            /\ \A i \in Jobs : i # j => rows[i] = row[i]
        BY <2>1, ReleaseOK DEF Typed, States, Done
      <3> HIDE DEF rows
      <3>4. \A i \in Jobs : rows[i] = row[i] \/ (row[i].st = "processing" /\ rows[i].st \in Done)
        BY <2>1, <3>3 DEF Done
      <3>5. {Msg(j)} \in SUBSET Messages
        BY <2>1
      <3>6. row'[j] = rows[j] => Failed(j, w)
        BY <2>1, <3>3, <2>a DEF Back, Failed
      <3>7. \A i \in Jobs : (row[i].st # "absent" /\ rows[i] # row[i] /\ row'[i] = rows[i]) => Fate(i)
        BY <3>3, <3>6 DEF Fate
      <3> QED BY <3>2, <3>3, <3>4, <3>5, <3>7, SettlementsJoin DEF Typed
    <2>d. CASE ~(worker[w].tries >= MaxAttempts)
      <3> DEFINE back == [row EXCEPT ![j] = Released(row[j], "retry")]
      <3>1. row' = back /\ line' = line
        BY <1>5, <2>d DEF RecordFailure
      <3>2. /\ back \in [Jobs -> Row] /\ back[j].st = "retry" /\ back[j].attempts = row[j].attempts
            /\ \A i \in Jobs : i # j => back[i] = row[i]
        BY <2>1, ReleaseOK DEF Typed, States, Done
      <3> HIDE DEF back
      <3>3. row[j].attempts \in Nat /\ row[j].attempts < MaxAttempts
        BY <2>1, <2>b, <2>d, Bounds DEF Typed, RowsTyped, Row, RawRow
      <3>4. Failed(j, w) /\ \A i \in Jobs : i # j => Same(i)
        BY <2>1, <2>a, <3>1, <3>2, <3>3 DEF Failed, Back, Same
      <3>5. \A i \in Jobs : Fate(i)
        BY <3>4 DEF Fate
      <3> QED BY <2>1, <3>1, <3>2, <3>5, RowsGoOn DEF Typed
    <2> QED BY <2>c, <2>d
  <1>6. ASSUME NEW w \in Workers, Start(w) PROVE RowsGo
    <2>1. Insert(row, Unsettled(row, Messages))
      BY <1>6 DEF Start
    <2> QED BY <2>1, SettlementsJoin DEF Typed, RowsTyped
  <1>7. ASSUME NEW w \in Workers, Renew(w) PROVE RowsGo
    <2> DEFINE j == worker[w].job
               x == [row[j] EXCEPT !.fresh = TRUE]
    <2>1. j \in Jobs /\ row[j] \in Row /\ row' = [row EXCEPT ![j] = x] /\ line' = line
      BY <1>7 DEF Renew, At, Owns, Typed, RowsTyped, WorkersTyped, Hand
    <2>2. x \in Row /\ x.st = row[j].st /\ x.owner = row[j].owner /\ x.attempts = row[j].attempts
      BY <2>1 DEF Row, RawRow
    <2> HIDE DEF x
    <2>3. row' \in [Jobs -> Row] /\ \A i \in Jobs : Same(i)
      BY <2>1, <2>2 DEF Typed, RowsTyped, Same
    <2> QED BY <2>1, <2>3, RowsGoOn DEF Typed, Fate, Same
  <1>8. ASSUME NEW w \in Workers, Crash(w) PROVE RowsGo
    <2>1. line' = line /\ row' = [j \in Jobs |-> IF row[j].owner = w THEN [row[j] EXCEPT !.owner = None]
                                                   ELSE row[j]]
      BY <1>8 DEF Crash
    <2>2. worker'[w].pc = "down" /\ faults' = faults + 1
      BY <1>8 DEF Crash, Down, Fault, FreeWorker, Typed, WorkersTyped
    <2>3. ASSUME NEW j \in Jobs
          PROVE  /\ row[j] \in Row /\ [row[j] EXCEPT !.owner = None] \in Row
                 /\ [row[j] EXCEPT !.owner = None].st = row[j].st
                 /\ [row[j] EXCEPT !.owner = None].attempts = row[j].attempts
                 /\ row[j].owner = w => row[j].st = "processing"
      <3>1. row[j] \in Row
        BY DEF Typed, RowsTyped
      <3> QED BY <3>1, Bounds DEF Row, RawRow
    <2>4. row' \in [Jobs -> Row]
      BY <2>1, <2>3
    <2>5. \A j \in Jobs : Lost(j, w) \/ Same(j)
      BY <2>1, <2>2, <2>3 DEF Lost, Back, Same
    <2>6. \A j \in Jobs : Fate(j)
      BY <2>5 DEF Fate
    <2> QED BY <2>1, <2>3, <2>4, <2>6, RowsGoOn DEF Typed
  <1>9. ASSUME NEW w \in Workers, Stop(w) PROVE RowsGo
    <2>1. line' = line /\ row' = [j \in Jobs |-> IF row[j].owner = w THEN Released(row[j], "retry")
                                                   ELSE row[j]]
      BY <1>9 DEF Stop
    <2>2. worker'[w].pc = "down" /\ worker[w].pc # "failing" /\ faults' = faults + 1
      BY <1>9 DEF Stop, Down, Fault, FreeWorker, Typed, WorkersTyped
    <2>3. ASSUME NEW j \in Jobs
          PROVE  /\ row[j] \in Row /\ Released(row[j], "retry") \in Row
                 /\ Released(row[j], "retry").st = "retry"
                 /\ Released(row[j], "retry").attempts = row[j].attempts
                 /\ row[j].owner = w => row[j].st = "processing"
      <3>1. row[j] \in Row /\ row[j] \in RawRow
        BY DEF Typed, RowsTyped, Row
      <3>2. /\ Released(row[j], "retry") \in Row /\ Released(row[j], "retry").st = "retry"
            /\ Released(row[j], "retry").attempts = row[j].attempts
        BY <3>1, ReleasedOK DEF States
      <3> QED BY <3>1, <3>2, Bounds DEF Row
    <2>4. row' \in [Jobs -> Row]
      BY <2>1, <2>3
    <2>5. \A j \in Jobs : Lost(j, w) \/ Same(j)
      BY <2>1, <2>2, <2>3 DEF Lost, Back, Same
    <2>6. \A j \in Jobs : Fate(j)
      BY <2>5 DEF Fate
    <2> QED BY <2>1, <2>3, <2>4, <2>6, RowsGoOn DEF Typed
  <1>10. ASSUME NEW w \in Workers, NEW x \in SUBSET Layers, Checkpoint(w, x) PROVE
    RowsGo
    <2> DEFINE c == worker[w].job
               m == Msg(c)
               all == Extracted(m, x)
               S == {j \in all \X {m} : row[j].st = "absent"}
    <2>1. /\ c \in Jobs /\ Kind(c) = "pipeline" /\ row[c].st = "processing" /\ Insert(row, S)
      BY <1>10 DEF Checkpoint, At, Owns, Typed, WorkersTyped, Hand
    <2>2. m \in Messages /\ c = <<"pipeline", m>>
      BY <2>1, JobOK
    <2>3. all \in SUBSET Layers
      <3>1. found[m] \in (SUBSET Layers) \cup {None} /\ x \in SUBSET Layers
        BY <1>10, <2>2 DEF Typed, FoundTyped
      <3> QED BY <3>1 DEF Extracted
    <2>4. IsFiniteSet(S)
      <3>1. IsFiniteSet(all) /\ IsFiniteSet({m})
        BY <2>3, Bounds, FS_Subset, FS_Singleton
      <3>2. IsFiniteSet(all \X {m})
        BY <3>1, FS_Product
      <3> QED BY <3>2, FS_Subset
    <2> HIDE DEF all, m
    <2>5. ASSUME NEW j \in S
          PROVE  /\ j \in Jobs /\ row[j].st = "absent" /\ Kind(j) \in Layers /\ Msg(j) = m
                 /\ Kind(j) \in all
                 /\ row[<<"pipeline", Msg(j)>>].st = "processing"
      <3>0. j \in all \X {m} /\ row[j].st = "absent"
        OBVIOUS
      <3>a. j = <<j[1], j[2]>> /\ j[1] \in all /\ j[2] = m
        BY <3>0
      <3>1. PICK l \in Layers : l \in all /\ j = <<l, m>>
        BY <2>3, <3>a
      <3>2. j \in Jobs /\ Kind(j) = l /\ Msg(j) = m
        BY <2>2, <3>1, JobsOK
      <3> QED BY <2>1, <2>2, <3>0, <3>1, <3>2
    <2> HIDE DEF S
    <2>6. /\ RowsTyped' /\ LineTyped'
          /\ \A j \in S : row'[j].st = "pending" /\ row'[j].attempts = row[j].attempts
          /\ \A j \in Jobs \ S : row'[j] = row[j]
      <3>1. S \in SUBSET Jobs /\ \A j \in S : row[j].st = "absent"
        BY <2>5
      <3> QED BY <2>1, <2>4, <3>1, InsertOK DEF Typed, RowsTyped
    <2>7. found'[m] = all /\ all # None
      BY <1>10, <2>2, <2>3, Bounds DEF Checkpoint, Typed, FoundTyped, all, m
    <2>8. \A j \in Jobs : Same(j) \/ New(j)
      BY <2>5, <2>6, <2>7 DEF Same, New, Created
    <2> QED BY <2>6, <2>8 DEF RowsGo, Fate
  <1>11. ASSUME NEW j \in Jobs, LeaseExpires(j) PROVE RowsGo
    <2> DEFINE x == [row[j] EXCEPT !.fresh = FALSE]
    <2>1. row[j] \in Row /\ row' = [row EXCEPT ![j] = x] /\ line' = line
      BY <1>11 DEF LeaseExpires, Typed, RowsTyped
    <2>2. x \in Row /\ x.st = row[j].st /\ x.owner = row[j].owner /\ x.attempts = row[j].attempts
      BY <2>1 DEF Row, RawRow
    <2> HIDE DEF x
    <2>3. row' \in [Jobs -> Row] /\ \A i \in Jobs : Same(i)
      BY <2>1, <2>2 DEF Typed, RowsTyped, Same
    <2> QED BY <2>1, <2>3, RowsGoOn DEF Typed, Fate, Same
  <1>12. ASSUME NEW m \in Messages, SaveMessage(m)
       PROVE  UNCHANGED <<row, line>>
    BY <1>12 DEF SaveMessage, world
  <1>13. ASSUME NEW w \in Workers, Begin(w) \/ LeaseLost(w) \/ WriteProfile(w) \/
    TakeTurn(w) \/ EndTurn(w) \/ ReadFacts(w) \/ FinishLost(w) \/ FinishFailure(w) \/
    Raises(w) \/ HeartbeatFails(w)
       PROVE  UNCHANGED <<row, line>>
    BY <1>13 DEF Begin, Goto, world, LeaseLost, Interrupted, Freed, LeaveLane,
      WriteProfile, TakeTurn, EndTurn, ReadFacts, FinishLost, FinishFailure, Raises,
      HeartbeatFails, Fault
  <1>14. ASSUME NEW w \in Workers, NEW e \in Entries, Replayed(w, e)
       PROVE  UNCHANGED <<row, line>>
    BY <1>14 DEF Replayed, Confirm, world
  <1>15. ASSUME NEW w \in Workers, NEW e \in Entries, NEW s \in SUBSET Receipts,
    WriteRule(w, e, s)
       PROVE  UNCHANGED <<row, line>>
    BY <1>15 DEF WriteRule, Confirm, world
  <1>16. ASSUME UNCHANGED <<row, line>> PROVE RowsGo
    BY <1>16, RowsGoOn DEF Typed, RowsTyped, Fate, Same
  <1>17. QED
    BY <1>1, <1>2, <1>3, <1>4, <1>5, <1>6, <1>7, <1>8, <1>9, <1>10, <1>11, <1>12,
      <1>13, <1>14, <1>15, <1>16 DEF Next, WorkerStep


\* A row comes into being once, for its cause, and stays as it ended.
LEMMA RowsStay ==
    ASSUME RowsTyped, NEW j \in Jobs, Fate(j)
    PROVE  /\ row[j].st # "absent" => row'[j].st # "absent"
           /\ row[j].st \in Done => row'[j].st = row[j].st
           /\ (row[j].st = "absent" /\ row'[j].st # "absent") => Created(j)
           /\ (row'[j].st \in Done /\ row[j].st \notin Done) => row[j].st = "processing"
           /\ row'[j].st = "absent" => row[j].st = "absent" /\ Same(j)
  BY DEF RowsTyped, Row, Fate, Same, New, Back, Lapsed, Claimed, Deferred, Succeeded, Failed, Lost, Done

-----------------------------------------------------------------------------
(* The types are kept.                                                      *)

RowsRemain == \A j \in Jobs : row[j].st # "absent" => row'[j].st # "absent"

\* The worker goes on to h; the lane follows its turn.
LEMMA WorkerGoes ==
    ASSUME OutboxAssumption, WorkersTyped, RowsRemain, NEW w \in Workers, NEW h \in Hand,
           worker' = [worker EXCEPT ![w] = h],
           h.pc \notin {"free", "down"} => h.job \in Jobs /\ row'[h.job].st # "absent",
           h.pc \in {"free", "down"} => h.job = None,
           h.pc = "turn" => Kind(h.job) = "L2" /\ lane \in {None, w} /\ lane' = w,
           h.pc # "turn" => lane' = (IF lane = w THEN None ELSE lane)
    PROVE  WorkersTyped'
  <1>1. worker' \in [Workers -> Hand] /\ worker'[w] = h
        /\ \A v \in Workers : v # w => worker'[v] = worker[v]
    BY DEF WorkersTyped
  <1>2. None \notin Workers
    BY Bounds
  <1>3. lane' \in Workers \cup {None}
    BY DEF WorkersTyped
  <1>4. ASSUME NEW v \in Workers
        PROVE  /\ worker'[v].pc \notin {"free", "down"} =>
                     worker'[v].job \in Jobs /\ row'[worker'[v].job].st # "absent"
               /\ worker'[v].pc \in {"free", "down"} => worker'[v].job = None
               /\ worker'[v].pc = "turn" => Kind(worker'[v].job) = "L2"
    BY <1>1 DEF WorkersTyped, RowsRemain
  <1>5. ASSUME NEW v \in Workers PROVE lane' = v <=> worker'[v].pc = "turn"
    <2>1. CASE v = w
      BY <1>1, <1>2, <2>1 DEF WorkersTyped
    <2>2. CASE v # w
      BY <1>1, <1>2, <2>2 DEF WorkersTyped
    <2> QED BY <2>1, <2>2
  <1> QED BY <1>1, <1>3, <1>4, <1>5 DEF WorkersTyped

\* A worker that is free, one that has claimed a job, one that is down.
LEMMA FreeOK ==
    ASSUME OutboxAssumption
    PROVE  /\ FreeWorker \in Hand /\ FreeWorker.pc = "free" /\ FreeWorker.job = None
           /\ FreeWorker.rule = 1 /\ FreeWorker.confirmed = {} /\ FreeWorker.tries = 0
           /\ FreeWorker.facts = None
           /\ \A j \in Jobs : [FreeWorker EXCEPT !.pc = "claimed", !.job = j] \in Hand
           /\ [FreeWorker EXCEPT !.pc = "down"] \in Hand
  <1>1. 1 \in 1 .. Rules + 1 /\ 0 \in Nat
    BY Bounds
  <1>2. {} \in SUBSET (Entries \X (1 .. Rules))
    OBVIOUS
  <1>3. FreeWorker \in Hand
    BY <1>1, <1>2 DEF FreeWorker, Hand
  <1>4. \A j \in Jobs : [FreeWorker EXCEPT !.pc = "claimed", !.job = j] \in Hand
    BY <1>3 DEF Hand
  <1>5. [FreeWorker EXCEPT !.pc = "down"] \in Hand
    BY <1>3 DEF Hand
  <1> QED BY <1>3, <1>4, <1>5 DEF FreeWorker

\* What a message is known by are facts.
LEMMA FactsOK ==
    ASSUME NEW m \in Messages
    PROVE  FactsOf(m) \in Facts
  <1>1. (\E j \in EffectsOf(m) : row[j].st = "quarantined") \in BOOLEAN
    OBVIOUS
  <1>2. {l \in Layers : row[<<l, m>>].st = "succeeded"} \in SUBSET Layers
    OBVIOUS
  <1> QED BY <1>1, <1>2 DEF FactsOf, Facts

\* The pc of a worker with a job, which it keeps.
LEMMA GotoOK ==
    ASSUME OutboxAssumption, WorkersTyped, RowsRemain, NEW w \in Workers, NEW pc,
           pc \in {"claimed", "ready", "turn", "done", "failed", "failing"},
           worker[w].pc \notin {"free", "down"},
           worker' = [worker EXCEPT ![w].pc = pc],
           pc = "turn" => Kind(worker[w].job) = "L2" /\ lane \in {None, w} /\ lane' = w,
           pc # "turn" => lane' = (IF lane = w THEN None ELSE lane)
    PROVE  WorkersTyped'
  <1> DEFINE h == [worker[w] EXCEPT !.pc = pc]
  <1>1. worker[w] \in Hand /\ worker[w].job \in Jobs /\ row[worker[w].job].st # "absent"
    BY DEF WorkersTyped
  <1>2. h \in Hand /\ h.pc = pc /\ h.job = worker[w].job /\ worker' = [worker EXCEPT ![w] = h]
    BY <1>1 DEF Hand
  <1> HIDE DEF h
  <1>3. row'[h.job].st # "absent"
    BY <1>1, <1>2 DEF RowsRemain
  <1> QED BY <1>1, <1>2, <1>3, WorkerGoes

\* A worker is rid of its job.
LEMMA FreedOK ==
    ASSUME OutboxAssumption, WorkersTyped, RowsRemain, NEW w \in Workers, NEW h,
           h \in {FreeWorker, [FreeWorker EXCEPT !.pc = "down"]},
           worker' = [worker EXCEPT ![w] = h],
           lane' = (IF lane = w THEN None ELSE lane)
    PROVE  WorkersTyped'
  <1>1. h \in Hand /\ h.pc \in {"free", "down"} /\ h.job = None
    BY FreeOK DEF FreeWorker
  <1> QED BY <1>1, WorkerGoes

\* A rule is confirmed.
LEMMA ConfirmOK ==
    ASSUME OutboxAssumption, WorkersTyped, RowsRemain, NEW w \in Workers, NEW e \in Entries,
           worker[w].pc = "turn", worker[w].rule <= Rules, Confirm(w, e), lane' = lane
    PROVE  WorkersTyped'
  <1> DEFINE h == [worker[w] EXCEPT !.rule = worker[w].rule + 1,
                                    !.confirmed = worker[w].confirmed \cup {<<e, worker[w].rule>>}]
  <1>0. worker[w] \in Hand /\ worker[w].job \in Jobs /\ row[worker[w].job].st # "absent"
        /\ lane = w /\ Kind(worker[w].job) = "L2"
    BY DEF WorkersTyped
  <1>a. worker' = [worker EXCEPT ![w].rule = @ + 1, ![w].confirmed = @ \cup {<<e, worker[w].rule>>}]
    BY DEF Confirm
  <1>b. worker' = [worker EXCEPT ![w] = h]
    BY <1>0, <1>a DEF WorkersTyped, Hand
  <1>1. worker[w] \in Hand /\ worker[w].job \in Jobs /\ row[worker[w].job].st # "absent"
        /\ lane = w /\ Kind(worker[w].job) = "L2" /\ worker' = [worker EXCEPT ![w] = h]
    BY <1>0, <1>b
  <1>2. worker[w].rule \in 1 .. Rules /\ worker[w].rule + 1 \in 1 .. Rules + 1
    BY <1>1, Bounds DEF Hand
  <1>3. worker[w].confirmed \cup {<<e, worker[w].rule>>} \in SUBSET (Entries \X (1 .. Rules))
    BY <1>1, <1>2 DEF Hand
  <1>4. h \in Hand /\ h.pc = "turn" /\ h.job = worker[w].job
    BY <1>1, <1>2, <1>3 DEF Hand
  <1> HIDE DEF h
  <1>5. row'[h.job].st # "absent"
    BY <1>1, <1>4 DEF RowsRemain
  <1> QED BY <1>1, <1>4, <1>5, WorkerGoes

\* Workers.
LEMMA WorkersStep ==
    ASSUME OutboxAssumption, NoLate, Typed, RowsRemain, Next
    PROVE  WorkersTyped'
  <1>1. ASSUME NEW w \in Workers, NEW j \in Jobs, ClaimNext(w, j) PROVE WorkersTyped'
    <2> DEFINE h == [FreeWorker EXCEPT !.pc = "claimed", !.job = j]
    <2>1. worker[w].pc = "free" /\ worker' = [worker EXCEPT ![w] = h] /\ lane' = lane /\ lane # w
      BY <1>1 DEF ClaimNext, At, Typed, WorkersTyped
    <2>2. row'[j].st # "absent"
      BY <1>1, ExpiredOK DEF ClaimNext, Typed
    <2>3. h \in Hand /\ h.pc = "claimed" /\ h.job = j
      BY FreeOK DEF FreeWorker
    <2> HIDE DEF h
    <2> QED BY <2>1, <2>2, <2>3, WorkerGoes DEF Typed
  <1>2. ASSUME NEW w \in Workers, Begin(w) PROVE WorkersTyped'
    <2>1. /\ worker[w].pc = "claimed" /\ worker' = [worker EXCEPT ![w].pc = "ready"] /\ lane' = lane
          /\ lane # w
      BY <1>2 DEF Begin, At, Goto, Typed, WorkersTyped
    <2> QED BY <2>1, GotoOK DEF Typed
  <1>3. ASSUME NEW w \in Workers, LeaseLost(w) PROVE WorkersTyped'
    <2>1. worker' = [worker EXCEPT ![w] = FreeWorker] /\ lane' = (IF lane = w THEN None ELSE lane)
      BY <1>3 DEF LeaseLost, Interrupted, Freed, LeaveLane
    <2> QED BY <2>1, FreedOK DEF Typed
  <1>4. ASSUME NEW w \in Workers, WriteProfile(w) PROVE WorkersTyped'
    <2>1. /\ worker[w].pc = "ready" /\ worker' = [worker EXCEPT ![w].pc = "done"] /\ lane' = lane
          /\ lane # w
      BY <1>4 DEF WriteProfile, At, Goto, Typed, WorkersTyped
    <2> QED BY <2>1, GotoOK DEF Typed
  <1>5. ASSUME NEW w \in Workers, TakeTurn(w) PROVE WorkersTyped'
    <2>1. /\ worker[w].pc = "ready" /\ worker' = [worker EXCEPT ![w].pc = "turn"] /\ lane' = w
          /\ lane = None /\ Kind(worker[w].job) = "L2"
      BY <1>5 DEF TakeTurn, At, Goto
    <2> QED BY <2>1, GotoOK DEF Typed
  <1>6. ASSUME NEW w \in Workers, Defer(w) PROVE WorkersTyped'
    <2>1. worker[w].pc # "turn" /\ lane' = lane /\ worker' = [worker EXCEPT ![w] = FreeWorker]
      BY <1>6 DEF Defer, Freed, At
    <2>2. lane # w
      BY <2>1 DEF Typed, WorkersTyped
    <2> QED BY <2>1, <2>2, FreedOK DEF Typed
  <1>7. ASSUME NEW w \in Workers, EndTurn(w) PROVE WorkersTyped'
    <2>1. /\ worker[w].pc = "turn" /\ worker' = [worker EXCEPT ![w].pc = "done"]
          /\ lane' = (IF lane = w THEN None ELSE lane)
      BY <1>7 DEF EndTurn, At, Goto, LeaveLane
    <2> QED BY <2>1, GotoOK DEF Typed
  <1>8. ASSUME NEW w \in Workers, ReadFacts(w) PROVE WorkersTyped'
    <2> DEFINE f == FactsOf(Msg(worker[w].job))
               h == [worker[w] EXCEPT !.pc = "done", !.facts = f]
    <2>1. worker[w].pc = "ready" /\ worker' = [worker EXCEPT ![w] = h] /\ lane' = lane /\ lane # w
      BY <1>8 DEF ReadFacts, At, Typed, WorkersTyped
    <2>2. worker[w] \in Hand /\ worker[w].job \in Jobs /\ row[worker[w].job].st # "absent"
      BY <2>1 DEF Typed, WorkersTyped
    <2>3. f \in Facts
      BY <2>2, JobOK, FactsOK
    <2> HIDE DEF f
    <2>4. h \in Hand /\ h.pc = "done" /\ h.job = worker[w].job
      BY <2>2, <2>3 DEF Hand
    <2> HIDE DEF h
    <2>5. row'[h.job].st # "absent"
      BY <2>2, <2>4 DEF RowsRemain
    <2> QED BY <2>1, <2>2, <2>4, <2>5, WorkerGoes DEF Typed
  <1>9. ASSUME NEW w \in Workers, FinishSuccess(w) PROVE WorkersTyped'
    <2>1. worker[w].pc # "turn" /\ lane' = lane /\ worker' = [worker EXCEPT ![w] = FreeWorker]
      BY <1>9 DEF FinishSuccess, Freed, At
    <2>2. lane # w
      BY <2>1 DEF Typed, WorkersTyped
    <2> QED BY <2>1, <2>2, FreedOK DEF Typed
  <1>10. ASSUME NEW w \in Workers, FinishLost(w) PROVE WorkersTyped'
    <2>1. worker[w].pc # "turn" /\ lane' = lane /\ worker' = [worker EXCEPT ![w] = FreeWorker]
      BY <1>10 DEF FinishLost, Freed, At
    <2>2. lane # w
      BY <2>1 DEF Typed, WorkersTyped
    <2> QED BY <2>1, <2>2, FreedOK DEF Typed
  <1>11. ASSUME NEW w \in Workers, FinishFailure(w) PROVE WorkersTyped'
    <2> DEFINE n == row[worker[w].job].attempts
               h == [worker[w] EXCEPT !.pc = "failing", !.tries = n]
    <2>0. /\ worker[w].pc = "failed" /\ lane' = lane /\ lane # w
          /\ worker' = [worker EXCEPT ![w].pc = "failing", ![w].tries = n]
      BY <1>11 DEF FinishFailure, At, Typed, WorkersTyped
    <2>2. worker[w] \in Hand /\ worker[w].job \in Jobs /\ row[worker[w].job].st # "absent"
      BY <2>0 DEF Typed, WorkersTyped
    <2>3. n \in Nat
      BY <2>2 DEF Typed, RowsTyped, Row, RawRow
    <2> HIDE DEF n
    <2>a. worker \in [Workers -> Hand]
      BY DEF Typed, WorkersTyped
    <2>b. worker' = [worker EXCEPT ![w] = h]
      BY <2>0, <2>2, <2>a DEF Hand
    <2>1. worker[w].pc = "failed" /\ worker' = [worker EXCEPT ![w] = h] /\ lane' = lane /\ lane # w
      BY <2>0, <2>b
    <2>4. h \in Hand /\ h.pc = "failing" /\ h.job = worker[w].job
      BY <2>2, <2>3 DEF Hand
    <2> HIDE DEF h
    <2>5. row'[h.job].st # "absent"
      BY <2>2, <2>4 DEF RowsRemain
    <2> QED BY <2>1, <2>2, <2>4, <2>5, WorkerGoes DEF Typed
  <1>12. ASSUME NEW w \in Workers, RecordFailure(w) PROVE WorkersTyped'
    <2>1. worker[w].pc # "turn" /\ lane' = lane /\ worker' = [worker EXCEPT ![w] = FreeWorker]
      BY <1>12 DEF RecordFailure, Freed, At
    <2>2. lane # w
      BY <2>1 DEF Typed, WorkersTyped
    <2> QED BY <2>1, <2>2, FreedOK DEF Typed
  <1>13. ASSUME NEW w \in Workers, Start(w) PROVE WorkersTyped'
    <2>1. worker[w].pc # "turn" /\ lane' = lane /\ worker' = [worker EXCEPT ![w] = FreeWorker]
      BY <1>13 DEF Start, Freed, At
    <2>2. lane # w
      BY <2>1 DEF Typed, WorkersTyped
    <2> QED BY <2>1, <2>2, FreedOK DEF Typed
  <1>14. ASSUME NEW w \in Workers, Raises(w) PROVE WorkersTyped'
    <2>1. /\ worker[w].pc \in {"ready", "turn", "done"} /\ worker' = [worker EXCEPT ![w].pc = "failed"]
          /\ lane' = (IF lane = w THEN None ELSE lane)
      BY <1>14 DEF Raises, At, Goto, LeaveLane
    <2> QED BY <2>1, GotoOK DEF Typed
  <1>15. ASSUME NEW w \in Workers, HeartbeatFails(w) PROVE WorkersTyped'
    <2>1. worker' = [worker EXCEPT ![w] = FreeWorker] /\ lane' = (IF lane = w THEN None ELSE lane)
      BY <1>15 DEF HeartbeatFails, Interrupted, Freed, LeaveLane
    <2> QED BY <2>1, FreedOK DEF Typed
  <1>16. ASSUME NEW w \in Workers, Crash(w) PROVE WorkersTyped'
    <2>1. /\ worker' = [worker EXCEPT ![w] = [FreeWorker EXCEPT !.pc = "down"]]
          /\ lane' = (IF lane = w THEN None ELSE lane)
      BY <1>16 DEF Crash, Down, LeaveLane
    <2> QED BY <2>1, FreedOK DEF Typed
  <1>17. ASSUME NEW w \in Workers, Stop(w) PROVE WorkersTyped'
    <2>1. /\ worker' = [worker EXCEPT ![w] = [FreeWorker EXCEPT !.pc = "down"]]
          /\ lane' = (IF lane = w THEN None ELSE lane)
      BY <1>17 DEF Stop, Down, LeaveLane
    <2> QED BY <2>1, FreedOK DEF Typed
  <1>18. ASSUME NEW w \in Workers, NEW x \in SUBSET Layers, Checkpoint(w, x) PROVE
    WorkersTyped'
    <2>1. /\ worker[w].pc = "ready" /\ worker' = [worker EXCEPT ![w].pc = "done"] /\ lane' = lane
          /\ lane # w
      BY <1>18 DEF Checkpoint, At, Goto, Typed, WorkersTyped
    <2> QED BY <2>1, GotoOK DEF Typed
  <1>19. ASSUME NEW w \in Workers, NEW e \in Entries, Replayed(w, e) PROVE
    WorkersTyped'
    <2>1. worker[w].pc = "turn" /\ worker[w].rule <= Rules /\ Confirm(w, e) /\ lane' = lane
      BY <1>19 DEF Replayed, Writing, At
    <2> QED BY <2>1, ConfirmOK DEF Typed
  <1>20. ASSUME NEW w \in Workers, NEW e \in Entries, NEW s \in SUBSET Receipts,
    WriteRule(w, e, s) PROVE WorkersTyped'
    <2>1. worker[w].pc = "turn" /\ worker[w].rule <= Rules /\ Confirm(w, e) /\ lane' = lane
      BY <1>20 DEF WriteRule, Writing, At
    <2> QED BY <2>1, ConfirmOK DEF Typed
  <1>21. ASSUME NEW m \in Messages, Enqueue(m) \/ SaveMessage(m)
       PROVE  UNCHANGED <<worker, lane>>
    BY <1>21 DEF Enqueue, world, SaveMessage
  <1>22. ASSUME NEW w \in Workers, Renew(w)
       PROVE  UNCHANGED <<worker, lane>>
    BY <1>22 DEF Renew, world
  <1>23. ASSUME NEW j \in Jobs, LeaseExpires(j)
       PROVE  UNCHANGED <<worker, lane>>
    BY <1>23 DEF LeaseExpires, Fault, world
  <1>24. ASSUME UNCHANGED <<worker, lane>> PROVE WorkersTyped'
    BY <1>24 DEF Typed, WorkersTyped, RowsRemain
  <1>25. QED
    BY <1>1, <1>2, <1>3, <1>4, <1>5, <1>6, <1>7, <1>8, <1>9, <1>10, <1>11, <1>12,
      <1>13, <1>14, <1>15, <1>16, <1>17, <1>18, <1>19, <1>20, <1>21, <1>22, <1>23,
      <1>24 DEF Next, WorkerStep

\* Without a checkpoint no candidate is added.
LEMMA FoundKept ==
    ASSUME OutboxAssumption, RowsTyped, FoundTyped, RowsGo, found' = found
    PROVE  FoundTyped'
  <1>1. ASSUME NEW n \in Messages, NEW l \in Layers
        PROVE  row'[<<l, n>>].st = "absent" <=> row[<<l, n>>].st = "absent"
    <2>1. <<l, n>> \in Jobs /\ Kind(<<l, n>>) = l /\ Msg(<<l, n>>) = n
      BY JobsOK
    <2>2. Fate(<<l, n>>)
      BY <2>1 DEF RowsGo
    <2>3. Created(<<l, n>>) => found[n] # None /\ l \in found[n]
      BY <2>1, Bounds DEF Created
    <2> QED BY <2>1, <2>2, <2>3, RowsStay DEF FoundTyped
  <1> QED BY <1>1 DEF FoundTyped

\* Candidates: the rows of a turn are those that were found.
LEMMA FoundStep ==
    ASSUME OutboxAssumption, NoLate, Typed, RowsGo, Next
    PROVE  FoundTyped'
  <1>1. ASSUME NEW w \in Workers, NEW x \in SUBSET Layers, Checkpoint(w, x) PROVE
    FoundTyped'
    <2> DEFINE m == Msg(worker[w].job)
    <2>1. worker[w].job \in Jobs /\ m \in Messages /\ row[worker[w].job].st = "processing"
          /\ Kind(worker[w].job) = "pipeline"
      BY <1>1, JobOK DEF Checkpoint, At, Owns, Typed, WorkersTyped
    <2>2. Extracted(m, x) \in SUBSET Layers
      BY <2>1 DEF Extracted, Typed, FoundTyped
    <2>3. found' \in [Messages -> (SUBSET Layers) \cup {None}]
          /\ found'[m] = Extracted(m, x) /\ \A n \in Messages : n # m => found'[n] = found[n]
      BY <1>1, <2>1, <2>2 DEF Checkpoint, Typed, FoundTyped
    <2>4. ASSUME NEW l \in Layers, row'[<<l, m>>].st # "absent"
          PROVE  l \in Extracted(m, x)
      <3>1. <<l, m>> \in Jobs /\ Kind(<<l, m>>) = l /\ Msg(<<l, m>>) = m
        BY <2>1, JobsOK
      <3>2. CASE row[<<l, m>>].st # "absent"
        BY <2>1, <3>2 DEF Extracted, Typed, FoundTyped
      <3>3. CASE row[<<l, m>>].st = "absent"
        <4>1. Created(<<l, m>>)
          BY <2>4, <3>1, <3>3, RowsStay DEF RowsGo, Typed
        <4> QED BY <2>3, <3>1, <4>1, Bounds DEF Created
      <3> QED BY <3>2, <3>3
    <2>5. ASSUME NEW l \in Extracted(m, x) PROVE row'[<<l, m>>].st # "absent"
      <3> DEFINE S == {j \in Extracted(m, x) \X {m} : row[j].st = "absent"}
      <3>1. l \in Layers /\ <<l, m>> \in Jobs
        BY <2>1, <2>2, JobsOK
      <3>2. \A j \in Jobs : row'[j] = IF j \in S THEN [row[j] EXCEPT !.st = "pending"] ELSE row[j]
        BY <1>1 DEF Checkpoint, Insert
      <3>3. CASE row[<<l, m>>].st # "absent"
        BY <3>1, <3>3, RowsStay DEF RowsGo, Typed
      <3>4. CASE row[<<l, m>>].st = "absent"
        <4>1. <<l, m>> \in S /\ row[<<l, m>>] \in Row
          BY <3>1, <3>4 DEF Typed, RowsTyped
        <4>2. [row[<<l, m>>] EXCEPT !.st = "pending"].st = "pending"
          BY <4>1 DEF Row, RawRow
        <4> QED BY <3>1, <3>2, <4>1, <4>2
      <3> QED BY <3>3, <3>4
    <2>6. Extracted(m, x) # None
      BY <2>2, Bounds
    <2> HIDE DEF m
    <2>7. ASSUME NEW n \in Messages, NEW l \in Layers
          PROVE  row'[<<l, n>>].st # "absent" <=> found'[n] # None /\ l \in found'[n]
      <3>1. CASE n = m
        BY <2>3, <2>4, <2>5, <2>6, <3>1
      <3>2. CASE n # m
        <4>1. <<l, n>> \in Jobs /\ Kind(<<l, n>>) = l /\ Msg(<<l, n>>) = n
          BY JobsOK
        <4>2. row'[<<l, n>>].st = "absent" <=> row[<<l, n>>].st = "absent"
          <5>1. Fate(<<l, n>>)
            BY <4>1 DEF RowsGo
          <5>2. found'[n] = found[n]
            BY <2>3, <3>2
          <5>3. Created(<<l, n>>) => found[n] # None /\ l \in found[n]
            BY <4>1, <5>2, Bounds DEF Created
          <5> QED BY <4>1, <5>1, <5>3, RowsStay DEF Typed, FoundTyped
        <4> QED BY <2>3, <3>2, <4>2 DEF Typed, FoundTyped
      <3> QED BY <3>1, <3>2
    <2> QED BY <2>3, <2>7 DEF FoundTyped
  <1>2. ASSUME NEW m \in Messages, Enqueue(m) \/ SaveMessage(m)
       PROVE  UNCHANGED <<found>>
    BY <1>2 DEF Enqueue, world, SaveMessage
  <1>3. ASSUME NEW w \in Workers, NEW j \in Jobs, ClaimNext(w, j)
       PROVE  UNCHANGED <<found>>
    BY <1>3 DEF ClaimNext, world
  <1>4. ASSUME NEW w \in Workers, Begin(w) \/ LeaseLost(w) \/ WriteProfile(w) \/
    TakeTurn(w) \/ Defer(w) \/ EndTurn(w) \/ ReadFacts(w) \/ FinishSuccess(w) \/
    FinishLost(w) \/ FinishFailure(w) \/ RecordFailure(w) \/ Start(w) \/ Raises(w) \/
    Renew(w) \/ HeartbeatFails(w) \/ Crash(w) \/ Stop(w)
       PROVE  UNCHANGED <<found>>
    BY <1>4 DEF Begin, Goto, world, LeaseLost, Interrupted, Freed, LeaveLane,
      WriteProfile, TakeTurn, Defer, EndTurn, ReadFacts, FinishSuccess, FinishLost,
      FinishFailure, RecordFailure, Start, Raises, Renew, HeartbeatFails, Fault,
      Crash, Down, Stop
  <1>5. ASSUME NEW w \in Workers, NEW e \in Entries, Replayed(w, e)
       PROVE  UNCHANGED <<found>>
    BY <1>5 DEF Replayed, Confirm, world
  <1>6. ASSUME NEW w \in Workers, NEW e \in Entries, NEW s \in SUBSET Receipts,
    WriteRule(w, e, s)
       PROVE  UNCHANGED <<found>>
    BY <1>6 DEF WriteRule, Confirm, world
  <1>7. ASSUME NEW j \in Jobs, LeaseExpires(j)
       PROVE  UNCHANGED <<found>>
    BY <1>7 DEF LeaseExpires, Fault, world
  <1>8. ASSUME UNCHANGED <<found>> PROVE FoundTyped'
    BY <1>8, FoundKept DEF Typed
  <1>9. QED
    BY <1>1, <1>2, <1>3, <1>4, <1>5, <1>6, <1>7, <1>8 DEF Next, WorkerStep

\* The receipts kept for a rule are receipts.
LEMMA KeptOK ==
    ASSUME OutboxAssumption, WorkersTyped, NEW w \in Workers, Writing(w), NEW e \in Entries,
           NEW seen \in SUBSET Receipts
    PROVE  Receipt(w) \in Receipts /\ Kept(w, e, seen) \in SUBSET Receipts
  <1>1. worker[w] \in Hand /\ worker[w].job \in Jobs /\ worker[w].rule <= Rules
    BY DEF WorkersTyped, Writing, At
  <1>a. worker[w].rule \in 1 .. Rules + 1
    BY <1>1 DEF Hand
  <1>b. worker[w].rule \in 1 .. Rules
    BY <1>1, <1>a, Bounds
  <1>2. Msg(worker[w].job) \in Messages /\ worker[w].rule \in 1 .. Rules
    BY <1>1, <1>b, JobOK
  <1>3. Receipt(w) \in Receipts
    BY <1>2 DEF Receipt, Receipts
  <1> DEFINE m == Msg(worker[w].job)
             C == {k \in 1 .. Rules : <<e, k>> \in worker[w].confirmed}
  <1>4. {<<m, n>> : n \in C} \subseteq Receipts
    <2>1. m \in Messages /\ C \subseteq 1 .. Rules
      BY <1>2
    <2> HIDE DEF m, C
    <2> QED BY <2>1 DEF Receipts
  <1> QED BY <1>3, <1>4 DEF Kept

\* The external store.
LEMMA StoreStep ==
    ASSUME OutboxAssumption, NoLate, Typed, Next
    PROVE  StoreTyped'
  <1>1. ASSUME NEW w \in Workers, NEW e \in Entries, NEW s \in SUBSET Receipts,
    WriteRule(w, e, s) PROVE StoreTyped'
    <2> DEFINE n == IF applied[Receipt(w)] = 2 THEN 2 ELSE applied[Receipt(w)] + 1
               R == Kept(w, e, s) \cup {Receipt(w)}
    <2>1. Receipt(w) \in Receipts /\ R \in SUBSET Receipts
      BY <1>1, KeptOK DEF WriteRule, Typed
    <2>2. store' = [store EXCEPT ![e] = R] /\ applied' = [applied EXCEPT ![Receipt(w)] = n]
      BY <1>1 DEF WriteRule
    <2>3. n \in 0 .. 2
      BY <2>1 DEF Typed, StoreTyped
    <2> HIDE DEF n, R
    <2> QED BY <2>1, <2>2, <2>3 DEF Typed, StoreTyped
  <1>2. ASSUME NEW m \in Messages, Enqueue(m) \/ SaveMessage(m)
       PROVE  UNCHANGED <<store, applied>>
    BY <1>2 DEF Enqueue, world, SaveMessage
  <1>3. ASSUME NEW w \in Workers, NEW j \in Jobs, ClaimNext(w, j)
       PROVE  UNCHANGED <<store, applied>>
    BY <1>3 DEF ClaimNext, world
  <1>4. ASSUME NEW w \in Workers, Begin(w) \/ LeaseLost(w) \/ WriteProfile(w) \/
    TakeTurn(w) \/ Defer(w) \/ EndTurn(w) \/ ReadFacts(w) \/ FinishSuccess(w) \/
    FinishLost(w) \/ FinishFailure(w) \/ RecordFailure(w) \/ Start(w) \/ Raises(w) \/
    Renew(w) \/ HeartbeatFails(w) \/ Crash(w) \/ Stop(w)
       PROVE  UNCHANGED <<store, applied>>
    BY <1>4 DEF Begin, Goto, world, LeaseLost, Interrupted, Freed, LeaveLane,
      WriteProfile, TakeTurn, Defer, EndTurn, ReadFacts, FinishSuccess, FinishLost,
      FinishFailure, RecordFailure, Start, Raises, Renew, HeartbeatFails, Fault,
      Crash, Down, Stop
  <1>5. ASSUME NEW w \in Workers, NEW x \in SUBSET Layers, Checkpoint(w, x)
       PROVE  UNCHANGED <<store, applied>>
    BY <1>5 DEF Checkpoint, Goto, world
  <1>6. ASSUME NEW w \in Workers, NEW e \in Entries, Replayed(w, e)
       PROVE  UNCHANGED <<store, applied>>
    BY <1>6 DEF Replayed, Confirm, world
  <1>7. ASSUME NEW j \in Jobs, LeaseExpires(j)
       PROVE  UNCHANGED <<store, applied>>
    BY <1>7 DEF LeaseExpires, Fault, world
  <1>8. ASSUME UNCHANGED <<store, applied>> PROVE StoreTyped'
    BY <1>8 DEF Typed, StoreTyped
  <1>9. QED
    BY <1>1, <1>2, <1>3, <1>4, <1>5, <1>6, <1>7, <1>8 DEF Next, WorkerStep

\* Messages, cards and faults.
LEMMA NotesStep ==
    ASSUME OutboxAssumption, NoLate, Typed, Next
    PROVE  (NotesTyped' /\ faults <= faults')
  <1>1. ASSUME NEW m \in Messages, SaveMessage(m) PROVE (NotesTyped' /\ faults <=
    faults')
    BY <1>1 DEF SaveMessage, Typed, NotesTyped
  <1>2. ASSUME NEW w \in Workers, FinishSuccess(w) PROVE (NotesTyped' /\ faults <=
    faults')
    <2>1. worker[w] \in Hand /\ worker[w].job \in Jobs /\ saved' = saved /\ faults' = faults
      BY <1>2 DEF FinishSuccess, At, Typed, WorkersTyped
    <2>2. worker[w].facts \in Facts \cup {None} /\ Msg(worker[w].job) \in Messages
      BY <2>1, JobOK DEF Hand
    <2>3. card' \in [Messages -> Facts \cup {None}]
      BY <1>2, <2>2 DEF FinishSuccess, Typed, NotesTyped
    <2> QED BY <2>1, <2>3 DEF Typed, NotesTyped
  <1>3. ASSUME NEW w \in Workers, HeartbeatFails(w) PROVE (NotesTyped' /\ faults <=
    faults')
    BY <1>3, Bounds DEF HeartbeatFails, Fault, Interrupted, Typed, NotesTyped
  <1>4. ASSUME NEW w \in Workers, Crash(w) PROVE (NotesTyped' /\ faults <= faults')
    BY <1>4, Bounds DEF Crash, Fault, Interrupted, Typed, NotesTyped
  <1>5. ASSUME NEW w \in Workers, Stop(w) PROVE (NotesTyped' /\ faults <= faults')
    BY <1>5, Bounds DEF Stop, Fault, Interrupted, Typed, NotesTyped
  <1>6. ASSUME NEW j \in Jobs, LeaseExpires(j) PROVE (NotesTyped' /\ faults <=
    faults')
    <2>1. saved' = saved /\ card' = card /\ (faults' = faults \/ (faults < MaxFaults /\ faults' = faults + 1))
      BY <1>6 DEF LeaseExpires, Fault
    <2> QED BY <2>1, Bounds DEF Typed, NotesTyped
  <1>7. ASSUME NEW m \in Messages, Enqueue(m)
       PROVE  UNCHANGED <<saved, card, faults>>
    BY <1>7 DEF Enqueue, world
  <1>8. ASSUME NEW w \in Workers, NEW j \in Jobs, ClaimNext(w, j)
       PROVE  UNCHANGED <<saved, card, faults>>
    BY <1>8 DEF ClaimNext, world
  <1>9. ASSUME NEW w \in Workers, Begin(w) \/ LeaseLost(w) \/ WriteProfile(w) \/
    TakeTurn(w) \/ Defer(w) \/ EndTurn(w) \/ ReadFacts(w) \/ FinishLost(w) \/
    FinishFailure(w) \/ RecordFailure(w) \/ Start(w) \/ Raises(w) \/ Renew(w)
       PROVE  UNCHANGED <<saved, card, faults>>
    BY <1>9 DEF Begin, Goto, world, LeaseLost, Interrupted, Freed, LeaveLane,
      WriteProfile, TakeTurn, Defer, EndTurn, ReadFacts, FinishLost, FinishFailure,
      RecordFailure, Start, Raises, Renew
  <1>10. ASSUME NEW w \in Workers, NEW x \in SUBSET Layers, Checkpoint(w, x)
       PROVE  UNCHANGED <<saved, card, faults>>
    BY <1>10 DEF Checkpoint, Goto, world
  <1>11. ASSUME NEW w \in Workers, NEW e \in Entries, Replayed(w, e)
       PROVE  UNCHANGED <<saved, card, faults>>
    BY <1>11 DEF Replayed, Confirm, world
  <1>12. ASSUME NEW w \in Workers, NEW e \in Entries, NEW s \in SUBSET Receipts,
    WriteRule(w, e, s)
       PROVE  UNCHANGED <<saved, card, faults>>
    BY <1>12 DEF WriteRule, Confirm, world
  <1>13. ASSUME UNCHANGED <<saved, card, faults>> PROVE (NotesTyped' /\ faults <= faults')
    BY <1>13 DEF Typed, NotesTyped
  <1>14. QED
    BY <1>1, <1>2, <1>3, <1>4, <1>5, <1>6, <1>7, <1>8, <1>9, <1>10, <1>11, <1>12,
      <1>13 DEF Next, WorkerStep

\* How a worker comes to record a failure.
FailingComes(w) ==
    worker'[w].pc = "failing" =>
        \/ worker[w].pc = "failing" /\ worker'[w].job = worker[w].job /\ worker'[w].tries = worker[w].tries
        \/ /\ Owns(w) /\ row' = row /\ worker'[w].job = worker[w].job
           /\ worker'[w].tries = row[worker[w].job].attempts

\* Only by _finish_failure.
LEMMA FailingAppears ==
    ASSUME OutboxAssumption, NoLate, Typed, Next
    PROVE  \A v \in Workers : FailingComes(v)
  <1>1. ASSUME NEW w \in Workers, NEW j \in Jobs, ClaimNext(w, j) PROVE \A v \in
    Workers : FailingComes(v)
    BY <1>1 DEF ClaimNext, world, FreeWorker, Hand, FailingComes, Typed, WorkersTyped
  <1>2. ASSUME NEW w \in Workers, Begin(w) PROVE \A v \in Workers : FailingComes(v)
    BY <1>2 DEF Begin, Goto, world, FreeWorker, Hand, FailingComes, Typed,
      WorkersTyped
  <1>3. ASSUME NEW w \in Workers, LeaseLost(w) PROVE \A v \in Workers :
    FailingComes(v)
    BY <1>3 DEF LeaseLost, Interrupted, Freed, LeaveLane, world, FreeWorker, Hand,
      FailingComes, Typed, WorkersTyped
  <1>4. ASSUME NEW w \in Workers, WriteProfile(w) PROVE \A v \in Workers :
    FailingComes(v)
    BY <1>4 DEF WriteProfile, Goto, world, FreeWorker, Hand, FailingComes, Typed,
      WorkersTyped
  <1>5. ASSUME NEW w \in Workers, TakeTurn(w) PROVE \A v \in Workers : FailingComes(v)
    BY <1>5 DEF TakeTurn, Goto, world, FreeWorker, Hand, FailingComes, Typed,
      WorkersTyped
  <1>6. ASSUME NEW w \in Workers, Defer(w) PROVE \A v \in Workers : FailingComes(v)
    BY <1>6 DEF Defer, Freed, world, FreeWorker, Hand, FailingComes, Typed,
      WorkersTyped
  <1>7. ASSUME NEW w \in Workers, EndTurn(w) PROVE \A v \in Workers : FailingComes(v)
    BY <1>7 DEF EndTurn, Goto, LeaveLane, world, FreeWorker, Hand, FailingComes,
      Typed, WorkersTyped
  <1>8. ASSUME NEW w \in Workers, ReadFacts(w) PROVE \A v \in Workers :
    FailingComes(v)
    BY <1>8 DEF ReadFacts, world, FreeWorker, Hand, FailingComes, Typed, WorkersTyped
  <1>9. ASSUME NEW w \in Workers, FinishSuccess(w) PROVE \A v \in Workers :
    FailingComes(v)
    BY <1>9 DEF FinishSuccess, Freed, world, FreeWorker, Hand, FailingComes, Typed,
      WorkersTyped
  <1>10. ASSUME NEW w \in Workers, FinishLost(w) PROVE \A v \in Workers :
    FailingComes(v)
    BY <1>10 DEF FinishLost, Freed, world, FreeWorker, Hand, FailingComes, Typed,
      WorkersTyped
  <1>11. ASSUME NEW w \in Workers, FinishFailure(w) PROVE \A v \in Workers :
    FailingComes(v)
    <2> DEFINE n == row[worker[w].job].attempts
    <2>1. /\ Owns(w) /\ row' = row /\ worker' = [worker EXCEPT ![w].pc = "failing", ![w].tries = n]
      BY <1>11 DEF FinishFailure
    <2> HIDE DEF n
    <2>2. worker[w] \in Hand /\ worker \in [Workers -> Hand]
      BY DEF Typed, WorkersTyped
    <2>3. worker'[w].tries = n /\ worker'[w].job = worker[w].job
          /\ \A v \in Workers : v # w => worker'[v] = worker[v]
      BY <2>1, <2>2 DEF Hand
    <2> QED BY <2>1, <2>3 DEF FailingComes, n
  <1>12. ASSUME NEW w \in Workers, RecordFailure(w) PROVE \A v \in Workers :
    FailingComes(v)
    BY <1>12 DEF RecordFailure, Freed, world, FreeWorker, Hand, FailingComes, Typed,
      WorkersTyped
  <1>13. ASSUME NEW w \in Workers, Start(w) PROVE \A v \in Workers : FailingComes(v)
    BY <1>13 DEF Start, Freed, world, FreeWorker, Hand, FailingComes, Typed,
      WorkersTyped
  <1>14. ASSUME NEW w \in Workers, Raises(w) PROVE \A v \in Workers : FailingComes(v)
    BY <1>14 DEF Raises, Goto, LeaveLane, world, FreeWorker, Hand, FailingComes,
      Typed, WorkersTyped
  <1>15. ASSUME NEW w \in Workers, HeartbeatFails(w) PROVE \A v \in Workers :
    FailingComes(v)
    BY <1>15 DEF HeartbeatFails, Interrupted, Freed, LeaveLane, Fault, world,
      FreeWorker, Hand, FailingComes, Typed, WorkersTyped
  <1>16. ASSUME NEW w \in Workers, Crash(w) PROVE \A v \in Workers : FailingComes(v)
    BY <1>16 DEF Crash, Down, Fault, LeaveLane, world, FreeWorker, Hand, FailingComes,
      Typed, WorkersTyped
  <1>17. ASSUME NEW w \in Workers, Stop(w) PROVE \A v \in Workers : FailingComes(v)
    BY <1>17 DEF Stop, Down, Fault, LeaveLane, world, FreeWorker, Hand, FailingComes,
      Typed, WorkersTyped
  <1>18. ASSUME NEW w \in Workers, NEW x \in SUBSET Layers, Checkpoint(w, x) PROVE \A
    v \in Workers : FailingComes(v)
    BY <1>18 DEF Checkpoint, Goto, world, FreeWorker, Hand, FailingComes, Typed,
      WorkersTyped
  <1>19. ASSUME NEW w \in Workers, NEW e \in Entries, Replayed(w, e) PROVE \A v \in
    Workers : FailingComes(v)
    BY <1>19 DEF Replayed, Confirm, world, FreeWorker, Hand, FailingComes, Typed,
      WorkersTyped
  <1>20. ASSUME NEW w \in Workers, NEW e \in Entries, NEW s \in SUBSET Receipts,
    WriteRule(w, e, s) PROVE \A v \in Workers : FailingComes(v)
    BY <1>20 DEF WriteRule, Confirm, world, FreeWorker, Hand, FailingComes, Typed,
      WorkersTyped
  <1>21. ASSUME NEW m \in Messages, Enqueue(m) \/ SaveMessage(m)
       PROVE  UNCHANGED <<worker>>
    BY <1>21 DEF Enqueue, world, SaveMessage
  <1>22. ASSUME NEW w \in Workers, Renew(w)
       PROVE  UNCHANGED <<worker>>
    BY <1>22 DEF Renew, world
  <1>23. ASSUME NEW j \in Jobs, LeaseExpires(j)
       PROVE  UNCHANGED <<worker>>
    BY <1>23 DEF LeaseExpires, Fault, world
  <1>24. ASSUME UNCHANGED <<worker>> PROVE \A v \in Workers : FailingComes(v)
    BY <1>24 DEF FailingComes
  <1>25. QED
    BY <1>1, <1>2, <1>3, <1>4, <1>5, <1>6, <1>7, <1>8, <1>9, <1>10, <1>11, <1>12,
      <1>13, <1>14, <1>15, <1>16, <1>17, <1>18, <1>19, <1>20, <1>21, <1>22, <1>23,
      <1>24 DEF Next, WorkerStep

\* With the assumption of Takeable nobody else has touched its row by then.
LEMMA FailingStep ==
    ASSUME OutboxAssumption, NoLate, Typed, FailingOwns, RowsGo, WorkersTyped', Next
    PROVE  FailingOwns'
  <1> SUFFICES ASSUME NEW w \in Workers, worker'[w].pc = "failing"
               PROVE  /\ row'[worker'[w].job].st = "processing" /\ row'[worker'[w].job].owner = w
                      /\ worker'[w].tries = row'[worker'[w].job].attempts
    BY DEF FailingOwns
  <1>1. FailingComes(w)
    BY FailingAppears
  <1>2. CASE worker[w].pc = "failing" /\ worker'[w].job = worker[w].job /\ worker'[w].tries = worker[w].tries
    <2> DEFINE j == worker[w].job
    <2>1. /\ j \in Jobs /\ row[j].st = "processing" /\ row[j].owner = w
          /\ worker[w].tries = row[j].attempts
      BY <1>2 DEF FailingOwns, Typed, WorkersTyped
    <2>2. Fate(j)
      BY <2>1 DEF RowsGo
    <2>3. ~Takeable(j)
      BY <1>2 DEF NoLate, Takeable, Failing, At
    <2>4. ~New(j) /\ ~Lapsed(j)
      BY <2>1, <2>3 DEF New, Lapsed
    <2>5. ASSUME NEW v \in Workers
          PROVE  ~Claimed(j, v) /\ ~Deferred(j, v) /\ ~Succeeded(j, v) /\ ~Failed(j, v) /\ ~Lost(j, v)
      <3>1. ~Claimed(j, v)
        BY <2>1, <2>4 DEF Claimed
      <3>2. ~Deferred(j, v) /\ ~Succeeded(j, v) /\ ~Lost(j, v)
        BY <1>2, <2>1 DEF Deferred, Succeeded, Lost
      <3>3. Failed(j, v) => v = w
        BY <2>1 DEF Failed, FailingOwns
      <3>4. ~Failed(j, v)
        BY <3>3 DEF Failed
      <3> QED BY <3>1, <3>2, <3>4
    <2>6. Same(j)
      BY <2>2, <2>4, <2>5 DEF Fate
    <2> QED BY <1>2, <2>1, <2>6 DEF Same
  <1>3. CASE /\ Owns(w) /\ row' = row /\ worker'[w].job = worker[w].job
             /\ worker'[w].tries = row[worker[w].job].attempts
    BY <1>3 DEF Owns
  <1> QED BY <1>1, <1>2, <1>3 DEF FailingComes

TypedI == Typed /\ FailingOwns

\* An empty outbox has its types.
LEMMA TypedInit == ASSUME OutboxAssumption, Init PROVE TypedI
  <1>1. [st |-> "absent", attempts |-> 0, owner |-> None, fresh |-> FALSE] \in Row
    BY DEF Row, RawRow, States
  <1>2. RowsTyped
    BY <1>1 DEF Init, RowsTyped
  <1>3. LineTyped
    BY DEF Init, LineTyped, IsInjective, Range
  <1>4. FoundTyped
    BY JobsOK DEF Init, FoundTyped
  <1>5. WorkersTyped
    BY FreeOK, Bounds DEF Init, WorkersTyped
  <1>6. StoreTyped
    BY DEF Init, StoreTyped
  <1>7. NotesTyped
    BY Bounds DEF Init, NotesTyped
  <1>8. FailingOwns
    BY FreeOK DEF Init, FailingOwns
  <1> QED BY <1>2, <1>3, <1>4, <1>5, <1>6, <1>7, <1>8 DEF Typed, TypedI

\* Every step keeps the types, moves the rows along and forgets no fault.
LEMMA TypedStep ==
    ASSUME OutboxAssumption, NoLate, TypedI, Next
    PROVE  TypedI' /\ RowsGo /\ RowsRemain /\ faults <= faults'
  <1>1. RowsGo
    BY RowsStep DEF TypedI
  <1>2. RowsRemain
    BY <1>1, RowsStay DEF RowsGo, RowsRemain, TypedI, Typed
  <1>3. RowsTyped' /\ LineTyped'
    BY <1>1 DEF RowsGo
  <1>4. FoundTyped' /\ WorkersTyped' /\ StoreTyped' /\ NotesTyped' /\ faults <= faults'
    BY <1>1, <1>2, FoundStep, WorkersStep, StoreStep, NotesStep DEF TypedI
  <1>5. FailingOwns'
    BY <1>1, <1>4, FailingStep DEF TypedI
  <1> QED BY <1>1, <1>2, <1>3, <1>4, <1>5 DEF TypedI, Typed

\* So does one that changes nothing.
LEMMA TypedFixed == ASSUME TypedI, UNCHANGED vars PROVE TypedI'
  BY DEF vars, world, TypedI, Typed, FailingOwns, RowsTyped, LineTyped, FoundTyped, WorkersTyped,
         StoreTyped, NotesTyped

\* The types hold along every behaviour in which no heartbeat is late.
LEMMA TypedAlways == ASSUME NoLate PROVE Spec => []TypedI
  <1>1. Init => TypedI
    BY OutboxAssumption, TypedInit
  <1>2. TypedI /\ [Next]_vars => TypedI'
    BY OutboxAssumption, NoLate, TypedStep, TypedFixed
  <1> QED BY <1>1, <1>2, PTL DEF Spec

\* EndedIsFinal: a job that ended does not come back.
THEOREM EndedIsFinalAlways == ASSUME NoLate PROVE Spec => EndedIsFinal
  <1>1. ASSUME TypedI, [Next]_vars, NEW j \in Jobs, row[j].st \in Done
        PROVE  row'[j].st = row[j].st
    <2>1. CASE Next
      <3>1. RowsGo
        BY <2>1, <1>1, OutboxAssumption, NoLate, TypedStep
      <3> QED BY <1>1, <3>1, RowsStay DEF RowsGo, TypedI, Typed
    <2>2. CASE UNCHANGED vars
      BY <2>2 DEF vars
    <2> QED BY <1>1, <2>1, <2>2
  <1>2. TypedI /\ [Next]_vars => [\A j \in Jobs : row[j].st \in Done => row'[j].st = row[j].st]_vars
    BY <1>1
  <1>3. NoLate
    OBVIOUS
  <1> QED BY <1>2, <1>3, TypedAlways, PTL DEF EndedIsFinal, Spec

-----------------------------------------------------------------------------
(* The attempts of a job: one that is worked on under a live lease has used *)
(* up to MaxAttempts of them, any other that may run again one less, and    *)
(* each fault may have cost one more.                                       *)

Live(j) ==
    /\ row[j].st = "processing" /\ row[j].fresh
    /\ row[j].owner # None /\ worker[row[j].owner].job = j

RowBounded(j) ==
    /\ row[j].attempts <= MaxAttempts + faults
    /\ (row[j].st \notin Done /\ ~Live(j)) => row[j].attempts < MaxAttempts + faults

Bounded ==
    /\ \A j \in Jobs : RowBounded(j)
    /\ \A w \in Workers : worker[w].pc # "failing" => worker[w].tries = 0

\* A live lease is kept, unless the job ends or there is a fault.
LeaseKept(j) ==
    (row[j].st = "processing" /\ row[j].fresh) =>
        \/ row'[j].st = "processing" /\ row'[j].fresh /\ row'[j].owner = row[j].owner
        \/ row'[j].st # "processing" \/ faults' = faults + 1 \/ ~Live(j)

\* A worker keeps its job, unless it has lost it, or the job ends, or there is a fault.
JobKept(w) ==
    \/ worker'[w].job = worker[w].job
    \/ ~Owns(w) \/ faults' = faults + 1 \/ row'[worker[w].job].st # "processing"

\* Rows that were there stay as they are when others join.
LEMMA InsertOld ==
    ASSUME NEW rows, NEW new, Insert(rows, new), NEW j \in Jobs, j \notin new
    PROVE  row'[j] = rows[j]
  BY DEF Insert

\* Leases.
LEMMA LeasesKept ==
    ASSUME OutboxAssumption, NoLate, Typed, Next
    PROVE  \A i \in Jobs : LeaseKept(i)
  <1>1. ASSUME NEW m \in Messages, Enqueue(m) PROVE \A i \in Jobs : LeaseKept(i)
    <2>1. ASSUME NEW i \in Jobs, row[i].st = "processing" PROVE row'[i] = row[i]
      <3>1. i # <<"pipeline", m>>
        BY <1>1, <2>1 DEF Enqueue
      <3> QED BY <1>1, <3>1, InsertOld DEF Enqueue
    <2> QED BY <2>1 DEF LeaseKept
  <1>2. ASSUME NEW w \in Workers, NEW j \in Jobs, ClaimNext(w, j) PROVE \A i \in Jobs
    : LeaseKept(i)
    <2> DEFINE rows == Expired(row)
    <2>1. ASSUME NEW i \in Jobs, row[i].st = "processing", row[i].fresh PROVE rows[i] = row[i]
      BY <2>1 DEF Expired
    <2>2. rows \in [Jobs -> Row] /\ rows[j].st \in {"pending", "retry"}
          /\ \A i \in Jobs : i # j => row'[i] = rows[i]
      BY <1>2, ExpiredOK DEF ClaimNext, Typed
    <2> HIDE DEF rows
    <2> QED BY <2>1, <2>2 DEF LeaseKept
  <1>3. ASSUME NEW w \in Workers, Defer(w) PROVE \A i \in Jobs : LeaseKept(i)
    <2> DEFINE j == worker[w].job
               x == [Released(row[j], "retry") EXCEPT !.attempts = row[j].attempts - 1]
    <2>1. j \in Jobs /\ row[j] \in Row /\ (row' = row \/ row' = [row EXCEPT ![j] = x])
      <3>1. j \in Jobs /\ row[j] \in Row
        BY <1>3 DEF Defer, At, Typed, WorkersTyped, RowsTyped
      <3>2. x = [Released(row[j], "retry") EXCEPT !.attempts = @ - 1]
        BY <3>1 DEF Released, Row, RawRow
      <3> QED BY <1>3, <3>1, <3>2 DEF Defer
    <2>2. x.st = "retry"
      BY <2>1 DEF Released, Row, RawRow
    <2> HIDE DEF x
    <2> QED BY <2>1, <2>2 DEF LeaseKept, Typed, RowsTyped
  <1>4. ASSUME NEW w \in Workers, FinishSuccess(w) PROVE \A i \in Jobs : LeaseKept(i)
    <2> DEFINE j == worker[w].job
               rows == [row EXCEPT ![j] = Released(row[j], "succeeded")]
    <2>1. j \in Jobs /\ Msg(j) \in Messages
      BY <1>4, JobOK DEF FinishSuccess, At, Typed, WorkersTyped
    <2>2. rows[j].st = "succeeded" /\ \A i \in Jobs : i # j => rows[i] = row[i]
      BY <2>1, ReleaseOK DEF Typed, States, Done
    <2> HIDE DEF rows
    <2>3. Insert(rows, Unsettled(rows, {Msg(j)}))
      BY <1>4 DEF FinishSuccess, JoinSettlement, rows
    <2>4. ASSUME NEW i \in Jobs, rows[i].st # "absent" PROVE row'[i] = rows[i]
      <3>1. i \notin Unsettled(rows, {Msg(j)})
        BY <2>1, <2>4, UnsettledOK
      <3> QED BY <2>3, <3>1, InsertOld
    <2> QED BY <2>1, <2>2, <2>4 DEF LeaseKept
  <1>5. ASSUME NEW w \in Workers, RecordFailure(w) PROVE \A i \in Jobs : LeaseKept(i)
    <2> DEFINE j == worker[w].job
               rows == [row EXCEPT ![j] = Released(row[j], "quarantined")]
    <2>1. j \in Jobs /\ Msg(j) \in Messages
      BY <1>5, JobOK DEF RecordFailure, At, Typed, WorkersTyped
    <2>2. rows[j].st = "quarantined" /\ \A i \in Jobs : i # j => rows[i] = row[i]
      BY <2>1, ReleaseOK DEF Typed, States, Done
    <2> HIDE DEF rows
    <2>5. CASE worker[w].tries >= MaxAttempts
      <3>3. Insert(rows, Unsettled(rows, {Msg(j)}))
        BY <1>5, <2>5 DEF RecordFailure, JoinAfterFailure, JoinSettlement, rows
      <3>4. ASSUME NEW i \in Jobs, rows[i].st # "absent" PROVE row'[i] = rows[i]
        <4>1. i \notin Unsettled(rows, {Msg(j)})
          BY <2>1, <3>4, UnsettledOK
        <4> QED BY <3>3, <4>1, InsertOld
      <3> QED BY <2>1, <2>2, <3>4 DEF LeaseKept
    <2>6. CASE ~(worker[w].tries >= MaxAttempts)
      <3> DEFINE back == [row EXCEPT ![j] = Released(row[j], "retry")]
      <3>1. row' = back
        BY <1>5, <2>6 DEF RecordFailure
      <3>2. back[j].st = "retry" /\ \A i \in Jobs : i # j => back[i] = row[i]
        BY <2>1, ReleaseOK DEF Typed, States, Done
      <3> HIDE DEF back
      <3> QED BY <3>1, <3>2 DEF LeaseKept
    <2> QED BY <2>5, <2>6
  <1>6. ASSUME NEW w \in Workers, Start(w) PROVE \A i \in Jobs : LeaseKept(i)
    <2>1. ASSUME NEW i \in Jobs, row[i].st = "processing" PROVE row'[i] = row[i]
      <3>1. i \notin Unsettled(row, Messages)
        BY <2>1, UnsettledOK
      <3> QED BY <1>6, <3>1, InsertOld DEF Start
    <2> QED BY <2>1 DEF LeaseKept
  <1>7. ASSUME NEW w \in Workers, Renew(w) PROVE \A i \in Jobs : LeaseKept(i)
    <2>1. worker[w].job \in Jobs /\ row' = [row EXCEPT ![worker[w].job].fresh = TRUE]
      BY <1>7 DEF Renew, At, Owns, Typed, WorkersTyped, Hand
    <2> QED BY <2>1 DEF LeaseKept, Typed, RowsTyped, Row, RawRow
  <1>8. ASSUME NEW w \in Workers, Crash(w) PROVE \A i \in Jobs : LeaseKept(i)
    BY <1>8 DEF Crash, Fault, LeaseKept
  <1>9. ASSUME NEW w \in Workers, Stop(w) PROVE \A i \in Jobs : LeaseKept(i)
    BY <1>9 DEF Stop, Fault, LeaseKept
  <1>10. ASSUME NEW w \in Workers, NEW x \in SUBSET Layers, Checkpoint(w, x) PROVE \A
    i \in Jobs : LeaseKept(i)
    <2>1. ASSUME NEW i \in Jobs, row[i].st = "processing" PROVE row'[i] = row[i]
      BY <1>10, <2>1 DEF Checkpoint, Insert
    <2> QED BY <2>1 DEF LeaseKept
  <1>11. ASSUME NEW j \in Jobs, LeaseExpires(j) PROVE \A i \in Jobs : LeaseKept(i)
    <2>1. row[j] \in Row /\ row' = [row EXCEPT ![j].fresh = FALSE]
      BY <1>11 DEF LeaseExpires, Typed, RowsTyped
    <2>2. ASSUME Live(j) PROVE faults' = faults + 1
      BY <1>11, <2>2 DEF LeaseExpires, Live, Fault
    <2>3. \A i \in Jobs : i # j => row'[i] = row[i]
      BY <2>1 DEF Typed, RowsTyped
    <2>4. LeaseKept(j)
      BY <2>2 DEF LeaseKept
    <2> QED BY <2>3, <2>4 DEF LeaseKept
  <1>12. ASSUME NEW m \in Messages, SaveMessage(m)
       PROVE  UNCHANGED <<row>>
    BY <1>12 DEF SaveMessage, world
  <1>13. ASSUME NEW w \in Workers, Begin(w) \/ LeaseLost(w) \/ WriteProfile(w) \/
    TakeTurn(w) \/ EndTurn(w) \/ ReadFacts(w) \/ FinishLost(w) \/ FinishFailure(w) \/
    Raises(w) \/ HeartbeatFails(w)
       PROVE  UNCHANGED <<row>>
    BY <1>13 DEF Begin, Goto, world, LeaseLost, Interrupted, Freed, LeaveLane,
      WriteProfile, TakeTurn, EndTurn, ReadFacts, FinishLost, FinishFailure, Raises,
      HeartbeatFails, Fault
  <1>14. ASSUME NEW w \in Workers, NEW e \in Entries, Replayed(w, e)
       PROVE  UNCHANGED <<row>>
    BY <1>14 DEF Replayed, Confirm, world
  <1>15. ASSUME NEW w \in Workers, NEW e \in Entries, NEW s \in SUBSET Receipts,
    WriteRule(w, e, s)
       PROVE  UNCHANGED <<row>>
    BY <1>15 DEF WriteRule, Confirm, world
  <1>16. ASSUME UNCHANGED <<row>> PROVE \A i \in Jobs : LeaseKept(i)
    BY <1>16 DEF LeaseKept
  <1>17. QED
    BY <1>1, <1>2, <1>3, <1>4, <1>5, <1>6, <1>7, <1>8, <1>9, <1>10, <1>11, <1>12,
      <1>13, <1>14, <1>15, <1>16 DEF Next, WorkerStep

\* What a worker acknowledges or records has ended, or will be tried again.
LEMMA EndsLeave ==
    ASSUME OutboxAssumption, Typed, NEW w \in Workers, FinishSuccess(w) \/ RecordFailure(w)
    PROVE  row'[worker[w].job].st # "processing"
  <1> DEFINE j == worker[w].job
             rows(st) == [row EXCEPT ![j] = Released(row[j], st)]
  <1>1. j \in Jobs /\ Msg(j) \in Messages
    BY JobOK DEF FinishSuccess, RecordFailure, At, Typed, WorkersTyped
  <1>2. \A st \in States \ {"processing"} : rows(st)[j].st = st
    BY <1>1, ReleaseOK DEF Typed
  <1>3. {"succeeded", "quarantined", "retry"} \subseteq States \ {"processing", "absent"}
    BY DEF States, Done
  <1>4. \/ \E st \in {"succeeded", "quarantined"} : Insert(rows(st), Unsettled(rows(st), {Msg(j)}))
        \/ row' = rows("retry")
    BY DEF FinishSuccess, RecordFailure, JoinAfterFailure, JoinSettlement
  <1> HIDE DEF rows, j
  <1>5. ASSUME NEW st \in {"succeeded", "quarantined"}, Insert(rows(st), Unsettled(rows(st), {Msg(j)}))
        PROVE  row'[j].st = st
    <2>1. rows(st)[j].st = st /\ st # "absent"
      BY <1>2, <1>3
    <2>2. j \notin Unsettled(rows(st), {Msg(j)})
      BY <1>1, <2>1, UnsettledOK
    <2> QED BY <1>1, <1>5, <2>1, <2>2, InsertOld
  <1>6. row'[j].st # "processing"
    BY <1>2, <1>3, <1>4, <1>5
  <1> QED BY <1>6 DEF j

\* Jobs.
LEMMA JobsKept ==
    ASSUME OutboxAssumption, NoLate, Typed, Next
    PROVE  \A v \in Workers : JobKept(v)
  <1>1. ASSUME NEW w \in Workers, NEW j \in Jobs, ClaimNext(w, j) PROVE \A v \in
    Workers : JobKept(v)
    <2>1. worker[w].job = None /\ ~Owns(w) /\ \A v \in Workers : v # w => worker'[v] = worker[v]
      BY <1>1 DEF ClaimNext, At, Owns, Typed, WorkersTyped
    <2> QED BY <2>1 DEF JobKept
  <1>2. ASSUME NEW w \in Workers, Begin(w) PROVE \A v \in Workers : JobKept(v)
    BY <1>2 DEF Begin, Goto, JobKept, Typed, WorkersTyped, Hand
  <1>3. ASSUME NEW w \in Workers, LeaseLost(w) PROVE \A v \in Workers : JobKept(v)
    BY <1>3 DEF LeaseLost, Interrupted, Freed, JobKept, Typed, WorkersTyped
  <1>4. ASSUME NEW w \in Workers, WriteProfile(w) PROVE \A v \in Workers : JobKept(v)
    BY <1>4 DEF WriteProfile, Goto, JobKept, Typed, WorkersTyped, Hand
  <1>5. ASSUME NEW w \in Workers, TakeTurn(w) PROVE \A v \in Workers : JobKept(v)
    BY <1>5 DEF TakeTurn, Goto, JobKept, Typed, WorkersTyped, Hand
  <1>6. ASSUME NEW w \in Workers, Defer(w) PROVE \A v \in Workers : JobKept(v)
    <2>1. \A v \in Workers : v # w => worker'[v] = worker[v]
      BY <1>6 DEF Defer, Freed, Typed, WorkersTyped
    <2> DEFINE j == worker[w].job
    <2>2. j \in Jobs
      BY <1>6 DEF Defer, At, Typed, WorkersTyped
    <2>3. Owns(w) => row'[j].st # "processing"
      <3>1. ASSUME Owns(w) PROVE row'[j].st = "retry"
        <4> DEFINE x == [Released(row[j], "retry") EXCEPT !.attempts = @ - 1]
        <4>1. row' = [row EXCEPT ![j] = x]
          BY <1>6, <3>1 DEF Defer
        <4>2. row[j] \in Row
          BY <2>2 DEF Typed, RowsTyped
        <4>3. x.st = "retry"
          BY <4>2 DEF Released, Row, RawRow
        <4> HIDE DEF x
        <4> QED BY <2>2, <4>1, <4>3 DEF Typed, RowsTyped
      <3> QED BY <3>1
    <2> QED BY <2>1, <2>3 DEF JobKept
  <1>7. ASSUME NEW w \in Workers, EndTurn(w) PROVE \A v \in Workers : JobKept(v)
    BY <1>7 DEF EndTurn, Goto, JobKept, Typed, WorkersTyped, Hand
  <1>8. ASSUME NEW w \in Workers, ReadFacts(w) PROVE \A v \in Workers : JobKept(v)
    BY <1>8 DEF ReadFacts, JobKept, Typed, WorkersTyped, Hand
  <1>9. ASSUME NEW w \in Workers, FinishSuccess(w) PROVE \A v \in Workers : JobKept(v)
    <2>1. \A v \in Workers : v # w => worker'[v] = worker[v]
      BY <1>9 DEF FinishSuccess, Freed, Typed, WorkersTyped
    <2> DEFINE j == worker[w].job
    <2>2. j \in Jobs
      BY <1>9 DEF FinishSuccess, At, Typed, WorkersTyped
    <2>3. Owns(w) => row'[j].st # "processing"
      BY <1>9, EndsLeave
    <2> QED BY <2>1, <2>3 DEF JobKept
  <1>10. ASSUME NEW w \in Workers, FinishLost(w) PROVE \A v \in Workers : JobKept(v)
    BY <1>10 DEF FinishLost, Interrupted, Freed, JobKept, Typed, WorkersTyped
  <1>11. ASSUME NEW w \in Workers, FinishFailure(w) PROVE \A v \in Workers :
    JobKept(v)
    <2> DEFINE n == row[worker[w].job].attempts
    <2>1. worker' = [worker EXCEPT ![w].pc = "failing", ![w].tries = n]
      BY <1>11 DEF FinishFailure
    <2> HIDE DEF n
    <2> QED BY <2>1 DEF JobKept, Typed, WorkersTyped, Hand
  <1>12. ASSUME NEW w \in Workers, RecordFailure(w) PROVE \A v \in Workers :
    JobKept(v)
    <2>1. \A v \in Workers : v # w => worker'[v] = worker[v]
      BY <1>12 DEF RecordFailure, Freed, Typed, WorkersTyped
    <2> DEFINE j == worker[w].job
    <2>2. j \in Jobs
      BY <1>12 DEF RecordFailure, At, Typed, WorkersTyped
    <2>3. Owns(w) => row'[j].st # "processing"
      BY <1>12, EndsLeave
    <2> QED BY <2>1, <2>3 DEF JobKept
  <1>13. ASSUME NEW w \in Workers, Start(w) PROVE \A v \in Workers : JobKept(v)
    BY <1>13 DEF Start, At, Freed, FreeWorker, JobKept, Typed, WorkersTyped
  <1>14. ASSUME NEW w \in Workers, Raises(w) PROVE \A v \in Workers : JobKept(v)
    BY <1>14 DEF Raises, Goto, JobKept, Typed, WorkersTyped, Hand
  <1>15. ASSUME NEW w \in Workers, HeartbeatFails(w) PROVE \A v \in Workers :
    JobKept(v)
    BY <1>15 DEF HeartbeatFails, Fault, JobKept
  <1>16. ASSUME NEW w \in Workers, Crash(w) PROVE \A v \in Workers : JobKept(v)
    BY <1>16 DEF Crash, Fault, JobKept
  <1>17. ASSUME NEW w \in Workers, Stop(w) PROVE \A v \in Workers : JobKept(v)
    BY <1>17 DEF Stop, Fault, JobKept
  <1>18. ASSUME NEW w \in Workers, NEW x \in SUBSET Layers, Checkpoint(w, x) PROVE \A
    v \in Workers : JobKept(v)
    BY <1>18 DEF Checkpoint, Goto, JobKept, Typed, WorkersTyped, Hand
  <1>19. ASSUME NEW w \in Workers, NEW e \in Entries, Replayed(w, e) PROVE \A v \in
    Workers : JobKept(v)
    BY <1>19 DEF Replayed, Confirm, JobKept, Typed, WorkersTyped, Hand
  <1>20. ASSUME NEW w \in Workers, NEW e \in Entries, NEW s \in SUBSET Receipts,
    WriteRule(w, e, s) PROVE \A v \in Workers : JobKept(v)
    BY <1>20 DEF WriteRule, Confirm, JobKept, Typed, WorkersTyped, Hand
  <1>21. ASSUME NEW m \in Messages, Enqueue(m) \/ SaveMessage(m)
       PROVE  UNCHANGED <<worker>>
    BY <1>21 DEF Enqueue, world, SaveMessage
  <1>22. ASSUME NEW w \in Workers, Renew(w)
       PROVE  UNCHANGED <<worker>>
    BY <1>22 DEF Renew, world
  <1>23. ASSUME NEW j \in Jobs, LeaseExpires(j)
       PROVE  UNCHANGED <<worker>>
    BY <1>23 DEF LeaseExpires, Fault, world
  <1>24. ASSUME UNCHANGED <<worker>> PROVE \A v \in Workers : JobKept(v)
    BY <1>24 DEF JobKept
  <1>25. QED
    BY <1>1, <1>2, <1>3, <1>4, <1>5, <1>6, <1>7, <1>8, <1>9, <1>10, <1>11, <1>12,
      <1>13, <1>14, <1>15, <1>16, <1>17, <1>18, <1>19, <1>20, <1>21, <1>22, <1>23,
      <1>24 DEF Next, WorkerStep

\* A claim stays live unless there is a fault or its job is over.
LEMMA LiveKept ==
    ASSUME OutboxAssumption, NoLate, Typed, Next, NEW j \in Jobs, Live(j)
    PROVE  Live(j)' \/ faults' = faults + 1 \/ row'[j].st # "processing"
  <1> DEFINE w == row[j].owner
  <1>1. w \in Workers /\ worker[w].job = j /\ Owns(w)
    BY Bounds DEF Live, Owns, Typed, RowsTyped, Row, RawRow
  <1>2. LeaseKept(j) /\ JobKept(w)
    BY <1>1, LeasesKept, JobsKept
  <1> QED BY <1>1, <1>2 DEF Live, LeaseKept, JobKept

\* The attempts of each row stay within its limit.
LEMMA RowBoundedStep ==
    ASSUME OutboxAssumption, NoLate, Typed, Bounded, Next, RowsGo, NotesTyped', faults <= faults',
           NEW j \in Jobs
    PROVE  RowBounded(j)'
  <1>1. /\ faults \in Nat /\ faults' \in Nat /\ faults <= faults' /\ MaxAttempts \in Nat
        /\ row[j].attempts \in Nat /\ row'[j].attempts \in Nat
    BY Bounds DEF Typed, NotesTyped, RowsTyped, Row, RawRow, RowsGo
  <1>2. /\ row[j].attempts <= MaxAttempts + faults
        /\ (row[j].st \notin Done /\ ~Live(j)) => row[j].attempts < MaxAttempts + faults
    BY DEF Bounded, RowBounded
  <1>3. Live(j) => Live(j)' \/ faults' = faults + 1 \/ row'[j].st # "processing"
    BY LiveKept
  <1>4. Live(j) => row[j].st = "processing" /\ row[j].fresh
    BY DEF Live
  <1>a. SUFFICES /\ row'[j].attempts <= MaxAttempts + faults'
                 /\ row'[j].st \in Done \/ Live(j)' \/ row'[j].attempts < MaxAttempts + faults'
    BY DEF RowBounded
  <1>5. CASE Same(j)
    <2>1. row'[j].st = row[j].st /\ row'[j].attempts = row[j].attempts
      BY <1>5 DEF Same
    <2>2. CASE row[j].st \in Done
      BY <1>1, <1>2, <2>1, <2>2
    <2>3. CASE row[j].st \notin Done /\ ~Live(j)
      BY <1>1, <1>2, <2>1, <2>3
    <2>4. CASE Live(j)
      BY <1>1, <1>2, <1>3, <1>4, <2>1, <2>4
    <2> QED BY <2>2, <2>3, <2>4
  <1>6. CASE New(j) \/ (Lapsed(j) /\ Back(j, "retry"))
    <2>1. ~Live(j) /\ row'[j].attempts = row[j].attempts /\ row[j].st \notin Done
      BY <1>4, <1>6 DEF New, Lapsed, Back, Done
    <2> QED BY <1>1, <1>2, <2>1
  <1>7. ASSUME NEW w \in Workers, Claimed(j, w)
        PROVE  row'[j].attempts <= MaxAttempts + faults' /\ Live(j)'
    <2>1. ~Live(j) /\ row[j].st \notin Done
      BY <1>4, <1>7 DEF Claimed, Lapsed, Done
    <2>2. row'[j].attempts = row[j].attempts + 1
      BY <1>7 DEF Claimed
    <2>3. Live(j)'
      BY <1>7, Bounds DEF Claimed, Live
    <2> QED BY <1>1, <1>2, <2>1, <2>2, <2>3
  <1>8. ASSUME NEW w \in Workers, Deferred(j, w)
        PROVE  row'[j].attempts < MaxAttempts + faults'
    BY <1>1, <1>2, <1>8 DEF Deferred
  <1>9. ASSUME NEW w \in Workers, Succeeded(j, w) \/ Failed(j, w)
        PROVE  /\ row'[j].attempts <= MaxAttempts + faults'
               /\ row'[j].st \in Done \/ row'[j].attempts < MaxAttempts + faults'
    <2>1. /\ row'[j].attempts = row[j].attempts
          /\ row'[j].st \in Done \/ row[j].attempts < MaxAttempts
      BY <1>9 DEF Succeeded, Failed, Back, Done
    <2> QED BY <1>1, <1>2, <2>1
  <1>10. ASSUME NEW w \in Workers, Lost(j, w)
         PROVE  row'[j].attempts < MaxAttempts + faults'
    <2>1. row'[j].attempts = row[j].attempts /\ faults' = faults + 1
      BY <1>10 DEF Lost, Back
    <2> QED BY <1>1, <1>2, <2>1
  <1>11. Fate(j)
    BY DEF RowsGo
  <1>12. row'[j].attempts < MaxAttempts + faults' => row'[j].attempts <= MaxAttempts + faults'
    BY <1>1
  <1> QED BY <1>5, <1>6, <1>7, <1>8, <1>9, <1>10, <1>11, <1>12 DEF Fate

Untried == \A w \in Workers : worker[w].pc # "failing" => worker[w].tries = 0

\* A worker reads the attempts as it records a failure.
LEMMA UntriedStep ==
    ASSUME OutboxAssumption, NoLate, Typed, Untried, Next
    PROVE  Untried'
  <1>1. ASSUME NEW w \in Workers, NEW j \in Jobs, ClaimNext(w, j) PROVE Untried'
    BY <1>1 DEF Untried, ClaimNext, FreeWorker, Typed, WorkersTyped
  <1>2. ASSUME NEW w \in Workers, Begin(w) PROVE Untried'
    BY <1>2 DEF Untried, Begin, At, Goto, Typed, WorkersTyped, Hand
  <1>3. ASSUME NEW w \in Workers, LeaseLost(w) PROVE Untried'
    BY <1>3 DEF Untried, LeaseLost, Interrupted, Freed, FreeWorker, Typed, WorkersTyped
  <1>4. ASSUME NEW w \in Workers, WriteProfile(w) PROVE Untried'
    BY <1>4 DEF Untried, WriteProfile, At, Goto, Typed, WorkersTyped, Hand
  <1>5. ASSUME NEW w \in Workers, TakeTurn(w) PROVE Untried'
    BY <1>5 DEF Untried, TakeTurn, At, Goto, Typed, WorkersTyped, Hand
  <1>6. ASSUME NEW w \in Workers, Defer(w) PROVE Untried'
    BY <1>6 DEF Untried, Defer, Interrupted, Freed, FreeWorker, Typed, WorkersTyped
  <1>7. ASSUME NEW w \in Workers, EndTurn(w) PROVE Untried'
    BY <1>7 DEF Untried, EndTurn, At, Goto, Typed, WorkersTyped, Hand
  <1>8. ASSUME NEW w \in Workers, ReadFacts(w) PROVE Untried'
    BY <1>8 DEF Untried, ReadFacts, At, Typed, WorkersTyped, Hand
  <1>9. ASSUME NEW w \in Workers, FinishSuccess(w) PROVE Untried'
    BY <1>9 DEF Untried, FinishSuccess, Interrupted, Freed, FreeWorker, Typed, WorkersTyped
  <1>10. ASSUME NEW w \in Workers, FinishLost(w) PROVE Untried'
    BY <1>10 DEF Untried, FinishLost, Interrupted, Freed, FreeWorker, Typed, WorkersTyped
  <1>11. ASSUME NEW w \in Workers, FinishFailure(w) PROVE Untried'
    <2> DEFINE n == row[worker[w].job].attempts
    <2>1. worker' = [worker EXCEPT ![w].pc = "failing", ![w].tries = n]
      BY <1>11 DEF FinishFailure
    <2> HIDE DEF n
    <2> QED BY <2>1 DEF Untried, Typed, WorkersTyped, Hand
  <1>12. ASSUME NEW w \in Workers, RecordFailure(w) PROVE Untried'
    BY <1>12 DEF Untried, RecordFailure, Interrupted, Freed, FreeWorker, Typed, WorkersTyped
  <1>13. ASSUME NEW w \in Workers, Start(w) PROVE Untried'
    BY <1>13 DEF Untried, Start, Interrupted, Freed, FreeWorker, Typed, WorkersTyped
  <1>14. ASSUME NEW w \in Workers, Raises(w) PROVE Untried'
    BY <1>14 DEF Untried, Raises, At, Goto, Typed, WorkersTyped, Hand
  <1>15. ASSUME NEW w \in Workers, HeartbeatFails(w) PROVE Untried'
    BY <1>15 DEF Untried, HeartbeatFails, Interrupted, Freed, FreeWorker, Typed, WorkersTyped
  <1>16. ASSUME NEW w \in Workers, Crash(w) PROVE Untried'
    BY <1>16 DEF Untried, Crash, Down, FreeWorker, Typed, WorkersTyped
  <1>17. ASSUME NEW w \in Workers, Stop(w) PROVE Untried'
    BY <1>17 DEF Untried, Stop, Down, FreeWorker, Typed, WorkersTyped
  <1>18. ASSUME NEW w \in Workers, NEW x \in SUBSET Layers, Checkpoint(w, x) PROVE
    Untried'
    BY <1>18 DEF Untried, Checkpoint, At, Goto, Typed, WorkersTyped, Hand
  <1>19. ASSUME NEW w \in Workers, NEW e \in Entries, Replayed(w, e) PROVE Untried'
    BY <1>19 DEF Untried, Replayed, Writing, At, Confirm, Typed, WorkersTyped, Hand
  <1>20. ASSUME NEW w \in Workers, NEW e \in Entries, NEW s \in SUBSET Receipts,
    WriteRule(w, e, s) PROVE Untried'
    BY <1>20 DEF Untried, WriteRule, Writing, At, Confirm, Typed, WorkersTyped, Hand
  <1>21. ASSUME NEW m \in Messages, Enqueue(m) \/ SaveMessage(m)
       PROVE  UNCHANGED <<worker>>
    BY <1>21 DEF Enqueue, world, SaveMessage
  <1>22. ASSUME NEW w \in Workers, Renew(w)
       PROVE  UNCHANGED <<worker>>
    BY <1>22 DEF Renew, world
  <1>23. ASSUME NEW j \in Jobs, LeaseExpires(j)
       PROVE  UNCHANGED <<worker>>
    BY <1>23 DEF LeaseExpires, Fault, world
  <1>24. ASSUME UNCHANGED <<worker>> PROVE Untried'
    BY <1>24 DEF Untried
  <1>25. QED
    BY <1>1, <1>2, <1>3, <1>4, <1>5, <1>6, <1>7, <1>8, <1>9, <1>10, <1>11, <1>12,
      <1>13, <1>14, <1>15, <1>16, <1>17, <1>18, <1>19, <1>20, <1>21, <1>22, <1>23,
      <1>24 DEF Next, WorkerStep

BoundedI == TypedI /\ Bounded

\* They do along every behaviour in which no heartbeat is late.
LEMMA BoundedAlways == ASSUME NoLate PROVE Spec => []BoundedI
  <1>1. Init => BoundedI
    <2>1. ASSUME Init PROVE Bounded
      <3>1. faults = 0 /\ \A j \in Jobs : row[j].attempts = 0
        BY <2>1 DEF Init
      <3>2. \A w \in Workers : worker[w].tries = 0
        BY <2>1 DEF Init, FreeWorker
      <3> QED BY <3>1, <3>2, Bounds, OutboxAssumption DEF Bounded, RowBounded
    <2> QED BY <2>1, OutboxAssumption, TypedInit DEF BoundedI
  <1>2. BoundedI /\ [Next]_vars => BoundedI'
    <2>1. ASSUME BoundedI, Next PROVE BoundedI'
      <3>1. TypedI' /\ RowsGo /\ faults <= faults' /\ NotesTyped'
        BY <2>1, OutboxAssumption, NoLate, TypedStep DEF BoundedI, TypedI, Typed
      <3>2. \A j \in Jobs : RowBounded(j)'
        BY <2>1, <3>1, OutboxAssumption, NoLate, RowBoundedStep DEF BoundedI, TypedI
      <3>3. Untried'
        BY <2>1, OutboxAssumption, NoLate, UntriedStep DEF BoundedI, TypedI, Bounded, Untried
      <3> QED BY <3>1, <3>2, <3>3 DEF BoundedI, Bounded, Untried
    <2>2. ASSUME BoundedI, UNCHANGED vars PROVE BoundedI'
      BY <2>2, TypedFixed DEF BoundedI, Bounded, RowBounded, Live, vars
    <2> QED BY <2>1, <2>2
  <1> QED BY <1>1, <1>2, PTL DEF Spec

\* OutboxTypeOK: with it, the attempts of a job are bounded by its failures and the faults.
THEOREM OutboxTypeCorrect == ASSUME NoLate PROVE Spec => []OutboxTypeOK
  <1>1. ASSUME BoundedI PROVE OutboxTypeOK
    <2>0. Typed /\ FailingOwns /\ Bounded /\ MaxAttempts \in Nat /\ MaxFaults \in Nat /\ faults \in 0 .. MaxFaults
      BY <1>1, OutboxAssumption, Bounds DEF BoundedI, TypedI, Typed, NotesTyped
    <2>1. ASSUME NEW j \in Jobs
          PROVE  row[j] \in [st: States, attempts: 0 .. MaxAttempts + MaxFaults,
                             owner: Workers \cup {None}, fresh: BOOLEAN]
      <3>1. row[j] \in RawRow /\ row[j].attempts \in Nat /\ row[j].attempts <= MaxAttempts + faults
        BY <2>0 DEF Typed, RowsTyped, Row, RawRow, Bounded, RowBounded
      <3>2. row[j].attempts \in 0 .. MaxAttempts + MaxFaults
        BY <2>0, <3>1
      <3> QED BY <3>1, <3>2 DEF RawRow
    <2>2. row \in [Jobs -> [st: States, attempts: 0 .. MaxAttempts + MaxFaults,
                            owner: Workers \cup {None}, fresh: BOOLEAN]]
      BY <2>0, <2>1 DEF Typed, RowsTyped
    <2>3. ASSUME NEW w \in Workers PROVE worker[w].tries \in 0 .. MaxAttempts + MaxFaults
      <3>1. worker[w] \in Hand /\ (worker[w].pc = "failing" => worker[w].job \in Jobs)
        BY <2>0 DEF Typed, WorkersTyped
      <3>2. CASE worker[w].pc = "failing"
        BY <2>0, <2>1, <3>1, <3>2 DEF FailingOwns
      <3>3. CASE worker[w].pc # "failing"
        BY <2>0, <3>3 DEF Bounded
      <3> QED BY <3>2, <3>3
    <2>4. ASSUME NEW w \in Workers
          PROVE  worker[w] \in [pc: {"free", "claimed", "ready", "turn", "done",
                                     "failed", "failing", "down"},
                                job: Jobs \cup {None}, rule: 1 .. Rules + 1,
                                confirmed: SUBSET (Entries \X (1 .. Rules)),
                                tries: 0 .. MaxAttempts + MaxFaults,
                                facts: Facts \cup {None}]
      <3>1. worker[w] \in Hand
        BY <2>0 DEF Typed, WorkersTyped
      <3> QED BY <2>3, <3>1 DEF Hand
    <2>5. worker \in [Workers -> [pc: {"free", "claimed", "ready", "turn", "done",
                                     "failed", "failing", "down"},
                                job: Jobs \cup {None}, rule: 1 .. Rules + 1,
                                confirmed: SUBSET (Entries \X (1 .. Rules)),
                                tries: 0 .. MaxAttempts + MaxFaults,
                                facts: Facts \cup {None}]]
      BY <2>0, <2>4 DEF Typed, WorkersTyped
    <2> QED
      BY <2>0, <2>2, <2>5
         DEF OutboxTypeOK, Typed, LineTyped, FoundTyped, WorkersTyped, StoreTyped, NotesTyped, States
  <1>2. BoundedI => OutboxTypeOK
    BY <1>1
  <1> QED BY <1>2, BoundedAlways, PTL

-----------------------------------------------------------------------------
(* The card.  Once there is a settlement nothing of what it tells can       *)
(* change: no effect of the turn may run again and none can be added.       *)

SettledFirst ==
    \A m \in Messages : row[<<"settlement", m>>].st # "absent" => Settled(row, m)

FactsHeld ==
    \A w \in Workers : (worker[w].pc = "done" /\ Kind(worker[w].job) = "settlement") =>
        worker[w].facts = FactsOf(Msg(worker[w].job))

CardHeld ==
    \A m \in Messages : card[m] # None =>
        card[m] = FactsOf(m) /\ row[<<"settlement", m>>].st # "absent"

CardInv == SettledFirst /\ FactsHeld /\ CardHeld

\* A message whose jobs are settled stays so, and so do its facts.
LEMMA SettledStays ==
    ASSUME OutboxAssumption, RowsTyped, RowsGo, NEW m \in Messages, Settled(row, m)
    PROVE  Settled(row', m) /\ FactsOf(m)' = FactsOf(m)
  <1>1. /\ <<"pipeline", m>> \in EffectsOf(m) /\ row[<<"pipeline", m>>].st # "absent"
        /\ \A l \in Layers : <<l, m>> \in EffectsOf(m)
    BY JobsOK, Bounds DEF Settled, EffectsOf
  <1>2. \A j \in EffectsOf(m) : /\ j \in Jobs /\ Msg(j) = m /\ Kind(j) # "settlement"
                                /\ row[j].st \in Done \cup {"absent"}
    BY DEF Settled, EffectsOf
  <1>3. ASSUME NEW j \in EffectsOf(m) PROVE row'[j].st = row[j].st
    <2>1. j \in Jobs /\ Msg(j) = m /\ Kind(j) # "settlement" /\ j = <<Kind(j), Msg(j)>>
      BY <1>2, JobOK
    <2>2. CASE row[j].st \in Done
      BY <2>1, <2>2, RowsStay DEF RowsGo
    <2>3. CASE row[j].st = "absent"
      <3>1. ~Created(j)
        BY <1>1, <1>2, <2>1, <2>3 DEF Created, Done
      <3> QED BY <2>1, <2>3, <3>1, RowsStay DEF RowsGo
    <2> QED BY <1>2, <2>2, <2>3
  <1>4. Settled(row', m)
    BY <1>1, <1>2, <1>3 DEF Settled
  <1>5. (\E j \in EffectsOf(m) : row'[j].st = "quarantined") <=> (\E j \in EffectsOf(m) : row[j].st = "quarantined")
    BY <1>3
  <1>6. {l \in Layers : row'[<<l, m>>].st = "succeeded"} = {l \in Layers : row[<<l, m>>].st = "succeeded"}
    BY <1>1, <1>3
  <1>7. EffectsOf(m)' = EffectsOf(m)
    BY DEF EffectsOf
  <1> QED BY <1>4, <1>5, <1>6, <1>7 DEF FactsOf

\* How a worker comes to have done a settlement.
DoneComes(w) ==
    (worker'[w].pc = "done" /\ Kind(worker'[w].job) = "settlement") =>
        /\ worker[w].pc \notin {"free", "down"} /\ worker'[w].job = worker[w].job
        /\ \/ worker[w].pc = "done" /\ worker'[w].facts = worker[w].facts
           \/ worker'[w].facts = FactsOf(Msg(worker[w].job))

\* Only by _settlement_facts.
LEMMA DoneAppears ==
    ASSUME OutboxAssumption, NoLate, Typed, Next
    PROVE  \A v \in Workers : DoneComes(v)
  <1>1. ASSUME NEW w \in Workers, NEW j \in Jobs, ClaimNext(w, j) PROVE \A v \in
    Workers : DoneComes(v)
    BY <1>1 DEF ClaimNext, FreeWorker, DoneComes, Typed, WorkersTyped
  <1>2. ASSUME NEW w \in Workers, Begin(w) PROVE \A v \in Workers : DoneComes(v)
    BY <1>2 DEF Begin, At, Goto, DoneComes, Typed, WorkersTyped, Hand
  <1>3. ASSUME NEW w \in Workers, LeaseLost(w) PROVE \A v \in Workers : DoneComes(v)
    BY <1>3 DEF LeaseLost, Interrupted, Freed, FreeWorker, DoneComes, Typed, WorkersTyped
  <1>4. ASSUME NEW w \in Workers, WriteProfile(w) PROVE \A v \in Workers :
    DoneComes(v)
    BY <1>4 DEF WriteProfile, At, Goto, DoneComes, Typed, WorkersTyped, Hand
  <1>5. ASSUME NEW w \in Workers, TakeTurn(w) PROVE \A v \in Workers : DoneComes(v)
    BY <1>5 DEF TakeTurn, At, Goto, DoneComes, Typed, WorkersTyped, Hand
  <1>6. ASSUME NEW w \in Workers, Defer(w) PROVE \A v \in Workers : DoneComes(v)
    BY <1>6 DEF Defer, Interrupted, Freed, FreeWorker, DoneComes, Typed, WorkersTyped
  <1>7. ASSUME NEW w \in Workers, EndTurn(w) PROVE \A v \in Workers : DoneComes(v)
    <2>1. worker[w].pc = "turn" /\ Kind(worker[w].job) = "L2" /\ worker' = [worker EXCEPT ![w].pc = "done"]
      BY <1>7 DEF EndTurn, At, Goto, Typed, WorkersTyped
    <2> QED BY <2>1 DEF DoneComes, Typed, WorkersTyped, Hand
  <1>8. ASSUME NEW w \in Workers, ReadFacts(w) PROVE \A v \in Workers : DoneComes(v)
    <2> DEFINE f == FactsOf(Msg(worker[w].job))
    <2>1. worker' = [worker EXCEPT ![w].pc = "done", ![w].facts = f] /\ worker[w].pc = "ready"
      BY <1>8 DEF ReadFacts, At
    <2> HIDE DEF f
    <2>2. worker'[w].facts = f /\ worker'[w].job = worker[w].job
          /\ \A v \in Workers : v # w => worker'[v] = worker[v]
      BY <2>1 DEF Typed, WorkersTyped, Hand
    <2>3. DoneComes(w)
      BY <2>1, <2>2 DEF DoneComes, f
    <2> QED BY <2>2, <2>3 DEF DoneComes
  <1>9. ASSUME NEW w \in Workers, FinishSuccess(w) PROVE \A v \in Workers :
    DoneComes(v)
    BY <1>9 DEF FinishSuccess, Interrupted, Freed, FreeWorker, DoneComes, Typed, WorkersTyped
  <1>10. ASSUME NEW w \in Workers, FinishLost(w) PROVE \A v \in Workers : DoneComes(v)
    BY <1>10 DEF FinishLost, Interrupted, Freed, FreeWorker, DoneComes, Typed, WorkersTyped
  <1>11. ASSUME NEW w \in Workers, FinishFailure(w) PROVE \A v \in Workers :
    DoneComes(v)
    <2> DEFINE n == row[worker[w].job].attempts
    <2>1. worker' = [worker EXCEPT ![w].pc = "failing", ![w].tries = n]
      BY <1>11 DEF FinishFailure
    <2> HIDE DEF n
    <2> QED BY <2>1 DEF DoneComes, Typed, WorkersTyped, Hand
  <1>12. ASSUME NEW w \in Workers, RecordFailure(w) PROVE \A v \in Workers :
    DoneComes(v)
    BY <1>12 DEF RecordFailure, Interrupted, Freed, FreeWorker, DoneComes, Typed, WorkersTyped
  <1>13. ASSUME NEW w \in Workers, Start(w) PROVE \A v \in Workers : DoneComes(v)
    BY <1>13 DEF Start, Interrupted, Freed, FreeWorker, DoneComes, Typed, WorkersTyped
  <1>14. ASSUME NEW w \in Workers, Raises(w) PROVE \A v \in Workers : DoneComes(v)
    BY <1>14 DEF Raises, At, Goto, DoneComes, Typed, WorkersTyped, Hand
  <1>15. ASSUME NEW w \in Workers, HeartbeatFails(w) PROVE \A v \in Workers :
    DoneComes(v)
    BY <1>15 DEF HeartbeatFails, Interrupted, Freed, FreeWorker, DoneComes, Typed, WorkersTyped
  <1>16. ASSUME NEW w \in Workers, Crash(w) PROVE \A v \in Workers : DoneComes(v)
    BY <1>16 DEF Crash, Down, FreeWorker, DoneComes, Typed, WorkersTyped
  <1>17. ASSUME NEW w \in Workers, Stop(w) PROVE \A v \in Workers : DoneComes(v)
    BY <1>17 DEF Stop, Down, FreeWorker, DoneComes, Typed, WorkersTyped
  <1>18. ASSUME NEW w \in Workers, NEW x \in SUBSET Layers, Checkpoint(w, x) PROVE \A
    v \in Workers : DoneComes(v)
    BY <1>18 DEF Checkpoint, At, Goto, DoneComes, Typed, WorkersTyped, Hand
  <1>19. ASSUME NEW w \in Workers, NEW e \in Entries, Replayed(w, e) PROVE \A v \in
    Workers : DoneComes(v)
    BY <1>19 DEF Replayed, Writing, At, Confirm, DoneComes, Typed, WorkersTyped, Hand
  <1>20. ASSUME NEW w \in Workers, NEW e \in Entries, NEW s \in SUBSET Receipts,
    WriteRule(w, e, s) PROVE \A v \in Workers : DoneComes(v)
    BY <1>20 DEF WriteRule, Writing, At, Confirm, DoneComes, Typed, WorkersTyped, Hand
  <1>21. ASSUME NEW m \in Messages, Enqueue(m) \/ SaveMessage(m)
       PROVE  UNCHANGED <<worker>>
    BY <1>21 DEF Enqueue, world, SaveMessage
  <1>22. ASSUME NEW w \in Workers, Renew(w)
       PROVE  UNCHANGED <<worker>>
    BY <1>22 DEF Renew, world
  <1>23. ASSUME NEW j \in Jobs, LeaseExpires(j)
       PROVE  UNCHANGED <<worker>>
    BY <1>23 DEF LeaseExpires, Fault, world
  <1>24. ASSUME UNCHANGED <<worker>> PROVE \A v \in Workers : DoneComes(v)
    BY <1>24 DEF DoneComes, Typed, WorkersTyped
  <1>25. QED
    BY <1>1, <1>2, <1>3, <1>4, <1>5, <1>6, <1>7, <1>8, <1>9, <1>10, <1>11, <1>12,
      <1>13, <1>14, <1>15, <1>16, <1>17, <1>18, <1>19, <1>20, <1>21, <1>22, <1>23,
      <1>24 DEF Next, WorkerStep

\* How a card comes to be written.
Written(m) == card'[m] = card[m] \/ (card'[m] = FactsOf(m) /\ row[<<"settlement", m>>].st # "absent")

\* Only with the settlement.
LEMMA CardWritten ==
    ASSUME OutboxAssumption, NoLate, Typed, CardInv, Next
    PROVE  \A n \in Messages : Written(n)
  <1>1. ASSUME NEW w \in Workers, FinishSuccess(w) PROVE \A n \in Messages :
    Written(n)
    <2> DEFINE j == worker[w].job
               m == Msg(j)
    <2>1. j \in Jobs /\ m \in Messages /\ j = <<Kind(j), m>> /\ row[j].st # "absent" /\ worker[w].pc = "done"
      BY <1>1, JobOK DEF FinishSuccess, At, Typed, WorkersTyped
    <2>2. CASE Kind(j) = "settlement"
      <3>1. row[<<"settlement", m>>].st # "absent"
        BY <2>1, <2>2
      <3>2. worker[w].facts = FactsOf(m)
        BY <2>1, <2>2 DEF CardInv, FactsHeld
      <3>3. card' = [card EXCEPT ![m] = worker[w].facts]
        BY <1>1, <2>2 DEF FinishSuccess
      <3> HIDE DEF m
      <3> QED BY <2>1, <3>1, <3>2, <3>3 DEF Written, Typed, NotesTyped
    <2>3. CASE Kind(j) # "settlement"
      <3>1. card' = card
        BY <1>1, <2>3 DEF FinishSuccess
      <3> QED BY <3>1 DEF Written
    <2> QED BY <2>2, <2>3
  <1>2. ASSUME NEW m \in Messages, Enqueue(m) \/ SaveMessage(m)
       PROVE  UNCHANGED <<card>>
    BY <1>2 DEF Enqueue, world, SaveMessage
  <1>3. ASSUME NEW w \in Workers, NEW j \in Jobs, ClaimNext(w, j)
       PROVE  UNCHANGED <<card>>
    BY <1>3 DEF ClaimNext, world
  <1>4. ASSUME NEW w \in Workers, Begin(w) \/ LeaseLost(w) \/ WriteProfile(w) \/
    TakeTurn(w) \/ Defer(w) \/ EndTurn(w) \/ ReadFacts(w) \/ FinishLost(w) \/
    FinishFailure(w) \/ RecordFailure(w) \/ Start(w) \/ Raises(w) \/ Renew(w) \/
    HeartbeatFails(w) \/ Crash(w) \/ Stop(w)
       PROVE  UNCHANGED <<card>>
    BY <1>4 DEF Begin, Goto, world, LeaseLost, Interrupted, Freed, LeaveLane,
      WriteProfile, TakeTurn, Defer, EndTurn, ReadFacts, FinishLost, FinishFailure,
      RecordFailure, Start, Raises, Renew, HeartbeatFails, Fault, Crash, Down, Stop
  <1>5. ASSUME NEW w \in Workers, NEW x \in SUBSET Layers, Checkpoint(w, x)
       PROVE  UNCHANGED <<card>>
    BY <1>5 DEF Checkpoint, Goto, world
  <1>6. ASSUME NEW w \in Workers, NEW e \in Entries, Replayed(w, e)
       PROVE  UNCHANGED <<card>>
    BY <1>6 DEF Replayed, Confirm, world
  <1>7. ASSUME NEW w \in Workers, NEW e \in Entries, NEW s \in SUBSET Receipts,
    WriteRule(w, e, s)
       PROVE  UNCHANGED <<card>>
    BY <1>7 DEF WriteRule, Confirm, world
  <1>8. ASSUME NEW j \in Jobs, LeaseExpires(j)
       PROVE  UNCHANGED <<card>>
    BY <1>8 DEF LeaseExpires, Fault, world
  <1>9. ASSUME UNCHANGED <<card>> PROVE \A n \in Messages : Written(n)
    BY <1>9 DEF Written
  <1>10. QED
    BY <1>1, <1>2, <1>3, <1>4, <1>5, <1>6, <1>7, <1>8, <1>9 DEF Next, WorkerStep

\* Every step keeps the cards complete.
LEMMA CardStep ==
    ASSUME OutboxAssumption, NoLate, TypedI, CardInv, Next
    PROVE  CardInv'
  <1>1. Typed /\ RowsTyped /\ RowsGo /\ RowsRemain /\ WorkersTyped'
    BY TypedStep DEF TypedI, Typed
  <1>2. \A m \in Messages : <<"settlement", m>> \in Jobs /\ Kind(<<"settlement", m>>) = "settlement"
                            /\ Msg(<<"settlement", m>>) = m
    BY JobsOK
  <1>3. ASSUME NEW m \in Messages, row'[<<"settlement", m>>].st # "absent" PROVE Settled(row', m)
    <2>1. CASE row[<<"settlement", m>>].st # "absent"
      BY <1>1, <2>1, SettledStays DEF CardInv, SettledFirst
    <2>2. CASE row[<<"settlement", m>>].st = "absent"
      <3>1. Created(<<"settlement", m>>)
        BY <1>1, <1>2, <1>3, <2>2, RowsStay DEF RowsGo
      <3> QED BY <1>2, <3>1, Bounds DEF Created
    <2> QED BY <2>1, <2>2
  <1>4. SettledFirst'
    BY <1>3 DEF SettledFirst
  <1>5. ASSUME NEW m \in Messages, row[<<"settlement", m>>].st # "absent"
        PROVE  FactsOf(m)' = FactsOf(m) /\ row'[<<"settlement", m>>].st # "absent"
    BY <1>1, <1>2, <1>5, SettledStays DEF CardInv, SettledFirst, RowsRemain
  <1>6. ASSUME NEW w \in Workers, worker'[w].pc = "done", Kind(worker'[w].job) = "settlement"
        PROVE  worker'[w].facts = FactsOf(Msg(worker[w].job))'
    <2> DEFINE j == worker[w].job
    <2>1. DoneComes(w)
      BY <1>1, DoneAppears
    <2>2. /\ worker'[w].job = j /\ worker[w].pc \notin {"free", "down"}
          /\ \/ worker[w].pc = "done" /\ worker'[w].facts = worker[w].facts
             \/ worker'[w].facts = FactsOf(Msg(j))
      BY <1>6, <2>1 DEF DoneComes
    <2>3. j \in Jobs /\ Msg(j) \in Messages /\ Kind(j) = "settlement" /\ row[<<"settlement", Msg(j)>>].st # "absent"
      BY <1>1, <1>6, <2>2, JobOK DEF Typed, WorkersTyped
    <2>4. worker'[w].facts = FactsOf(Msg(j))
      BY <2>2, <2>3 DEF CardInv, FactsHeld
    <2> DEFINE m == Msg(j)
    <2>6. m \in Messages /\ Msg(worker'[w].job) = m /\ worker'[w].facts = FactsOf(m) /\ row[<<"settlement", m>>].st # "absent"
      BY <2>2, <2>3, <2>4
    <2> HIDE DEF m
    <2>7. PICK n \in Messages : n = m
      BY <2>6
    <2>8. FactsOf(n)' = FactsOf(n)
      BY <1>5, <2>6, <2>7
    <2>9. Msg(worker'[w].job) = n
      BY <2>6, <2>7
    <2>10. FactsOf(Msg(worker[w].job))' = FactsOf(n)'
      BY <2>9 DEF FactsOf, EffectsOf
    <2> QED BY <2>6, <2>7, <2>8, <2>10
  <1>7. FactsHeld'
    BY <1>6 DEF FactsHeld
  <1>8. ASSUME NEW m \in Messages, card'[m] # None
        PROVE  card'[m] = FactsOf(m)' /\ row'[<<"settlement", m>>].st # "absent"
    <2>1. Written(m)
      BY <1>1, CardWritten
    <2>2. card'[m] = FactsOf(m) /\ row[<<"settlement", m>>].st # "absent"
      BY <1>8, <2>1 DEF Written, CardInv, CardHeld
    <2> QED BY <1>5, <2>2
  <1>9. CardHeld'
    BY <1>8 DEF CardHeld
  <1> QED BY <1>4, <1>7, <1>9 DEF CardInv

\* CardComplete: the card tells all that was remembered of the turn.
THEOREM CardCompleteAlways == ASSUME NoLate PROVE Spec => []CardComplete
  <1>1. Init => CardInv
    <2> SUFFICES ASSUME Init PROVE CardInv
      OBVIOUS
    <2>1. /\ \A j \in Jobs : row[j].st = "absent"
          /\ \A w \in Workers : worker[w].pc = "free"
          /\ \A m \in Messages : card[m] = None
      BY DEF Init, FreeWorker
    <2> QED BY <2>1, OutboxAssumption, JobsOK DEF CardInv, SettledFirst, FactsHeld, CardHeld
  <1>2. TypedI /\ CardInv /\ [Next]_vars => CardInv'
    <2>1. ASSUME CardInv, UNCHANGED vars PROVE CardInv'
      BY <2>1 DEF vars, CardInv, SettledFirst, FactsHeld, CardHeld, Settled, FactsOf, EffectsOf
    <2> QED BY <2>1, OutboxAssumption, NoLate, CardStep
  <1>3. CardInv => CardComplete
    BY DEF CardInv, CardHeld, CardComplete
  <1> QED BY <1>1, <1>2, <1>3, TypedAlways, PTL DEF Spec

-----------------------------------------------------------------------------
(* The lane: a rule changes the store once.  The worker in its turn has the *)
(* oldest candidate that waits; nothing later has been written, so that the *)
(* receipts it drops are of candidates that have ended, and its own it has  *)
(* confirmed, rule by rule.                                                 *)

Turn(w, m) == worker[w].pc = "turn" /\ worker[w].job = L2Row(m)
Wrote(m, n) == applied[<<m, n>>] > 0
Shown(m, n) == \E e \in Entries : <<m, n>> \in store[e]

Once      == \A m \in Messages, n \in 1 .. Rules : applied[<<m, n>>] <= 1
Present   == \A m \in Messages, n \in 1 .. Rules :
                Wrote(m, n) => L2Row(m) \in Jobs /\ row[L2Row(m)].st # "absent"
Stored    == \A m \in Messages, n \in 1 .. Rules : Shown(m, n) => Wrote(m, n)
Ordered   == \A m \in Messages, n, k \in 1 .. Rules : n < k /\ Wrote(m, k) => Wrote(m, n)
Held      == \A m \in InLane, n \in 1 .. Rules :
                (Wrote(m, n) /\ (Waiting(L2Row(m)) \/ \E w \in Workers : Turn(w, m))) => Shown(m, n)
Confirmed == \A w \in Workers, m \in InLane : Turn(w, m) =>
                /\ \A k \in 1 .. Rules : k < worker[w].rule =>
                      \E e \in Entries : <<e, k>> \in worker[w].confirmed
                /\ \A k \in 1 .. Rules, e \in Entries :
                      <<e, k>> \in worker[w].confirmed => <<m, k>> \in store[e]
Foremost  == \A w \in Workers, m, i \in InLane :
                Turn(w, m) /\ Waiting(L2Row(i)) => ~Before(L2Row(i), L2Row(m))
OthersNot == \A w \in Workers, m, i \in InLane, n \in 1 .. Rules :
                Turn(w, m) /\ i # m /\ Waiting(L2Row(i)) => ~Wrote(i, n)
LaterNot  == \A m, i \in InLane, n \in 1 .. Rules :
                Waiting(L2Row(m)) /\ Before(L2Row(m), L2Row(i)) => ~Wrote(i, n)

Begun(h) == h.pc \in {"claimed", "ready"} => h.rule = 1 /\ h.confirmed = {}
BegunAll == \A w \in Workers : Begun(worker[w])

LaneInv == /\ Once /\ Present /\ Stored /\ Ordered /\ Held /\ Confirmed
           /\ Foremost /\ OthersNot /\ LaterNot /\ BegunAll

NoSkew == "skew" \notin Disturbances

\* Without skew nothing comes before a row that was there, but what was there before it.
OrderKept ==
    \A i, j \in Jobs : (row[j].st # "absent" /\ Before(i, j)') => row[i].st # "absent" /\ Before(i, j)

\* New jobs are created after those that are there, if no clock is off.
LEMMA InsertLast ==
    ASSUME LineTyped, NoSkew, NEW S \in SUBSET Jobs, IsFiniteSet(S), \A j \in S : row[j].st = "absent",
           NEW rows, Insert(rows, S)
    PROVE  OrderKept
  <1>1. S \cap Range(line) = {} /\ line' \in Placed(S)
    BY DEF LineTyped, Insert
  <1>2. \A i, j \in Jobs : (j \in Range(line) /\ Before(i, j)') => i \in Range(line) /\ Before(i, j)
    BY <1>1, PlacedLast DEF LineTyped, NoSkew
  <1> QED BY <1>2 DEF OrderKept, LineTyped

\* So are the settlements of messages that had none.
LEMMA SettlementsLast ==
    ASSUME OutboxAssumption, LineTyped, NoSkew, NEW M \in SUBSET Messages, NEW rows,
           \A j \in Jobs : rows[j].st = "absent" => row[j].st = "absent",
           Insert(rows, Unsettled(rows, M))
    PROVE  OrderKept
  BY UnsettledOK, InsertLast

\* The order.
LEMMA OrderStep ==
    ASSUME OutboxAssumption, NoLate, Typed, NoSkew, Next
    PROVE  OrderKept
  <1>1. ASSUME NEW m \in Messages, Enqueue(m) PROVE OrderKept
    <2> DEFINE i == <<"pipeline", m>>
               S == {i}
    <2>0. i \in Jobs
      BY JobsOK
    <2>a. Insert(row, S) /\ row[i].st = "absent"
      BY <1>1 DEF Enqueue
    <2> HIDE DEF i
    <2>1. /\ S \in SUBSET Jobs /\ IsFiniteSet(S) /\ Insert(row, S) /\ \A j \in S : row[j].st = "absent"
      BY <2>0, <2>a, FS_Singleton
    <2> HIDE DEF S
    <2> QED BY <2>1, InsertLast DEF Typed
  <1>2. ASSUME NEW w \in Workers, FinishSuccess(w) PROVE OrderKept
    <2> DEFINE j == worker[w].job
               rows == [row EXCEPT ![j] = Released(row[j], "succeeded")]
    <2>1. j \in Jobs /\ Msg(j) \in Messages /\ Insert(rows, Unsettled(rows, {Msg(j)}))
      BY <1>2, JobOK DEF FinishSuccess, At, JoinSettlement, Typed, WorkersTyped
    <2>2. rows[j].st = "succeeded" /\ \A i \in Jobs : i # j => rows[i] = row[i]
      BY <2>1, ReleaseOK DEF Typed, States, Done
    <2> HIDE DEF rows
    <2>3. \A i \in Jobs : rows[i].st = "absent" => row[i].st = "absent"
      BY <2>2
    <2> QED BY <2>1, <2>3, SettlementsLast DEF Typed
  <1>3. ASSUME NEW w \in Workers, RecordFailure(w) PROVE OrderKept
    <2> DEFINE j == worker[w].job
               rows == [row EXCEPT ![j] = Released(row[j], "quarantined")]
    <2>1. j \in Jobs /\ Msg(j) \in Messages
          /\ (line' = line \/ Insert(rows, Unsettled(rows, {Msg(j)})))
      BY <1>3, JobOK DEF RecordFailure, At, JoinAfterFailure, JoinSettlement, Typed, WorkersTyped
    <2>2. rows[j].st = "quarantined" /\ \A i \in Jobs : i # j => rows[i] = row[i]
      BY <2>1, ReleaseOK DEF Typed, States, Done
    <2> HIDE DEF rows
    <2>3. \A i \in Jobs : rows[i].st = "absent" => row[i].st = "absent"
      BY <2>2
    <2>4. CASE line' = line
      BY <2>4 DEF OrderKept, Before, Typed, LineTyped, Range
    <2>5. CASE Insert(rows, Unsettled(rows, {Msg(j)}))
      BY <2>1, <2>3, <2>5, SettlementsLast DEF Typed
    <2> QED BY <2>1, <2>4, <2>5
  <1>4. ASSUME NEW w \in Workers, Start(w) PROVE OrderKept
    <2>1. Insert(row, Unsettled(row, Messages))
      BY <1>4 DEF Start
    <2> QED BY <2>1, SettlementsLast DEF Typed
  <1>5. ASSUME NEW w \in Workers, NEW x \in SUBSET Layers, Checkpoint(w, x) PROVE
    OrderKept
    <2> DEFINE c == worker[w].job
               m == Msg(c)
               all == Extracted(m, x)
               S == {j \in all \X {m} : row[j].st = "absent"}
    <2>1. /\ c \in Jobs /\ m \in Messages /\ Insert(row, S)
      BY <1>5, JobOK DEF Checkpoint, At, Owns, Typed, WorkersTyped, Hand
    <2>3. all \in SUBSET Layers
      <3>1. found[m] \in (SUBSET Layers) \cup {None} /\ x \in SUBSET Layers
        BY <1>5, <2>1 DEF Typed, FoundTyped
      <3> QED BY <3>1 DEF Extracted
    <2>4. IsFiniteSet(S)
      <3>1. IsFiniteSet(all) /\ IsFiniteSet({m})
        BY <2>3, Bounds, FS_Subset, FS_Singleton
      <3>2. IsFiniteSet(all \X {m})
        BY <3>1, FS_Product
      <3> QED BY <3>2, FS_Subset
    <2>5. S \in SUBSET Jobs
      <3> HIDE DEF all, m
      <3> QED BY <2>1, <2>3 DEF Jobs
    <2>6. \A j \in S : row[j].st = "absent"
      OBVIOUS
    <2> HIDE DEF S
    <2> QED BY <2>1, <2>4, <2>5, <2>6, InsertLast DEF Typed
  <1>6. ASSUME NEW m \in Messages, SaveMessage(m)
       PROVE  UNCHANGED <<line>>
    BY <1>6 DEF SaveMessage, world
  <1>7. ASSUME NEW w \in Workers, NEW j \in Jobs, ClaimNext(w, j)
       PROVE  UNCHANGED <<line>>
    BY <1>7 DEF ClaimNext, world
  <1>8. ASSUME NEW w \in Workers, Begin(w) \/ LeaseLost(w) \/ WriteProfile(w) \/
    TakeTurn(w) \/ Defer(w) \/ EndTurn(w) \/ ReadFacts(w) \/ FinishLost(w) \/
    FinishFailure(w) \/ Raises(w) \/ Renew(w) \/ HeartbeatFails(w) \/ Crash(w) \/
    Stop(w)
       PROVE  UNCHANGED <<line>>
    BY <1>8 DEF Begin, Goto, world, LeaseLost, Interrupted, Freed, LeaveLane,
      WriteProfile, TakeTurn, Defer, EndTurn, ReadFacts, FinishLost, FinishFailure,
      Raises, Renew, HeartbeatFails, Fault, Crash, Down, Stop
  <1>9. ASSUME NEW w \in Workers, NEW e \in Entries, Replayed(w, e)
       PROVE  UNCHANGED <<line>>
    BY <1>9 DEF Replayed, Confirm, world
  <1>10. ASSUME NEW w \in Workers, NEW e \in Entries, NEW s \in SUBSET Receipts,
    WriteRule(w, e, s)
       PROVE  UNCHANGED <<line>>
    BY <1>10 DEF WriteRule, Confirm, world
  <1>11. ASSUME NEW j \in Jobs, LeaseExpires(j)
       PROVE  UNCHANGED <<line>>
    BY <1>11 DEF LeaseExpires, Fault, world
  <1>12. ASSUME UNCHANGED <<line>> PROVE OrderKept
    BY <1>12 DEF OrderKept, Before, Typed, LineTyped, Range
  <1>13. QED
    BY <1>1, <1>2, <1>3, <1>4, <1>5, <1>6, <1>7, <1>8, <1>9, <1>10, <1>11, <1>12 DEF
      Next, WorkerStep

\* A job begins with no rule confirmed.
LEMMA BegunStep ==
    ASSUME OutboxAssumption, NoLate, Typed, BegunAll, Next
    PROVE  BegunAll'
  <1>1. ASSUME NEW w \in Workers, NEW j \in Jobs, ClaimNext(w, j) PROVE BegunAll'
    BY <1>1 DEF ClaimNext, FreeWorker, Begun, BegunAll, Typed, WorkersTyped
  <1>2. ASSUME NEW w \in Workers, Begin(w) PROVE BegunAll'
    BY <1>2 DEF Begin, At, Goto, Begun, BegunAll, Typed, WorkersTyped, Hand
  <1>3. ASSUME NEW w \in Workers, LeaseLost(w) PROVE BegunAll'
    BY <1>3 DEF LeaseLost, Interrupted, Freed, FreeWorker, Begun, BegunAll, Typed, WorkersTyped
  <1>4. ASSUME NEW w \in Workers, WriteProfile(w) PROVE BegunAll'
    BY <1>4 DEF WriteProfile, At, Goto, Begun, BegunAll, Typed, WorkersTyped, Hand
  <1>5. ASSUME NEW w \in Workers, TakeTurn(w) PROVE BegunAll'
    BY <1>5 DEF TakeTurn, At, Goto, Begun, BegunAll, Typed, WorkersTyped, Hand
  <1>6. ASSUME NEW w \in Workers, Defer(w) PROVE BegunAll'
    BY <1>6 DEF Defer, Interrupted, Freed, FreeWorker, Begun, BegunAll, Typed, WorkersTyped
  <1>7. ASSUME NEW w \in Workers, EndTurn(w) PROVE BegunAll'
    BY <1>7 DEF EndTurn, At, Goto, Begun, BegunAll, Typed, WorkersTyped, Hand
  <1>8. ASSUME NEW w \in Workers, ReadFacts(w) PROVE BegunAll'
    <2> DEFINE f == FactsOf(Msg(worker[w].job))
    <2>1. worker' = [worker EXCEPT ![w].pc = "done", ![w].facts = f]
      BY <1>8 DEF ReadFacts
    <2> HIDE DEF f
    <2> QED BY <2>1 DEF Begun, BegunAll, Typed, WorkersTyped, Hand
  <1>9. ASSUME NEW w \in Workers, FinishSuccess(w) PROVE BegunAll'
    BY <1>9 DEF FinishSuccess, Interrupted, Freed, FreeWorker, Begun, BegunAll, Typed, WorkersTyped
  <1>10. ASSUME NEW w \in Workers, FinishLost(w) PROVE BegunAll'
    BY <1>10 DEF FinishLost, Interrupted, Freed, FreeWorker, Begun, BegunAll, Typed, WorkersTyped
  <1>11. ASSUME NEW w \in Workers, FinishFailure(w) PROVE BegunAll'
    <2> DEFINE n == row[worker[w].job].attempts
    <2>1. worker' = [worker EXCEPT ![w].pc = "failing", ![w].tries = n]
      BY <1>11 DEF FinishFailure
    <2> HIDE DEF n
    <2> QED BY <2>1 DEF Begun, BegunAll, Typed, WorkersTyped, Hand
  <1>12. ASSUME NEW w \in Workers, RecordFailure(w) PROVE BegunAll'
    BY <1>12 DEF RecordFailure, Interrupted, Freed, FreeWorker, Begun, BegunAll, Typed, WorkersTyped
  <1>13. ASSUME NEW w \in Workers, Start(w) PROVE BegunAll'
    BY <1>13 DEF Start, Interrupted, Freed, FreeWorker, Begun, BegunAll, Typed, WorkersTyped
  <1>14. ASSUME NEW w \in Workers, Raises(w) PROVE BegunAll'
    BY <1>14 DEF Raises, At, Goto, Begun, BegunAll, Typed, WorkersTyped, Hand
  <1>15. ASSUME NEW w \in Workers, HeartbeatFails(w) PROVE BegunAll'
    BY <1>15 DEF HeartbeatFails, Interrupted, Freed, FreeWorker, Begun, BegunAll, Typed, WorkersTyped
  <1>16. ASSUME NEW w \in Workers, Crash(w) PROVE BegunAll'
    BY <1>16 DEF Crash, Down, FreeWorker, Begun, BegunAll, Typed, WorkersTyped
  <1>17. ASSUME NEW w \in Workers, Stop(w) PROVE BegunAll'
    BY <1>17 DEF Stop, Down, FreeWorker, Begun, BegunAll, Typed, WorkersTyped
  <1>18. ASSUME NEW w \in Workers, NEW x \in SUBSET Layers, Checkpoint(w, x) PROVE
    BegunAll'
    BY <1>18 DEF Checkpoint, At, Goto, Begun, BegunAll, Typed, WorkersTyped, Hand
  <1>19. ASSUME NEW w \in Workers, NEW e \in Entries, Replayed(w, e) PROVE BegunAll'
    BY <1>19 DEF Replayed, Writing, At, Confirm, Begun, BegunAll, Typed, WorkersTyped, Hand
  <1>20. ASSUME NEW w \in Workers, NEW e \in Entries, NEW s \in SUBSET Receipts,
    WriteRule(w, e, s) PROVE BegunAll'
    BY <1>20 DEF WriteRule, Writing, At, Confirm, Begun, BegunAll, Typed, WorkersTyped, Hand
  <1>21. ASSUME NEW m \in Messages, Enqueue(m) \/ SaveMessage(m)
       PROVE  UNCHANGED <<worker>>
    BY <1>21 DEF Enqueue, world, SaveMessage
  <1>22. ASSUME NEW w \in Workers, Renew(w)
       PROVE  UNCHANGED <<worker>>
    BY <1>22 DEF Renew, world
  <1>23. ASSUME NEW j \in Jobs, LeaseExpires(j)
       PROVE  UNCHANGED <<worker>>
    BY <1>23 DEF LeaseExpires, Fault, world
  <1>24. ASSUME UNCHANGED <<worker>> PROVE BegunAll'
    BY <1>24 DEF Begun, BegunAll
  <1>25. QED
    BY <1>1, <1>2, <1>3, <1>4, <1>5, <1>6, <1>7, <1>8, <1>9, <1>10, <1>11, <1>12,
      <1>13, <1>14, <1>15, <1>16, <1>17, <1>18, <1>19, <1>20, <1>21, <1>22, <1>23,
      <1>24 DEF Next, WorkerStep

\* Nothing is written and nobody's turn begins.
Quiet == /\ store' = store /\ applied' = applied
         /\ \A v \in Workers : worker'[v].pc = "turn" => worker'[v] = worker[v]

LaneMoves ==
    \/ Quiet
    \/ \E w \in Workers : \/ TakeTurn(w)
                          \/ \E e \in Entries : Replayed(w, e)
                          \/ \E e \in Entries, s \in SUBSET Receipts : WriteRule(w, e, s)

\* What a step means to the lane.
LEMMA LaneSteps ==
    ASSUME OutboxAssumption, NoLate, Typed, Next
    PROVE  LaneMoves
  <1>1. ASSUME NEW w \in Workers, NEW j \in Jobs, ClaimNext(w, j) PROVE LaneMoves
    BY <1>1 DEF LaneMoves, ClaimNext, FreeWorker, Quiet, Typed, WorkersTyped, world
  <1>2. ASSUME NEW w \in Workers, Begin(w) PROVE LaneMoves
    BY <1>2 DEF LaneMoves, Begin, At, Goto, Quiet, Typed, WorkersTyped, Hand, world
  <1>3. ASSUME NEW w \in Workers, LeaseLost(w) PROVE LaneMoves
    BY <1>3 DEF LaneMoves, LeaseLost, Interrupted, Freed, FreeWorker, Quiet, Typed, WorkersTyped, world
  <1>4. ASSUME NEW w \in Workers, WriteProfile(w) PROVE LaneMoves
    BY <1>4 DEF LaneMoves, WriteProfile, At, Goto, Quiet, Typed, WorkersTyped, Hand, world
  <1>5. ASSUME NEW w \in Workers, TakeTurn(w) PROVE LaneMoves
    BY <1>5 DEF LaneMoves
  <1>6. ASSUME NEW w \in Workers, Defer(w) PROVE LaneMoves
    BY <1>6 DEF LaneMoves, Defer, Interrupted, Freed, FreeWorker, Quiet, Typed, WorkersTyped, world
  <1>7. ASSUME NEW w \in Workers, EndTurn(w) PROVE LaneMoves
    BY <1>7 DEF LaneMoves, EndTurn, At, Goto, Quiet, Typed, WorkersTyped, Hand, world
  <1>8. ASSUME NEW w \in Workers, ReadFacts(w) PROVE LaneMoves
    <2> DEFINE f == FactsOf(Msg(worker[w].job))
    <2>1. store' = store /\ applied' = applied /\ worker' = [worker EXCEPT ![w].pc = "done", ![w].facts = f]
      BY <1>8 DEF ReadFacts, world
    <2> HIDE DEF f
    <2> QED BY <2>1 DEF LaneMoves, Quiet, world, Typed, WorkersTyped, Hand
  <1>9. ASSUME NEW w \in Workers, FinishSuccess(w) PROVE LaneMoves
    BY <1>9 DEF LaneMoves, FinishSuccess, Interrupted, Freed, FreeWorker, Quiet, Typed, WorkersTyped, world
  <1>10. ASSUME NEW w \in Workers, FinishLost(w) PROVE LaneMoves
    BY <1>10 DEF LaneMoves, FinishLost, Interrupted, Freed, FreeWorker, Quiet, Typed, WorkersTyped, world
  <1>11. ASSUME NEW w \in Workers, FinishFailure(w) PROVE LaneMoves
    <2> DEFINE n == row[worker[w].job].attempts
    <2>1. store' = store /\ applied' = applied /\ worker' = [worker EXCEPT ![w].pc = "failing", ![w].tries = n]
      BY <1>11 DEF FinishFailure, world
    <2> HIDE DEF n
    <2> QED BY <2>1 DEF LaneMoves, Quiet, world, Typed, WorkersTyped, Hand
  <1>12. ASSUME NEW w \in Workers, RecordFailure(w) PROVE LaneMoves
    BY <1>12 DEF LaneMoves, RecordFailure, Interrupted, Freed, FreeWorker, Quiet, Typed, WorkersTyped, world
  <1>13. ASSUME NEW w \in Workers, Start(w) PROVE LaneMoves
    BY <1>13 DEF LaneMoves, Start, Interrupted, Freed, FreeWorker, Quiet, Typed, WorkersTyped, world
  <1>14. ASSUME NEW w \in Workers, Raises(w) PROVE LaneMoves
    BY <1>14 DEF LaneMoves, Raises, At, Goto, Quiet, Typed, WorkersTyped, Hand, world
  <1>15. ASSUME NEW w \in Workers, HeartbeatFails(w) PROVE LaneMoves
    BY <1>15 DEF LaneMoves, HeartbeatFails, Interrupted, Freed, FreeWorker, Quiet, Typed, WorkersTyped, world
  <1>16. ASSUME NEW w \in Workers, Crash(w) PROVE LaneMoves
    BY <1>16 DEF LaneMoves, Crash, Down, FreeWorker, Quiet, Typed, WorkersTyped, world
  <1>17. ASSUME NEW w \in Workers, Stop(w) PROVE LaneMoves
    BY <1>17 DEF LaneMoves, Stop, Down, FreeWorker, Quiet, Typed, WorkersTyped, world
  <1>18. ASSUME NEW w \in Workers, NEW x \in SUBSET Layers, Checkpoint(w, x) PROVE
    LaneMoves
    BY <1>18 DEF LaneMoves, Checkpoint, At, Goto, Quiet, Typed, WorkersTyped, Hand, world
  <1>19. ASSUME NEW w \in Workers, NEW e \in Entries, Replayed(w, e) PROVE LaneMoves
    BY <1>19 DEF LaneMoves
  <1>20. ASSUME NEW w \in Workers, NEW e \in Entries, NEW s \in SUBSET Receipts,
    WriteRule(w, e, s) PROVE LaneMoves
    BY <1>20 DEF LaneMoves
  <1>21. ASSUME NEW m \in Messages, Enqueue(m) \/ SaveMessage(m)
       PROVE  UNCHANGED <<worker, store, applied>>
    BY <1>21 DEF Enqueue, world, SaveMessage
  <1>22. ASSUME NEW w \in Workers, Renew(w)
       PROVE  UNCHANGED <<worker, store, applied>>
    BY <1>22 DEF Renew, world
  <1>23. ASSUME NEW j \in Jobs, LeaseExpires(j)
       PROVE  UNCHANGED <<worker, store, applied>>
    BY <1>23 DEF LeaseExpires, Fault, world
  <1>24. ASSUME UNCHANGED <<worker, store, applied>> PROVE LaneMoves
    BY <1>24 DEF LaneMoves, Quiet
  <1>25. QED
    BY <1>1, <1>2, <1>3, <1>4, <1>5, <1>6, <1>7, <1>8, <1>9, <1>10, <1>11, <1>12,
      <1>13, <1>14, <1>15, <1>16, <1>17, <1>18, <1>19, <1>20, <1>21, <1>22, <1>23,
      <1>24 DEF Next, WorkerStep

\* The lane after a step that writes nothing.
LEMMA LaneQuiet ==
    ASSUME OutboxAssumption, Typed, RowsGo, OrderKept, LaneInv, Quiet, BegunAll'
    PROVE  LaneInv'
  <1>0. /\ Once /\ Present /\ Stored /\ Ordered /\ Held /\ Confirmed /\ Foremost /\ OthersNot /\ LaterNot
        /\ RowsTyped
    BY DEF LaneInv, Typed
  <1>1. \A m, n : Wrote(m, n)' <=> Wrote(m, n)
    BY DEF Quiet, Wrote
  <1>2. \A m, n : Shown(m, n)' <=> Shown(m, n)
    BY DEF Quiet, Shown
  <1>3. ASSUME NEW w \in Workers, NEW m \in InLane, Turn(w, m)'
        PROVE  Turn(w, m) /\ worker'[w] = worker[w] /\ row[L2Row(m)].st # "absent"
    BY <1>3 DEF Turn, Quiet, Typed, WorkersTyped
  <1>4. ASSUME NEW i \in InLane, Waiting(L2Row(i))'
        PROVE  Waiting(L2Row(i)) \/ (row[L2Row(i)].st = "absent" /\ \A n \in 1 .. Rules : ~Wrote(i, n))
    <2>1. L2Row(i) \in Jobs /\ i \in Messages
      BY DEF InLane
    <2>2. row[L2Row(i)].st \in Done => row'[L2Row(i)].st = row[L2Row(i)].st
      BY <1>0, <2>1, RowsStay DEF RowsGo
    <2> QED BY <1>0, <1>4, <2>1, <2>2 DEF Waiting, Present
  <1>5. \A i \in InLane : L2Row(i) \in Jobs /\ i \in Messages
    BY DEF InLane
  <1>6. Once'
    BY <1>0 DEF Once, Quiet
  <1>7. Present'
    <2>1. RowsRemain
      BY <1>0, RowsStay DEF RowsGo, RowsRemain
    <2> QED BY <1>0, <1>1, <2>1 DEF Present, RowsRemain
  <1>8. Stored' /\ Ordered'
    BY <1>0, <1>1, <1>2 DEF Stored, Ordered
  <1>9. Held'
    BY <1>0, <1>1, <1>2, <1>3, <1>4 DEF Held
  <1>10. Confirmed'
    <2> SUFFICES ASSUME NEW w \in Workers, NEW m \in InLane, Turn(w, m)'
                 PROVE  /\ \A k \in 1 .. Rules : k < worker'[w].rule =>
                              \E e \in Entries : <<e, k>> \in worker'[w].confirmed
                        /\ \A k \in 1 .. Rules, e \in Entries :
                              <<e, k>> \in worker'[w].confirmed => <<m, k>> \in store'[e]
      BY DEF Confirmed
    <2>1. Turn(w, m) /\ worker'[w] = worker[w] /\ store' = store
      BY <1>3 DEF Quiet
    <2> QED BY <1>0, <2>1 DEF Confirmed
  <1>11. Foremost'
    <2> SUFFICES ASSUME NEW w \in Workers, NEW m \in InLane, NEW i \in InLane, Turn(w, m)',
                        Waiting(L2Row(i))', Before(L2Row(i), L2Row(m))'
                 PROVE  FALSE
      BY DEF Foremost
    <2>1. row[L2Row(i)].st # "absent" /\ Before(L2Row(i), L2Row(m))
      BY <1>3, <1>5 DEF OrderKept
    <2> QED BY <1>0, <1>3, <1>4, <2>1 DEF Foremost
  <1>12. OthersNot'
    BY <1>0, <1>1, <1>3, <1>4 DEF OthersNot
  <1>13. LaterNot'
    <2> SUFFICES ASSUME NEW m \in InLane, NEW i \in InLane, NEW n \in 1 .. Rules, Wrote(i, n),
                        Waiting(L2Row(m))', Before(L2Row(m), L2Row(i))'
                 PROVE  FALSE
      BY <1>1 DEF LaterNot
    <2>1. row[L2Row(i)].st # "absent"
      BY <1>0, <1>5 DEF Present
    <2>2. row[L2Row(m)].st # "absent" /\ Before(L2Row(m), L2Row(i))
      BY <1>5, <2>1 DEF OrderKept
    <2> QED BY <1>0, <1>4, <2>2 DEF LaterNot
  <1> QED BY <1>6, <1>7, <1>8, <1>9, <1>10, <1>11, <1>12, <1>13 DEF LaneInv

\* A worker in its turn: whose it is, and that it is alone.
LEMMA TurnOf ==
    ASSUME OutboxAssumption, Typed, NEW w \in Workers, worker[w].pc \in {"ready", "turn"},
           Kind(worker[w].job) = "L2"
    PROVE  /\ worker[w].job = L2Row(Msg(worker[w].job)) /\ Msg(worker[w].job) \in InLane
           /\ worker[w].job \in Jobs /\ row[worker[w].job].st # "absent"
  <1>1. worker[w].job \in Jobs /\ row[worker[w].job].st # "absent"
    BY DEF Typed, WorkersTyped
  <1>2. Msg(worker[w].job) \in Messages /\ worker[w].job = <<"L2", Msg(worker[w].job)>>
    BY <1>1, JobOK
  <1> QED BY <1>1, <1>2 DEF InLane, L2Row

\* A worker that takes its turn in the lane keeps the lane in order.
LEMMA LaneTaken ==
    ASSUME OutboxAssumption, Typed, LaneInv, BegunAll', NEW w \in Workers, TakeTurn(w)
    PROVE  LaneInv'
  <1> DEFINE c == worker[w].job
             o == Msg(c)
  <1>0. /\ Once /\ Present /\ Stored /\ Ordered /\ Held /\ Confirmed /\ Foremost /\ OthersNot /\ LaterNot
        /\ BegunAll
    BY DEF LaneInv
  <1>1. /\ worker[w].pc = "ready" /\ Kind(c) = "L2" /\ lane = None /\ Oldest(c)
        /\ worker' = [worker EXCEPT ![w].pc = "turn"]
        /\ row' = row /\ line' = line /\ store' = store /\ applied' = applied
    BY DEF TakeTurn, At, Goto, world
  <1>2. c = L2Row(o) /\ o \in InLane /\ c \in Jobs /\ row[c].st # "absent"
    BY <1>1, TurnOf
  <1>3. worker[w].rule = 1 /\ worker[w].confirmed = {}
    BY <1>0, <1>1 DEF BegunAll, Begun
  <1>4. /\ worker'[w].rule = 1 /\ worker'[w].confirmed = {} /\ worker'[w].job = c
        /\ \A v \in Workers : v # w => worker'[v] = worker[v] /\ worker[v].pc # "turn"
    BY <1>1, <1>3, Bounds DEF Typed, WorkersTyped, Hand
  <1> HIDE DEF c, o
  <1>5. ASSUME NEW v \in Workers, NEW m \in InLane, Turn(v, m)'
        PROVE  v = w /\ m = o
    BY <1>2, <1>4, <1>5 DEF Turn, L2Row
  <1>6. /\ \A m, n : (Wrote(m, n)' <=> Wrote(m, n)) /\ (Shown(m, n)' <=> Shown(m, n))
        /\ \A j : Waiting(j)' <=> Waiting(j)
        /\ \A i, j : Before(i, j)' <=> Before(i, j)
    BY <1>1 DEF Wrote, Shown, Waiting, Before
  <1>7. Waiting(L2Row(o)) /\ \A i \in InLane : Waiting(L2Row(i)) => ~Before(L2Row(i), L2Row(o))
    BY <1>1, <1>2 DEF Oldest, InLane, L2Row
  <1>8. Once' /\ Present'
    BY <1>0, <1>1 DEF Once, Present, Wrote
  <1>9. Stored' /\ Ordered' /\ LaterNot'
    BY <1>0, <1>6 DEF Stored, Ordered, LaterNot
  <1>10. Held'
    BY <1>0, <1>5, <1>6, <1>7 DEF Held
  <1>11. Confirmed'
    <2> SUFFICES ASSUME NEW v \in Workers, NEW m \in InLane, Turn(v, m)', NEW k \in 1 .. Rules
                 PROVE  /\ k < worker'[v].rule => \E e \in Entries : <<e, k>> \in worker'[v].confirmed
                        /\ \A e \in Entries : <<e, k>> \in worker'[v].confirmed => <<m, k>> \in store'[e]
      BY DEF Confirmed
    <2> QED BY <1>4, <1>5
  <1>12. Foremost'
    BY <1>5, <1>6, <1>7 DEF Foremost
  <1>13. OthersNot'
    <2> SUFFICES ASSUME NEW i \in InLane, NEW n \in 1 .. Rules, i # o, Waiting(L2Row(i))
                 PROVE  ~Wrote(i, n)
      BY <1>5, <1>6 DEF OthersNot
    <2>1. L2Row(i) \in Jobs /\ L2Row(i) # L2Row(o) /\ row[L2Row(i)].st # "absent"
      BY DEF InLane, L2Row, Waiting
    <2>2. Before(L2Row(o), L2Row(i))
      BY <1>2, <1>7, <2>1, LineTotal DEF Typed
    <2> QED BY <1>0, <1>2, <1>7, <2>2 DEF LaterNot
  <1> QED BY <1>8, <1>9, <1>10, <1>11, <1>12, <1>13 DEF LaneInv

\* The worker after it has confirmed a rule.
LEMMA ConfirmDoes ==
    ASSUME OutboxAssumption, Typed, NEW w \in Workers, Writing(w), NEW e \in Entries, Confirm(w, e)
    PROVE  /\ worker'[w].pc = "turn" /\ worker'[w].job = worker[w].job
           /\ worker'[w].rule = worker[w].rule + 1
           /\ worker'[w].confirmed = worker[w].confirmed \cup {<<e, worker[w].rule>>}
           /\ \A v \in Workers : v # w => worker'[v] = worker[v] /\ worker[v].pc # "turn"
           /\ worker[w].pc = "turn" /\ worker[w].rule \in 1 .. Rules
           /\ Kind(worker[w].job) = "L2"
  <1>1. worker[w] \in Hand /\ worker[w].pc = "turn" /\ worker[w].rule <= Rules /\ Kind(worker[w].job) = "L2"
        /\ lane = w /\ \A v \in Workers : v # w => worker[v].pc # "turn"
    BY DEF Writing, At, Typed, WorkersTyped
  <1>2. worker[w].rule \in 1 .. Rules + 1
    BY <1>1 DEF Hand
  <1>3. worker[w].rule \in 1 .. Rules
    BY <1>1, <1>2, Bounds
  <1>4. /\ worker'[w].pc = "turn" /\ worker'[w].job = worker[w].job
        /\ worker'[w].rule = worker[w].rule + 1
        /\ worker'[w].confirmed = worker[w].confirmed \cup {<<e, worker[w].rule>>}
        /\ \A v \in Workers : v # w => worker'[v] = worker[v]
    BY <1>1 DEF Confirm, Typed, WorkersTyped, Hand
  <1> QED BY <1>1, <1>3, <1>4

\* So does one that finds its receipt and replays the answer.
LEMMA LaneReplayed ==
    ASSUME OutboxAssumption, Typed, LaneInv, BegunAll', NEW w \in Workers, NEW e \in Entries, Replayed(w, e)
    PROVE  LaneInv'
  <1> DEFINE c == worker[w].job
             o == Msg(c)
             r == worker[w].rule
  <1>0. /\ Once /\ Present /\ Stored /\ Ordered /\ Held /\ Confirmed /\ Foremost /\ OthersNot /\ LaterNot
        /\ BegunAll
    BY DEF LaneInv
  <1>1. /\ Writing(w) /\ Confirm(w, e) /\ <<o, r>> \in store[e]
        /\ row' = row /\ line' = line /\ store' = store /\ applied' = applied
    BY DEF Replayed, Receipt, world
  <1>2. /\ worker'[w].pc = "turn" /\ worker'[w].job = c /\ worker'[w].rule = r + 1
        /\ worker'[w].confirmed = worker[w].confirmed \cup {<<e, r>>}
        /\ \A v \in Workers : v # w => worker'[v] = worker[v] /\ worker[v].pc # "turn"
        /\ worker[w].pc = "turn" /\ r \in 1 .. Rules /\ Kind(c) = "L2"
    BY <1>1, ConfirmDoes
  <1>3. c = L2Row(o) /\ o \in InLane
    BY <1>2, TurnOf
  <1> HIDE DEF c, o, r
  <1>4. Turn(w, o)
    BY <1>2, <1>3 DEF Turn, c
  <1>5. ASSUME NEW v \in Workers, NEW m \in InLane, Turn(v, m)'
        PROVE  v = w /\ m = o /\ Turn(v, m)
    BY <1>2, <1>3, <1>4, <1>5 DEF Turn, L2Row
  <1>6. /\ \A m, n : (Wrote(m, n)' <=> Wrote(m, n)) /\ (Shown(m, n)' <=> Shown(m, n))
        /\ \A j : Waiting(j)' <=> Waiting(j)
        /\ \A i, j : Before(i, j)' <=> Before(i, j)
    BY <1>1 DEF Wrote, Shown, Waiting, Before
  <1>8. Once' /\ Present'
    BY <1>0, <1>1 DEF Once, Present, Wrote
  <1>9. Stored' /\ Ordered' /\ LaterNot'
    BY <1>0, <1>6 DEF Stored, Ordered, LaterNot
  <1>10. Held'
    BY <1>0, <1>5, <1>6 DEF Held
  <1>11. Confirmed'
    <2> SUFFICES ASSUME NEW k \in 1 .. Rules
                 PROVE  /\ k < r + 1 => \E x \in Entries : <<x, k>> \in worker'[w].confirmed
                        /\ \A x \in Entries : <<x, k>> \in worker'[w].confirmed => <<o, k>> \in store[x]
      BY <1>1, <1>2, <1>5 DEF Confirmed
    <2>1. /\ k < r => \E x \in Entries : <<x, k>> \in worker[w].confirmed
          /\ \A x \in Entries : <<x, k>> \in worker[w].confirmed => <<o, k>> \in store[x]
      BY <1>0, <1>3, <1>4 DEF Confirmed, r
    <2>2. k < r + 1 => k < r \/ k = r
      BY <1>2
    <2> QED BY <1>1, <1>2, <2>1, <2>2
  <1>12. Foremost' /\ OthersNot'
    BY <1>0, <1>5, <1>6 DEF Foremost, OthersNot
  <1> QED BY <1>8, <1>9, <1>10, <1>11, <1>12 DEF LaneInv

\* The store after a rule is written: what the entry keeps, and that it was not written before.
RuleWritten(w, e, o, r) ==
    /\ applied[<<o, r>>] = 0 /\ applied'[<<o, r>>] = 1
    /\ \A m \in Messages, n \in 1 .. Rules :
          <<m, n>> # <<o, r>> => applied'[<<m, n>>] = applied[<<m, n>>]
    /\ \A x \in Entries : x # e => store'[x] = store[x]
    /\ <<o, r>> \in store'[e]
    /\ \A k \in 1 .. Rules : <<e, k>> \in worker[w].confirmed => <<o, k>> \in store'[e]
    /\ \A m \in Messages, n \in 1 .. Rules :
          <<m, n>> \in store'[e] => <<m, n>> = <<o, r>> \/ Shown(m, n)

\* What the writing of a rule does to the entry, the receipts and the lane.
LEMMA WriteDoes ==
    ASSUME OutboxAssumption, Typed, LaneInv, NEW w \in Workers, NEW e \in Entries,
           NEW s \in SUBSET Receipts, WriteRule(w, e, s),
           NEW o \in InLane, Turn(w, o), NEW r \in 1 .. Rules, r = worker[w].rule
    PROVE  RuleWritten(w, e, o, r)
  <1>1. o \in Messages /\ Msg(worker[w].job) = o /\ Receipt(w) = <<o, r>> /\ <<o, r>> \in Receipts
    BY JobsOK DEF InLane, Turn, L2Row, Receipt, Receipts, Msg
  <1>2. \A x \in Entries : <<o, r>> \notin store[x]
    BY <1>1 DEF WriteRule
  <1>3. applied[<<o, r>>] = 0
    <2>1. ~Wrote(o, r)
      BY <1>2 DEF LaneInv, Held, Shown
    <2>2. applied[<<o, r>>] \in 0 .. 2
      BY <1>1 DEF Typed, StoreTyped
    <2> QED BY <2>1, <2>2 DEF Wrote
  <1>4. applied' = [applied EXCEPT ![<<o, r>>] = IF applied[<<o, r>>] = 2 THEN 2 ELSE applied[<<o, r>>] + 1]
    BY <1>1 DEF WriteRule
  <1>5. applied'[<<o, r>>] = 1
    BY <1>1, <1>3, <1>4 DEF Typed, StoreTyped
  <1>6. \A m \in Messages, n \in 1 .. Rules : <<m, n>> # <<o, r>> => applied'[<<m, n>>] = applied[<<m, n>>]
    <2>1. \A q \in Receipts : q # <<o, r>> => applied'[q] = applied[q]
      BY <1>4 DEF Typed, StoreTyped
    <2> QED BY <2>1 DEF Receipts
  <1> DEFINE C == {k \in 1 .. Rules : <<e, k>> \in worker[w].confirmed}
             K == (s \cap {q \in store[e] : q[1] = o}) \cup {<<o, n>> : n \in C}
  <1>7. store' = [store EXCEPT ![e] = K \cup {<<o, r>>}]
    BY <1>1 DEF WriteRule, Kept
  <1>8. ASSUME NEW n \in C PROVE <<o, n>> \in K /\ <<o, n>> \in store[e]
    BY DEF LaneInv, Confirmed
  <1>9. \A q \in K : q \in store[e]
    BY <1>8
  <1>10. \A k \in 1 .. Rules : <<e, k>> \in worker[w].confirmed => <<o, k>> \in K
    OBVIOUS
  <1> HIDE DEF C, K
  <1>11. store'[e] = K \cup {<<o, r>>} /\ \A x \in Entries : x # e => store'[x] = store[x]
    BY <1>7 DEF Typed, StoreTyped
  <1> QED BY <1>3, <1>5, <1>6, <1>9, <1>10, <1>11 DEF RuleWritten, Shown

\* A worker that writes a rule keeps the lane in order.
LEMMA LaneWritten ==
    ASSUME OutboxAssumption, Typed, LaneInv, BegunAll', NEW w \in Workers, NEW e \in Entries,
           NEW s \in SUBSET Receipts, WriteRule(w, e, s)
    PROVE  LaneInv'
  <1>0. /\ Once /\ Present /\ Stored /\ Ordered /\ Held /\ Confirmed /\ Foremost /\ OthersNot /\ LaterNot
        /\ BegunAll
    BY DEF LaneInv
  <1>1. Writing(w) /\ Confirm(w, e) /\ row' = row /\ line' = line
    BY DEF WriteRule
  <1>a. PICK r \in 1 .. Rules : r = worker[w].rule
    BY <1>1, ConfirmDoes
  <1>2. /\ worker'[w].pc = "turn" /\ worker'[w].job = worker[w].job /\ worker'[w].rule = r + 1
        /\ worker'[w].confirmed = worker[w].confirmed \cup {<<e, r>>}
        /\ \A v \in Workers : v # w => worker'[v] = worker[v] /\ worker[v].pc # "turn"
        /\ worker[w].pc = "turn" /\ Kind(worker[w].job) = "L2"
    BY <1>1, <1>a, ConfirmDoes
  <1>3. PICK o \in InLane : worker[w].job = L2Row(o) /\ row[L2Row(o)].st # "absent" /\ L2Row(o) \in Jobs
    BY <1>2, TurnOf
  <1>4. Turn(w, o) /\ o \in Messages
    BY <1>2, <1>3 DEF Turn, InLane
  <1>5. /\ applied[<<o, r>>] = 0 /\ applied'[<<o, r>>] = 1
        /\ \A m \in Messages, n \in 1 .. Rules :
              <<m, n>> # <<o, r>> => applied'[<<m, n>>] = applied[<<m, n>>]
        /\ \A x \in Entries : x # e => store'[x] = store[x]
        /\ <<o, r>> \in store'[e]
        /\ \A k \in 1 .. Rules : <<e, k>> \in worker[w].confirmed => <<o, k>> \in store'[e]
        /\ \A m \in Messages, n \in 1 .. Rules :
              <<m, n>> \in store'[e] => <<m, n>> = <<o, r>> \/ Shown(m, n)
    <2>1. RuleWritten(w, e, o, r)
      BY <1>a, <1>4, WriteDoes
    <2> QED BY <2>1 DEF RuleWritten
  <1>6. /\ \A k \in 1 .. Rules : k < r => \E x \in Entries : <<x, k>> \in worker[w].confirmed
        /\ \A k \in 1 .. Rules, x \in Entries : <<x, k>> \in worker[w].confirmed => <<o, k>> \in store[x]
    BY <1>0, <1>a, <1>4 DEF Confirmed
  <1>7. ASSUME NEW v \in Workers, NEW m \in InLane, Turn(v, m)'
        PROVE  v = w /\ m = o
    BY <1>2, <1>3, <1>7 DEF Turn, L2Row
  <1>8. \A m \in Messages, n \in 1 .. Rules : Wrote(m, n)' <=> Wrote(m, n) \/ (m = o /\ n = r)
    <2> SUFFICES ASSUME NEW m \in Messages, NEW n \in 1 .. Rules
                 PROVE  Wrote(m, n)' <=> Wrote(m, n) \/ (m = o /\ n = r)
      OBVIOUS
    <2>1. CASE m = o /\ n = r
      BY <1>5, <2>1 DEF Wrote
    <2>2. CASE ~(m = o /\ n = r)
      BY <1>5, <2>2 DEF Wrote
    <2> QED BY <2>1, <2>2
  <1>9. ~Wrote(o, r) /\ \A k \in 1 .. Rules : r < k => ~Wrote(o, k)
    BY <1>0, <1>2, <1>4, <1>5 DEF Ordered, Wrote
  <1>10. \A j : (Waiting(j)' <=> Waiting(j))
    BY <1>1 DEF Waiting
  <1>11. \A i, j : Before(i, j)' <=> Before(i, j)
    BY <1>1 DEF Before
  <1>12. \A i \in InLane : i \in Messages
    BY DEF InLane
  <1>13. ASSUME NEW k \in 1 .. Rules, k < r \/ k = r PROVE Shown(o, k)' /\ Wrote(o, k)'
    <2>1. CASE k = r
      BY <1>4, <1>5, <1>8, <2>1 DEF Shown
    <2>2. CASE k < r
      <3>1. PICK x \in Entries : <<x, k>> \in worker[w].confirmed
        BY <1>6, <2>2
      <3>2. <<o, k>> \in store[x]
        BY <1>6, <3>1
      <3>3. <<o, k>> \in store'[x]
        BY <1>5, <3>1, <3>2
      <3>4. Wrote(o, k)
        BY <1>0, <1>4, <3>2 DEF Stored, Shown
      <3> QED BY <1>4, <1>8, <3>3, <3>4 DEF Shown
    <2> QED BY <1>13, <2>1, <2>2
  <1>14. Once'
    <2> SUFFICES ASSUME NEW m \in Messages, NEW n \in 1 .. Rules PROVE applied'[<<m, n>>] <= 1
      BY DEF Once
    <2>1. CASE <<m, n>> = <<o, r>>
      BY <1>5, <2>1
    <2>2. CASE <<m, n>> # <<o, r>>
      BY <1>0, <1>5, <2>2 DEF Once
    <2> QED BY <2>1, <2>2
  <1>15. Present'
    BY <1>0, <1>1, <1>3, <1>8 DEF Present
  <1>16. Stored'
    <2> SUFFICES ASSUME NEW m \in Messages, NEW n \in 1 .. Rules, NEW x \in Entries, <<m, n>> \in store'[x]
                 PROVE  Wrote(m, n)'
      BY DEF Stored, Shown
    <2>1. <<m, n>> = <<o, r>> \/ Shown(m, n)
      BY <1>5 DEF Shown
    <2> QED BY <1>0, <1>8, <2>1 DEF Stored
  <1>17. Ordered'
    <2> SUFFICES ASSUME NEW m \in Messages, NEW n \in 1 .. Rules, NEW k \in 1 .. Rules, n < k, Wrote(m, k)'
                 PROVE  Wrote(m, n)'
      BY DEF Ordered
    <2>1. CASE m = o /\ k = r
      BY <1>13, <2>1
    <2>2. CASE ~(m = o /\ k = r)
      BY <1>0, <1>8, <2>2 DEF Ordered
    <2> QED BY <2>1, <2>2
  <1>18. Held'
    <2> SUFFICES ASSUME NEW m \in InLane, NEW n \in 1 .. Rules, Wrote(m, n)',
                        Waiting(L2Row(m)) \/ \E v \in Workers : Turn(v, m)'
                 PROVE  Shown(m, n)'
      BY <1>10 DEF Held
    <2>1. CASE m = o
      <3>1. n < r \/ n = r
        <4>1. ~(r < n)
          BY <1>8, <1>9, <1>12, <2>1
        <4> QED BY <1>2, <4>1
      <3> QED BY <1>13, <2>1, <3>1
    <2>2. CASE m # o
      <3>1. Waiting(L2Row(m))
        BY <1>7, <2>2
      <3>2. ~Wrote(m, n)
        BY <1>0, <1>3, <1>4, <2>2, <3>1 DEF OthersNot
      <3> QED BY <1>8, <1>12, <2>2, <3>2
    <2> QED BY <2>1, <2>2
  <1>19. Confirmed'
    <2>1. ASSUME NEW k \in 1 .. Rules, k < worker'[w].rule
          PROVE  \E x \in Entries : <<x, k>> \in worker'[w].confirmed
      <3>1. k < r \/ k = r
        BY <1>2, <2>1
      <3> QED BY <1>2, <1>6, <3>1
    <2>2. ASSUME NEW k \in 1 .. Rules, NEW x \in Entries, <<x, k>> \in worker'[w].confirmed
          PROVE  <<o, k>> \in store'[x]
      <3>1. CASE <<x, k>> \in worker[w].confirmed
        BY <1>5, <1>6, <3>1
      <3>2. CASE x = e /\ k = r
        BY <1>5, <3>2
      <3> QED BY <1>2, <2>2, <3>1, <3>2
    <2>3. ASSUME NEW v \in Workers, NEW m \in InLane, Turn(v, m)'
          PROVE  /\ \A k \in 1 .. Rules : k < worker'[v].rule =>
                       \E x \in Entries : <<x, k>> \in worker'[v].confirmed
                 /\ \A k \in 1 .. Rules, x \in Entries :
                       <<x, k>> \in worker'[v].confirmed => <<m, k>> \in store'[x]
      <3>1. v = w /\ m = o
        BY <1>7, <2>3
      <3> QED BY <2>1, <2>2, <3>1
    <2> QED BY <2>3 DEF Confirmed
  <1>20. Foremost'
    BY <1>0, <1>3, <1>4, <1>7, <1>10, <1>11 DEF Foremost
  <1>21. OthersNot'
    BY <1>0, <1>3, <1>4, <1>7, <1>8, <1>10, <1>12 DEF OthersNot
  <1>22. LaterNot'
    <2> SUFFICES ASSUME NEW m \in InLane, NEW i \in InLane, NEW n \in 1 .. Rules, Waiting(L2Row(m)),
                        Before(L2Row(m), L2Row(i)), Wrote(i, n)'
                 PROVE  FALSE
      BY <1>10, <1>11 DEF LaterNot
    <2>1. i # o
      BY <1>0, <1>3, <1>4 DEF Foremost
    <2> QED BY <1>0, <1>8, <1>12, <2>1 DEF LaterNot
  <1> QED BY <1>14, <1>15, <1>16, <1>17, <1>18, <1>19, <1>20, <1>21, <1>22 DEF LaneInv

\* The lane is in order along every behaviour with no late heartbeat and no clock off.
LEMMA LaneAlways == ASSUME NoLate, NoSkew PROVE Spec => []LaneInv
  <1>1. Init => LaneInv
    <2> SUFFICES ASSUME Init PROVE LaneInv
      OBVIOUS
    <2>1. /\ \A m \in Messages, n \in 1 .. Rules : applied[<<m, n>>] = 0
          /\ \A m, n : ~Shown(m, n)
          /\ \A w \in Workers : worker[w].pc = "free"
      BY DEF Init, Receipts, Shown, FreeWorker
    <2>2. \A m \in InLane : m \in Messages
      BY DEF InLane
    <2> QED BY <2>1, <2>2
            DEF LaneInv, Once, Present, Stored, Ordered, Held, Confirmed, Foremost, OthersNot, LaterNot,
                BegunAll, Begun, Wrote, Turn
  <1>2. TypedI /\ LaneInv /\ [Next]_vars => LaneInv'
    <2>1. ASSUME TypedI, LaneInv, Next PROVE LaneInv'
      <3>1. Typed /\ RowsGo /\ OrderKept /\ LaneMoves /\ BegunAll'
        BY <2>1, OutboxAssumption, NoLate, NoSkew, TypedStep, OrderStep, LaneSteps, BegunStep DEF TypedI, LaneInv
      <3> QED BY <2>1, <3>1, OutboxAssumption, LaneQuiet, LaneTaken, LaneReplayed, LaneWritten DEF LaneMoves
    <2>2. ASSUME LaneInv, UNCHANGED vars PROVE LaneInv'
      BY <2>2 DEF vars, world, LaneInv, Once, Present, Stored, Ordered, Held, Confirmed, Foremost, OthersNot,
             LaterNot, BegunAll, Begun, Wrote, Shown, Turn, Waiting, Before
    <2> QED BY <2>1, <2>2
  <1> QED BY <1>1, <1>2, TypedAlways, PTL DEF Spec

\* EffectOnce: a rule changes the store once, whatever crashes before the acknowledgement.
THEOREM EffectOnceAlways == ASSUME NoLate, NoSkew PROVE Spec => []EffectOnce
  <1>1. ASSUME LaneInv PROVE EffectOnce
    <2> SUFFICES ASSUME NEW q \in Receipts PROVE applied[q] <= 1
      BY DEF EffectOnce
    <2>1. PICK m \in Messages, n \in 1 .. Rules : q = <<m, n>>
      BY DEF Receipts
    <2> QED BY <1>1, <2>1 DEF LaneInv, Once
  <1>2. LaneInv => EffectOnce
    BY <1>1
  <1> QED BY <1>2, LaneAlways, PTL

\* ReceiptsKept: what a row that may run again has written can be recognised.
THEOREM ReceiptsKeptAlways == ASSUME NoLate, NoSkew PROVE Spec => []ReceiptsKept
  <1>1. ASSUME LaneInv PROVE ReceiptsKept
    <2> SUFFICES ASSUME NEW q \in Receipts, applied[q] > 0, Waiting(<<"L2", q[1]>>)
                 PROVE  \E e \in Entries : q \in store[e]
      BY DEF ReceiptsKept
    <2>1. PICK m \in Messages, n \in 1 .. Rules : q = <<m, n>>
      BY DEF Receipts
    <2>2. Wrote(m, n) /\ Waiting(L2Row(m)) /\ m \in InLane
      BY <1>1, <2>1 DEF Wrote, L2Row, LaneInv, Present, InLane
    <2> QED BY <1>1, <2>1, <2>2 DEF LaneInv, Held, Shown
  <1>2. LaneInv => ReceiptsKept
    BY <1>1
  <1> QED BY <1>2, LaneAlways, PTL

=============================================================================
