--------------------------- MODULE HistoryProofs ---------------------------
(***************************************************************************)
(* Proofs about History for any conversations, messages, limits and any    *)
(* number of starts, stops, crashes and failures.                          *)
(***************************************************************************)
EXTENDS History, FiniteSetTheorems, WellFoundedInduction, TLAPS

(* A database: a row is active, consumed, or held by one shard, and a      *)
(* shard names every message it holds.  It may name more: a save may have  *)
(* dropped the row of a message before the shard of its turn was made.     *)
Named(d, S) == UNION {d.shards[s].ids : s \in S}
HeldIds(d) == Named(d, Live(d))

(* Each message of L is in K, or Limit - 1 newer ones of its conversation  *)
(* are: the newest so many (Core) cover the rest.                          *)
Core(S) == Latest(S, Limit - 1)
Covers(K, L) == \A m \in L : m \in K \/ Cardinality(Newer(K, m)) >= Limit - 1

Database == [active : SUBSET Msg, consumed : SUBSET Msg, shards : [Shard -> ShardRow \cup {NoShard}]]
Whole(d) ==
  /\ d \in Database
  /\ d.active \cap d.consumed = {}
  /\ \A s \in Live(d) : /\ d.shards[s].rows \subseteq d.shards[s].ids
                        /\ d.shards[s].ids \subseteq Of(d.shards[s].key)
                        /\ d.shards[s].ids \cap (d.active \cup d.consumed) = {}
  /\ \A s, x \in Live(d) : s # x => d.shards[s].ids \cap d.shards[x].ids = {}

(* A shard out of attempts never survives the transaction that fails it.   *)
Tried(d) == \A s \in Live(d) : d.shards[s].attempts < MaxAttempts

Types ==
  /\ window \subseteq Msg
  /\ version \in [Key -> Nat]
  /\ chain \in [Key -> Seq(Task)]
  /\ owner \in Owner /\ owner[1] = crashes + 1 /\ crashes \in 0..MaxCrashes
  /\ worker \in BOOLEAN /\ ticking \in BOOLEAN /\ open \in BOOLEAN
  /\ loading \in {NotLoading} \cup SUBSET Key
  /\ flushes \subseteq Key \X Nat \X Msg
  /\ loads \in 0..MaxLoads /\ stops \in Nat /\ fails \in Nat /\ stalls \in Nat /\ dbErrors \in Nat
  /\ used \subseteq Msg /\ saved \subseteq Msg
  /\ sent \subseteq Msg /\ resent \subseteq sent /\ excused \subseteq Msg

(* A task that waits behind another has done nothing yet.                  *)
Waiting(t) == t.pc = "queued" /\ t.kind # "worker" /\ t.shard = 0 /\ t.snap = {}
Unbegun(t) == t.kind = "turn" /\ t.pc \in {"queued", "running"}
Pending(c) == {c[i].msg : i \in {j \in 1..Len(c) : Unbegun(c[j])}}
Front(c) == IF c = <<>> THEN {} ELSE {Head(c)}

(* The chain c of conversation k, u being the messages seen.               *)
ChainOK(k, c, u) ==
  /\ c \in Seq(Task)
  /\ \A i \in 2..Len(c) : Waiting(c[i])
  /\ \A i \in 1..Len(c) : c[i].kind = "turn" => c[i].msg \in u \cap Of(k)
  /\ \A i, j \in 1..Len(c) : c[i].kind = "turn" /\ c[j].kind = "turn" /\ c[i].msg = c[j].msg => i = j

(* What the task at the head of a chain knows of its shard, of its         *)
(* snapshot, and of what the host has.                                     *)
Sending(t) == t.pc \in {"upload", "settling"}
Shape(k, t) ==
  /\ t.snap \subseteq Of(k)
  /\ t.pc \in {"queued", "running", "reconcile"} /\ t.kind # "worker" => t.snap = {} /\ t.shard = 0
  /\ t.kind = "worker" => t.pc \in {"running", "upload", "settling"} /\ t.shard # 0
  /\ t.pc = "context" => t.shard = 0
Carries(k, t, d) ==
  t.shard # 0 => /\ t.shard \in Live(d) /\ d.shards[t.shard].key = k
                 /\ d.shards[t.shard].ids = t.snap /\ d.shards[t.shard].status # "completed"
Ready(t, d) == t.pc = "context" => t.snap \cap (d.consumed \cup HeldIds(d)) = {}
Accounted(t, d) ==
  /\ Sending(t) => \/ t.snap \subseteq excused
                   \/ /\ t.shard # 0 /\ d.shards[t.shard].status = "processing"
                      /\ d.shards[t.shard].owner = t.owner
  /\ IF t.pc = "settling" THEN Core(t.snap) \subseteq sent ELSE t.snap \cap sent \subseteq excused
HeadOK(k, t) == Shape(k, t) /\ Carries(k, t, db) /\ Ready(t, db) /\ Accounted(t, db)

Settling(k, s) == \E t \in Front(chain[k]) : t.pc = "settling" /\ t.shard = s
ShardOK(s) ==
  /\ db.shards[s].status = "completed" => Core(db.shards[s].ids) \subseteq sent
  /\ \/ db.shards[s].status = "completed"
     \/ \E k \in Key : Settling(k, s)
     \/ db.shards[s].ids \cap sent \subseteq excused

(* The messages that have a trace: all but those of turns not yet begun.   *)
Traced(m) ==
  \/ m \in window \cup db.active \cup db.consumed \cup HeldIds(db) \cup sent
  \/ \E k \in Key : \E t \in Front(chain[k]) : m \in t.snap

WindowOK == window \cap (db.consumed \cup HeldIds(db)) = {}
ChainsOK == \A k \in Key : ChainOK(k, chain[k], used)
HeadsOK == \A k \in Key : \A t \in Front(chain[k]) : HeadOK(k, t)
ShardsOK == \A s \in Live(db) : ShardOK(s)
UnsentOK == (window \cup db.active) \cap sent \subseteq excused
TracesOK == \A m \in Msg : Traced(m) => m \in used /\ \A k \in Key : m \notin Pending(chain[k])

IInv ==
  /\ Types /\ Whole(db) /\ Tried(db)
  /\ ChainsOK /\ HeadsOK /\ ShardsOK
  /\ WindowOK /\ UnsentOK /\ TracesOK
  /\ DurableUntilSent /\ SentOnce

-----------------------------------------------------------------------------
(* Numbers.                                                                *)

(* The induction over finite sets, as a minimal counterexample.            *)
LEMMA Extremes ==
  ASSUME NEW S, S \subseteq Nat, IsFiniteSet(S), S # {}
  PROVE  /\ \E x \in S : \A y \in S : y <= x
         /\ \E x \in S : \A y \in S : x <= y
<1> DEFINE Good(U) == /\ \E x \in U : \A y \in U : y <= x
                      /\ \E x \in U : \A y \in U : x <= y
           Bad == {U \in SUBSET S : U # {} /\ ~Good(U)}
<1>1. SUFFICES ASSUME Bad # {} PROVE FALSE
  OBVIOUS
<1>2. Bad \subseteq FiniteSubsetsOf(S)
  BY FS_Subset DEF FiniteSubsetsOf
<1>3. PICK U \in Bad : \A V \in Bad : ~(<<V, U>> \in StrictSubsetOrdering(S))
  <2> HIDE DEF Bad
  <2> QED
    BY <1>1, <1>2, FS_StrictSubsetOrderingWellFounded, WFMin
<1>4. PICK x \in U : TRUE
  OBVIOUS
<1>5. CASE U = {x}
  BY <1>5
<1>6. CASE U # {x}
  <2>1. U \ {x} \notin Bad
    BY <1>3, <1>4 DEF StrictSubsetOrdering
  <2>2. Good(U \ {x})
    BY <1>4, <1>6, <2>1
  <2>3. PICK a \in U \ {x}, b \in U \ {x} : \A y \in U \ {x} : y <= a /\ b <= y
    BY <2>2
  <2>4. \A y \in U : y <= IF a <= x THEN x ELSE a
    BY <1>4, <2>3
  <2>5. \A y \in U : (IF x <= b THEN x ELSE b) <= y
    BY <1>4, <2>3
  <2> QED
    BY <2>3, <2>4, <2>5
<1> QED
  BY <1>5, <1>6

LEMMA SmallestIn ==
  ASSUME NEW S, S \subseteq Shard, S # {}
  PROVE  Smallest(S) \in S
<1>1. IsFiniteSet(S) /\ S \subseteq Nat
  BY FS_Subset, HistoryAssumption
<1>2. \E x \in S : \A y \in S : x <= y
  BY <1>1, Extremes
<1> QED
  BY <1>2 DEF Smallest

LEMMA NextIsNew ==
  ASSUME NEW d
  PROVE  NextShardId(d) \notin Live(d)
<1>1. Live(d) \subseteq Shard /\ Shard \subseteq Nat /\ IsFiniteSet(Live(d))
  BY FS_Subset, HistoryAssumption DEF Live
<1>2. CASE Live(d) = {}
  BY <1>2
<1>3. CASE Live(d) # {}
  <2> DEFINE n == CHOOSE x \in Live(d) : \A y \in Live(d) : y <= x
  <2>1. \E x \in Live(d) : \A y \in Live(d) : y <= x
    BY <1>1, <1>3, Extremes
  <2>2. n \in Live(d) /\ \A y \in Live(d) : y <= n
    BY <2>1
  <2>3. NextShardId(d) = 1 + n
    BY <1>3 DEF NextShardId
  <2> HIDE DEF n
  <2>4. n \in Nat /\ \A y \in Live(d) : y \in Nat
    BY <1>1, <2>2
  <2>5. 1 + n \notin Live(d)
    BY <2>2, <2>4
  <2> QED
    BY <2>3, <2>5
<1> QED
  BY <1>2, <1>3

LEMMA CountIn ==
  ASSUME NEW S, S \subseteq Msg, NEW T, T \subseteq S
  PROVE  /\ IsFiniteSet(S) /\ IsFiniteSet(T)
         /\ Cardinality(S) \in Nat /\ Cardinality(T) \in Nat /\ Cardinality(T) <= Cardinality(S)
<1>1. IsFiniteSet(S)
  BY FS_Subset, HistoryAssumption
<1>2. IsFiniteSet(T) /\ Cardinality(T) <= Cardinality(S)
  BY <1>1, FS_Subset
<1> QED
  BY <1>1, <1>2, FS_CardinalityType

(* More messages, and an older one, have more that are newer.              *)
LEMMA NewerGrows ==
  ASSUME NEW K, K \subseteq Msg, NEW L, L \subseteq Msg, NEW m \in Msg, NEW x \in Msg,
         Newer(K, x) \subseteq Newer(L, m), NEW n \in Nat, Cardinality(Newer(K, x)) >= n
  PROVE  Cardinality(Newer(L, m)) >= n
<1>1. Newer(L, m) \subseteq Msg
  BY DEF Newer
<1>2. PICK T, S : T = Newer(K, x) /\ S = Newer(L, m)
  OBVIOUS
<1>3. Cardinality(S) \in Nat /\ Cardinality(T) \in Nat /\ Cardinality(T) <= Cardinality(S)
  BY <1>1, <1>2, CountIn
<1> QED
  BY <1>2, <1>3

LEMMA CoverSize == Limit - 1 \in Nat
<1>1. Limit \in Nat /\ 2 <= Limit
  BY HistoryAssumption
<1> QED
  BY <1>1

LEMMA CoversMore ==
  ASSUME NEW K, NEW L, L \subseteq Msg, K \subseteq L, NEW M, M \subseteq Msg, Covers(K, M)
  PROVE  Covers(L, M)
<1> SUFFICES ASSUME NEW m \in M, m \notin L PROVE Cardinality(Newer(L, m)) >= Limit - 1
  BY DEF Covers
<1>1. Cardinality(Newer(K, m)) >= Limit - 1
  BY DEF Covers
<1>2. Newer(K, m) \subseteq Newer(L, m)
  BY DEF Newer
<1> QED
  <2>1. K \subseteq Msg /\ m \in Msg
    OBVIOUS
  <2> QED
    BY <1>1, <1>2, <2>1, NewerGrows, CoverSize

(* The newest n messages of each conversation cover the rest.              *)
LEMMA LatestCovers ==
  ASSUME NEW S, S \subseteq Msg, NEW n \in Nat, Limit - 1 <= n
  PROVE  Latest(S, n) \subseteq S /\ Covers(Latest(S, n), S)
<1> DEFINE K == Latest(S, n)
<1>1. K \subseteq S
  BY DEF Latest
<1> SUFFICES ASSUME NEW m \in S, m \notin K PROVE Cardinality(Newer(K, m)) >= Limit - 1
  BY <1>1 DEF Covers
<1>2. PICK Old : Old = {x \in S \ K : KeyOf[x] = KeyOf[m]}
  OBVIOUS
<1>3. Msg \subseteq Nat /\ IsFiniteSet(Msg) /\ Limit - 1 \in Nat
  BY HistoryAssumption
<1>4. Old \subseteq Msg /\ Old \subseteq Nat /\ IsFiniteSet(Old) /\ m \in Old
  BY <1>2, <1>3, FS_Subset
<1>5. PICK z \in Old : \A y \in Old : y <= z
  BY <1>4, Extremes
<1>6. PICK c : c = Cardinality(Newer(S, z)) /\ c \in Nat
  <2>1. Newer(S, z) \subseteq Msg
    BY DEF Newer
  <2> QED
    BY <2>1, CountIn
<1>7. c >= n
  BY <1>2, <1>5, <1>6 DEF Latest
<1>8. Newer(S, z) \subseteq Newer(K, m)
  <2> SUFFICES ASSUME NEW x \in S, KeyOf[x] = KeyOf[z], x > z PROVE x \in K /\ KeyOf[x] = KeyOf[m] /\ x > m
    BY DEF Newer
  <2>1. x \in Nat /\ z \in Nat /\ m \in Nat /\ m <= z
    BY <1>3, <1>4, <1>5
  <2>2. KeyOf[x] = KeyOf[m]
    BY <1>2, <1>5
  <2>3. x \notin Old
    BY <1>5, <2>1
  <2> QED
    BY <1>2, <2>1, <2>2, <2>3
<1> HIDE DEF K
<1>9. c >= Limit - 1
  BY <1>3, <1>6, <1>7
<1>10. K \subseteq Msg /\ z \in Msg
  BY <1>1, <1>4, <1>5
<1> QED
  BY <1>3, <1>6, <1>8, <1>9, <1>10, NewerGrows

(* Cover upon cover: the newer ones of a lost message stand for the older. *)
LEMMA CoversChain ==
  ASSUME NEW K, NEW L, NEW M, K \subseteq Msg, L \subseteq Msg, M \subseteq Msg, Covers(K, L), Covers(L, M)
  PROVE  Covers(K, M)
<1> SUFFICES ASSUME NEW m \in M, m \notin K PROVE Cardinality(Newer(K, m)) >= Limit - 1
  BY DEF Covers
<1>1. CASE m \in L
  BY <1>1 DEF Covers
<1>2. CASE m \notin L
  <2>1. Cardinality(Newer(L, m)) >= Limit - 1
    BY <1>2 DEF Covers
  <2>2. CASE Newer(L, m) \subseteq K
    <3>1. Newer(L, m) \subseteq Newer(K, m)
      BY <2>2 DEF Newer
    <3> QED
      BY <2>1, <3>1, NewerGrows, CoverSize
  <2>3. CASE ~(Newer(L, m) \subseteq K)
    <3>1. PICK x : x \in L /\ KeyOf[x] = KeyOf[m] /\ x > m /\ x \notin K
      BY <2>3 DEF Newer
    <3>2. x \in Msg /\ m \in Msg
      BY <3>1
    <3>3. Cardinality(Newer(K, x)) >= Limit - 1
      BY <3>1 DEF Covers
    <3>4. Newer(K, x) \subseteq Newer(K, m)
      <4> SUFFICES ASSUME NEW y \in K, KeyOf[y] = KeyOf[x], y > x PROVE KeyOf[y] = KeyOf[m] /\ y > m
        BY DEF Newer
      <4>1. x \in Nat /\ m \in Nat /\ y \in Nat
        BY <3>2, HistoryAssumption
      <4> QED
        BY <3>1, <4>1
    <3> QED
      BY <3>2, <3>3, <3>4, NewerGrows, CoverSize
  <2> QED
    BY <2>2, <2>3
<1> QED
  BY <1>1, <1>2

LEMMA CoversSame ==
  ASSUME NEW K, NEW L, L \subseteq K
  PROVE  Covers(K, L)
BY DEF Covers

(* What a turn carries is of what it settles, and covers it.               *)
LEMMA EntriesBetween ==
  ASSUME NEW S, S \subseteq Msg, NEW reply
  PROVE  Core(S) \subseteq Entries(S, reply) /\ Entries(S, reply) \subseteq S
<1>1. ASSUME NEW m \in Core(S) PROVE m \in Latest(S, Limit)
  <2>1. m \in S /\ Cardinality(Newer(S, m)) < Limit - 1
    BY DEF Core, Latest
  <2>2. Newer(S, m) \subseteq Msg
    BY DEF Newer
  <2>3. PICK c : c = Cardinality(Newer(S, m)) /\ c \in Nat
    BY <2>2, CountIn
  <2>4. c < Limit
    BY <2>1, <2>3, HistoryAssumption
  <2> QED
    BY <2>1, <2>3, <2>4 DEF Latest
<1>2. Core(S) = Latest(S, Limit - 1) /\ Latest(S, Limit) \subseteq S /\ Latest(S, Limit - 1) \subseteq S
  BY DEF Core, Latest
<1> QED
  BY <1>1, <1>2 DEF Entries

LEMMA CoreCovers ==
  ASSUME NEW S, S \subseteq Msg, NEW K, K \subseteq Msg, Core(S) \subseteq K
  PROVE  Covers(K, S)
<1>1. Limit - 1 \in Nat /\ Limit - 1 <= Limit - 1
  BY HistoryAssumption
<1>2. Covers(Core(S), S)
  BY <1>1, LatestCovers DEF Core
<1> QED
  BY <1>2, CoversMore

LEMMA CappedCovers ==
  ASSUME NEW S, S \subseteq Msg
  PROVE  Capped(S) \subseteq S /\ Covers(Capped(S), S)
<1>1. Cap \in Nat /\ Limit - 1 <= Cap
  BY HistoryAssumption
<1> QED
  BY <1>1, LatestCovers DEF Capped

-----------------------------------------------------------------------------
(* The database: what the transactions make of a whole one.                *)

LEMMA LiveRow ==
  ASSUME NEW d \in Database
  PROVE  /\ Live(d) \subseteq Shard
         /\ \A s \in Live(d) : d.shards[s] \in ShardRow
         /\ \A s \in Shard : s \in Live(d) <=> d.shards[s] \in ShardRow
BY ShardAssumption DEF Database, Live

LEMMA RowsHold ==
  ASSUME NEW d, Whole(d)
  PROVE  /\ HeldRows(d) \subseteq HeldIds(d) /\ HeldIds(d) \subseteq Msg
         /\ d.active \cap (d.consumed \cup HeldIds(d)) = {}
<1>1. \A s \in Live(d) : d.shards[s].ids \subseteq Msg
  BY DEF Whole, Of
<1> QED
  BY <1>1 DEF Whole, HeldRows, Rows, HeldIds, Named

Back(r) == [r EXCEPT !.status = "queued", !.owner = NoOwner, !.stale = FALSE]
Same(r, q) == q.key = r.key /\ q.ids = r.ids /\ q.rows = r.rows

Swept(d, f, back, done, terminal) ==
  /\ Whole(f)
  /\ Live(f) = Live(d) \ (done \cup terminal)
  /\ \A s \in Live(f) : f.shards[s] = IF s \in back THEN Back(d.shards[s]) ELSE d.shards[s]
  /\ \A s \in Live(f) : Same(d.shards[s], f.shards[s])
  /\ f.active = d.active \cup Rows(d, terminal)
  /\ f.consumed = d.consumed \cup Named(d, done)

LEMMA SweepOK ==
  ASSUME NEW d, Whole(d), NEW back \in SUBSET Live(d), NEW done \in SUBSET Live(d),
         NEW terminal \in SUBSET Live(d), done \cap terminal = {}
  PROVE  Swept(d, Sweep(d, back, done, terminal), back, done, terminal)
<1> DEFINE e == Sweep(d, back, done, terminal)
           gone == done \cup terminal
<1>1. /\ d \in Database /\ d.shards \in [Shard -> ShardRow \cup {NoShard}]
      /\ d.active \subseteq Msg /\ d.consumed \subseteq Msg
  BY DEF Whole, Database
<1>2. \A s \in Live(d) : d.shards[s] \in ShardRow
  BY <1>1, LiveRow
<1>3. ConsumedBy(d, done) = Named(d, done)
  BY DEF Whole, ConsumedBy, Named
<1>4. /\ e.active = (d.active \ Named(d, done)) \cup (Rows(d, terminal) \ (d.consumed \cup Named(d, done)))
      /\ e.consumed = d.consumed \cup Named(d, done)
      /\ e.shards = [s \in Shard |-> IF s \in gone THEN NoShard
                                     ELSE IF s \in back THEN Back(d.shards[s]) ELSE d.shards[s]]
  <2>1. e.active = (d.active \ ConsumedBy(d, done)) \cup (Rows(d, terminal) \ (d.consumed \cup ConsumedBy(d, done)))
    BY DEF Sweep
  <2>2. e.consumed = d.consumed \cup ConsumedBy(d, done)
    BY DEF Sweep
  <2>3. e.shards = [s \in Shard |-> IF s \in gone THEN NoShard
                                   ELSE IF s \in back THEN Back(d.shards[s]) ELSE d.shards[s]]
    BY Zenon DEF Sweep, Back
  <2> HIDE DEF e
  <2> QED
    BY <1>3, <2>1, <2>2, <2>3
<1>5. /\ Named(d, done) \cap d.active = {} /\ Rows(d, terminal) \cap d.consumed = {}
      /\ Rows(d, terminal) \cap Named(d, done) = {}
  BY DEF Whole, Named, Rows
<1>6. e.active = d.active \cup Rows(d, terminal)
  BY <1>4, <1>5
<1>7. ASSUME NEW r \in ShardRow
      PROVE  /\ Back(r) \in ShardRow /\ Back(r) # NoShard /\ Same(r, Back(r)) /\ Same(r, r)
  BY ShardAssumption DEF ShardRow, Back, Same
<1>8. Live(e) = Live(d) \ gone
  <2>1. ASSUME NEW s \in Shard PROVE s \in Live(e) <=> s \in Live(d) \ gone
    <3>1. CASE s \in gone
      BY <1>4, <3>1 DEF Live
    <3>2. CASE s \notin gone /\ s \in back
      BY <1>2, <1>4, <1>7, <3>2 DEF Live
    <3>3. CASE s \notin gone /\ s \notin back
      BY <1>4, <3>3 DEF Live
    <3> QED
      BY <3>1, <3>2, <3>3
  <2> QED
    BY <2>1 DEF Live
<1>9. \A s \in Live(e) : e.shards[s] = IF s \in back THEN Back(d.shards[s]) ELSE d.shards[s]
  BY <1>4, <1>8 DEF Live
<1>10. \A s \in Live(e) : Same(d.shards[s], e.shards[s]) /\ e.shards[s] \in ShardRow
  BY <1>2, <1>7, <1>8, <1>9
<1>11. e \in Database
  <2>1. e.shards \in [Shard -> ShardRow \cup {NoShard}]
    BY <1>1, <1>2, <1>4, <1>7
  <2>2. Rows(d, terminal) \subseteq Msg /\ Named(d, done) \subseteq Msg
    BY <1>2 DEF Named, Rows, ShardRow
  <2>3. e.active \subseteq Msg /\ e.consumed \subseteq Msg
    BY <1>1, <1>4, <1>6, <2>2
  <2>4. e = [consumed |-> e.consumed, active |-> e.active, shards |-> e.shards]
    BY DEF Sweep
  <2> HIDE DEF e
  <2> QED
    BY <2>1, <2>3, <2>4 DEF Database
<1>12. Whole(e)
  <2>1. e.active \cap e.consumed = {}
    BY <1>4, <1>5, <1>6 DEF Whole
  <2>2. ASSUME NEW s \in Live(e)
        PROVE  /\ e.shards[s].rows \subseteq e.shards[s].ids
               /\ e.shards[s].ids \subseteq Of(e.shards[s].key)
               /\ e.shards[s].ids \cap (e.active \cup e.consumed) = {}
    <3>1. s \in Live(d) \ gone /\ Same(d.shards[s], e.shards[s])
      BY <1>8, <1>10
    <3>2. d.shards[s].ids \cap (Named(d, done) \cup Rows(d, terminal)) = {}
      BY <3>1 DEF Whole, Named, Rows
    <3> QED
      BY <1>4, <1>6, <3>1, <3>2 DEF Whole, Same
  <2>3. \A s, x \in Live(e) : s # x => e.shards[s].ids \cap e.shards[x].ids = {}
    BY <1>8, <1>10 DEF Whole, Same
  <2> HIDE DEF e
  <2> QED
    BY <1>11, <2>1, <2>2, <2>3 DEF Whole
<1> HIDE DEF e
<1>13. Swept(d, e, back, done, terminal)
  BY <1>4, <1>6, <1>8, <1>9, <1>10, <1>12 DEF Swept
<1> QED
  BY <1>13 DEF e

(* A shard whose task, if one runs, has let its lease run out.             *)
Lost(d, s) == d.shards[s].status \in InFlight /\ (d.shards[s].stale = TRUE \/ d.shards[s].key \notin ActiveKeys)

(* A step of the database that only gives shards in flight back, clears    *)
(* completed ones away and saves messages of the window w: what the cap of *)
(* the save drops is covered by newer messages.                            *)
Quiet(d, e, w) ==
  /\ Whole(e) /\ Tried(e)
  /\ Live(e) \subseteq Live(d)
  /\ \A s \in Live(d) \ Live(e) : d.shards[s].status = "completed"
  /\ \A s \in Live(e) :
       /\ Same(d.shards[s], e.shards[s])
       /\ \/ e.shards[s] = d.shards[s]
          \/ e.shards[s] = Back(d.shards[s]) /\ Lost(d, s)
  /\ Covers(e.active, d.active) /\ e.active \subseteq d.active \cup w
  /\ e.consumed = d.consumed \cup Named(d, Live(d) \ Live(e))

LEMMA QuietSame ==
  ASSUME NEW d, Whole(d), Tried(d), NEW w
  PROVE  Quiet(d, d, w)
<1>1. Named(d, Live(d) \ Live(d)) = {}
  BY DEF Named
<1> QED
  BY <1>1, CoversSame DEF Quiet, Same

LEMMA SweepQuiet ==
  ASSUME NEW d, Whole(d), Tried(d), NEW w, NEW back, NEW done, done \subseteq Completed(d),
         back \subseteq Live(d), \A s \in back : Lost(d, s)
  PROVE  Quiet(d, Sweep(d, back, done, {}), w) /\ Sweep(d, back, done, {}).active = d.active
<1>1. PICK e : e = Sweep(d, back, done, {})
  OBVIOUS
<1>2. back \in SUBSET Live(d) /\ done \in SUBSET Live(d)
  BY DEF Completed
<1>3. /\ Whole(e) /\ Live(e) = Live(d) \ done
      /\ \A s \in Live(e) : e.shards[s] = IF s \in back THEN Back(d.shards[s]) ELSE d.shards[s]
      /\ \A s \in Live(e) : Same(d.shards[s], e.shards[s])
      /\ e.active = d.active /\ e.consumed = d.consumed \cup Named(d, done)
  <2>1. Swept(d, Sweep(d, back, done, {}), back, done, {})
    BY <1>2, SweepOK
  <2>2. Rows(d, {}) = {}
    BY DEF Rows
  <2> QED
    BY <1>1, <2>1, <2>2 DEF Swept
<1>4. \A s \in Live(d) : d.shards[s] \in ShardRow /\ Back(d.shards[s]).attempts = d.shards[s].attempts
  BY LiveRow DEF Whole, ShardRow, Back
<1>5. Tried(e)
  BY <1>3, <1>4 DEF Tried
<1>6. Live(d) \ Live(e) = done /\ \A s \in Live(d) \ Live(e) : d.shards[s].status = "completed"
  BY <1>2, <1>3 DEF Completed
<1>7. \A s \in Live(e) : \/ e.shards[s] = d.shards[s]
                         \/ e.shards[s] = Back(d.shards[s]) /\ Lost(d, s)
  BY <1>3
<1> QED
  BY <1>1, <1>3, <1>5, <1>6, <1>7, CoversSame DEF Quiet

LEMMA NoneTerminal ==
  ASSUME NEW d, Whole(d), Tried(d)
  PROVE  Terminal(d) = {}
<1> SUFFICES ASSUME NEW s \in Terminal(d) PROVE FALSE
  OBVIOUS
<1>1. s \in Live(d) /\ d.shards[s].attempts >= MaxAttempts
  BY DEF Terminal
<1>2. d.shards[s].attempts < MaxAttempts /\ d.shards[s] \in ShardRow
  BY <1>1, LiveRow DEF Whole, Tried
<1>3. d.shards[s].attempts \in Nat /\ MaxAttempts \in Nat
  BY <1>2, HistoryAssumption DEF ShardRow
<1> QED
  BY <1>1, <1>2, <1>3

LEMMA LoadQuiet ==
  ASSUME NEW d, Whole(d), Tried(d), NEW w, NEW skip, NEW own
  PROVE  /\ Quiet(d, LoadHistory(d, skip, own), w) /\ LoadHistory(d, skip, own).active = d.active
         /\ Quiet(d, Sweep(d, StaleShards(d, skip, own), Completed(d), {}), w)
         /\ ActiveKeys \subseteq skip => Quiet(d, RecoverInFlight(d, skip, own), w)
<1>1. /\ Quiet(d, Sweep(d, StaleShards(d, skip, own), Completed(d), {}), w)
      /\ Sweep(d, StaleShards(d, skip, own), Completed(d), {}).active = d.active
  <2> DEFINE back == StaleShards(d, skip, own)
             done == Completed(d)
  <2>1. back \subseteq Live(d) /\ (\A s \in back : Lost(d, s)) /\ done \subseteq Completed(d)
    <3>1. \A s \in Live(d) : d.shards[s].stale \in BOOLEAN
      BY LiveRow DEF Whole, ShardRow
    <3> QED
      BY <3>1 DEF StaleShards, InFlightShards, Lost
  <2> HIDE DEF back, done
  <2>2. Quiet(d, Sweep(d, back, done, {}), w) /\ Sweep(d, back, done, {}).active = d.active
    BY <2>1, SweepQuiet
  <2> QED
    BY <2>2 DEF back, done
<1>2. ActiveKeys \subseteq skip => Quiet(d, RecoverInFlight(d, skip, own), w)
  <2> SUFFICES ASSUME ActiveKeys \subseteq skip PROVE Quiet(d, RecoverInFlight(d, skip, own), w)
    OBVIOUS
  <2>1. PICK back, none : back = InFlightShards(d, skip, own) /\ none = {}
    OBVIOUS
  <2>2. back \subseteq Live(d) /\ (\A s \in back : Lost(d, s)) /\ none \subseteq Completed(d)
    BY <2>1 DEF InFlightShards, Lost
  <2>3. Quiet(d, Sweep(d, back, none, {}), w)
    BY <2>2, SweepQuiet
  <2> QED
    BY <2>1, <2>3 DEF RecoverInFlight
<1> QED
  BY <1>1, <1>2, NoneTerminal DEF LoadHistory

LEMMA ReplaceQuiet ==
  ASSUME NEW d, d.active \subseteq Msg, NEW e, NEW w, Quiet(d, e, w), e.active = d.active, w \subseteq Msg,
         w \cap (e.consumed \cup HeldIds(e)) = {}
  PROVE  Quiet(d, ReplaceMessages(e, Capped(e.active \cup w)), w)
<1> DEFINE f == ReplaceMessages(e, Capped(e.active \cup w))
<1>1. e \in Database /\ e.active \subseteq Msg
  BY DEF Quiet, Whole, Database
<1>2. PICK K : K = Capped(e.active \cup w)
  OBVIOUS
<1>3. K \subseteq e.active \cup w /\ Covers(K, e.active \cup w)
  BY <1>1, <1>2, CappedCovers
<1>4. e.active \cap (e.consumed \cup HeldIds(e)) = {}
  BY DEF Quiet, Whole, HeldIds, Named
<1>5. HeldRows(e) \subseteq HeldIds(e)
  BY DEF Quiet, Whole, HeldRows, Rows, HeldIds, Named
<1>6. f.active = K /\ f.consumed = e.consumed /\ f.shards = e.shards
  <2>1. /\ f.active = (K \ e.consumed) \ HeldRows(e)
        /\ f.consumed = e.consumed /\ f.shards = e.shards
    BY <1>1, <1>2 DEF ReplaceMessages, Database
  <2> HIDE DEF f
  <2> QED
    BY <1>3, <1>4, <1>5, <2>1
<1>7. f \in Database
  <2>1. K \subseteq Msg
    BY <1>1, <1>3
  <2>2. (K \ e.consumed) \ HeldRows(e) \subseteq Msg
    BY <2>1
  <2> QED
    BY <1>1, <1>2, <2>2 DEF ReplaceMessages, Database
<1> HIDE DEF f
<1>8. Live(f) = Live(e)
  BY <1>6 DEF Live
<1>9. Whole(f)
  <2>1. f.active \cap (f.consumed \cup HeldIds(e)) = {}
    BY <1>3, <1>4, <1>6
  <2>2. \A s \in Live(f) : f.shards[s].ids \subseteq HeldIds(e)
    BY <1>6, <1>8 DEF HeldIds, Named
  <2> QED
    BY <1>6, <1>7, <1>8, <2>1, <2>2 DEF Whole, Quiet
<1>10. Tried(f)
  BY <1>6, <1>8 DEF Tried, Quiet
<1>11. Covers(f.active, d.active) /\ f.active \subseteq d.active \cup w
  BY <1>3, <1>6 DEF Covers
<1>12. /\ Live(f) \subseteq Live(d)
       /\ \A s \in Live(d) \ Live(f) : d.shards[s].status = "completed"
       /\ f.consumed = d.consumed \cup Named(d, Live(d) \ Live(f))
  BY <1>6, <1>8 DEF Quiet
<1>13. \A s \in Live(f) :
         /\ Same(d.shards[s], f.shards[s])
         /\ \/ f.shards[s] = d.shards[s]
            \/ f.shards[s] = Back(d.shards[s]) /\ Lost(d, s)
  BY <1>6, <1>8 DEF Quiet
<1> QED
  BY <1>9, <1>10, <1>11, <1>12, <1>13 DEF Quiet, f

LEMMA SaveQuiet ==
  ASSUME NEW d, Whole(d), Tried(d), window \subseteq Msg, window \cap (d.consumed \cup HeldIds(d)) = {},
         NEW skip, NEW own
  PROVE  Quiet(d, SaveMerged(d, skip, own), window)
<1>1. PICK e : e = LoadHistory(d, skip, own)
  OBVIOUS
<1>2. Quiet(d, e, window) /\ e.active = d.active
  BY <1>1, LoadQuiet
<1>3. e.consumed \cup HeldIds(e) \subseteq d.consumed \cup HeldIds(d)
  BY <1>2 DEF Quiet, Same, HeldIds, Named
<1>4. d.active \subseteq Msg
  BY DEF Whole, Database
<1>5. Quiet(d, ReplaceMessages(e, Capped(e.active \cup window)), window)
  BY <1>2, <1>3, <1>4, ReplaceQuiet
<1> QED
  BY <1>1, <1>5 DEF SaveMerged

(* One shard is written; its rows stay.                                    *)
Written(d, e, s, q) ==
  /\ e \in Database /\ e.active = d.active /\ e.consumed = d.consumed
  /\ q \in ShardRow /\ Same(d.shards[s], q)
  /\ \A x \in Shard : e.shards[x] = IF x = s THEN q ELSE d.shards[x]

LEMMA WrittenOK ==
  ASSUME NEW d, Whole(d), NEW s \in Live(d), NEW e, NEW q, Written(d, e, s, q)
  PROVE  Whole(e) /\ Live(e) = Live(d)
<1>1. Live(e) = Live(d)
  BY ShardAssumption DEF Live, Written
<1>2. \A x \in Live(d) : Same(d.shards[x], e.shards[x])
  BY DEF Live, Written, Same
<1> QED
  BY <1>1, <1>2 DEF Whole, Written, Same

LEMMA MarksOK ==
  ASSUME NEW d \in Database, NEW s \in Live(d), NEW own \in Owner
  PROVE  LET r == d.shards[s] IN
         /\ MayProcess(d, s, own) =>
              Written(d, MarkProcessing(d, s, own), s,
                      [r EXCEPT !.status = "processing", !.owner = own, !.stale = FALSE])
         /\ r.attempts < MaxAttempts => \/ MarkFailed(d, s, own) = d
              \/ Written(d, MarkFailed(d, s, own), s,
                      [r EXCEPT !.status = "failed", !.owner = NoOwner, !.stale = FALSE, !.attempts = @ + 1])
         /\ OwnedBy(d, s, own) /\ r.status = "processing" =>
              Written(d, MarkCompleted(d, s, own), s,
                      [r EXCEPT !.status = "completed", !.owner = NoOwner, !.stale = FALSE])
         /\ \/ RenewLease(d, s, own) = d
            \/ Written(d, RenewLease(d, s, own), s, [r EXCEPT !.stale = FALSE])
         /\ Written(d, [d EXCEPT !.shards[s].stale = TRUE], s, [r EXCEPT !.stale = TRUE])
         /\ Written(d, [d EXCEPT !.shards[s].status = "claimed", !.shards[s].owner = own, !.shards[s].stale = FALSE],
                    s, [r EXCEPT !.status = "claimed", !.owner = own, !.stale = FALSE])
<1> DEFINE r == d.shards[s]
<1>1. r \in ShardRow /\ s \in Shard
  BY LiveRow DEF Live
<1>2. ASSUME NEW q \in ShardRow, Same(r, q), NEW e, e = [d EXCEPT !.shards[s] = q]
      PROVE  Written(d, e, s, q)
  BY <1>1, <1>2 DEF Written, Database
<1>3. ASSUME MayProcess(d, s, own)
      PROVE  Written(d, MarkProcessing(d, s, own), s,
                     [r EXCEPT !.status = "processing", !.owner = own, !.stale = FALSE])
  BY <1>1, <1>3 DEF Written, Database, MarkProcessing, ShardRow, Same
<1>4. ASSUME r.attempts < MaxAttempts, MarkFailed(d, s, own) # d
      PROVE  Written(d, MarkFailed(d, s, own), s,
                     [r EXCEPT !.status = "failed", !.owner = NoOwner, !.stale = FALSE, !.attempts = @ + 1])
  <2> DEFINE q == [r EXCEPT !.status = "failed", !.owner = NoOwner, !.stale = FALSE, !.attempts = @ + 1]
             e == MarkFailed(d, s, own)
  <2>1. r.attempts + 1 \in 0..MaxAttempts
    BY <1>1, <1>4, HistoryAssumption DEF ShardRow
  <2>2. q \in ShardRow /\ Same(r, q)
    BY <1>1, <2>1 DEF ShardRow, Same
  <2>3. e = [d EXCEPT !.shards[s] = q]
    BY <1>1, <1>4 DEF MarkFailed, Database
  <2> HIDE DEF q, e
  <2>4. Written(d, e, s, q)
    BY <1>2, <2>2, <2>3
  <2> QED
    BY <2>4 DEF q, e
<1>5. ASSUME OwnedBy(d, s, own), r.status = "processing"
      PROVE  Written(d, MarkCompleted(d, s, own), s,
                     [r EXCEPT !.status = "completed", !.owner = NoOwner, !.stale = FALSE])
  BY <1>1, <1>5 DEF Written, Database, MarkCompleted, ShardRow, Same
<1>6. ASSUME RenewLease(d, s, own) # d
      PROVE  Written(d, RenewLease(d, s, own), s, [r EXCEPT !.stale = FALSE])
  BY <1>1, <1>6 DEF Written, Database, RenewLease, ShardRow, Same
<1>7. Written(d, [d EXCEPT !.shards[s].stale = TRUE], s, [r EXCEPT !.stale = TRUE])
  BY <1>1 DEF Written, Database, ShardRow, Same
<1>8. Written(d, [d EXCEPT !.shards[s].status = "claimed", !.shards[s].owner = own, !.shards[s].stale = FALSE],
              s, [r EXCEPT !.status = "claimed", !.owner = own, !.stale = FALSE])
  BY <1>1 DEF Written, Database, ShardRow, Same
<1> QED
  BY <1>3, <1>4, <1>5, <1>6, <1>7, <1>8

Created(d, e, k, ids, s) ==
  /\ Whole(e) /\ Tried(e) /\ Live(e) = Live(d) \cup {s}
  /\ e.active = d.active \ ids /\ e.consumed = d.consumed
  /\ e.shards[s].key = k /\ e.shards[s].ids = ids /\ e.shards[s].rows = d.active \cap ids
  /\ \A x \in Live(d) : e.shards[x] = d.shards[x]
  /\ s \in Live(d) => ids = {}
  /\ s \notin Live(d) => e.shards[s].status = "queued"

LEMMA CreateOK ==
  ASSUME NEW d, Whole(d), Tried(d), NEW k \in Key, NEW ids, ids \subseteq Of(k),
         ids \cap (d.consumed \cup HeldIds(d)) = {}, NEW s \in Shard, s = ShardFor(d, k, ids),
         NEW reply \in Msg \cup {0}
  PROVE  Created(d, CreateShard(d, k, ids, s, reply), k, ids, s)
<1> DEFINE e == CreateShard(d, k, ids, s, reply)
           same == {x \in Live(d) : d.shards[x].key = k /\ d.shards[x].ids = ids}
           claimed == d.active \cap ids \cap Of(k)
           new == [key |-> k, ids |-> ids, status |-> "queued", owner |-> NoOwner,
                   attempts |-> 0, stale |-> FALSE, reply |-> reply, rows |-> claimed]
<1>1. d \in Database /\ ids \subseteq Msg /\ claimed = d.active \cap ids /\ claimed \subseteq Msg
  BY DEF Whole, Of
<1>2. /\ new \in ShardRow /\ new # NoShard /\ new.attempts < MaxAttempts
      /\ new.key = k /\ new.ids = ids /\ new.rows = claimed /\ new.status = "queued"
  <2>1. 0 \in 0..MaxAttempts /\ 0 < MaxAttempts
    BY HistoryAssumption
  <2>2. new \in ShardRow
    BY <1>1, <2>1 DEF ShardRow
  <2> QED
    BY <1>1, <2>1, <2>2, ShardAssumption
<1>3. s \in Live(d) => s \in same /\ ids = {}
  <2>1. CASE same # {}
    <3>1. s \in same
      BY <2>1, SmallestIn DEF ShardFor, Live
    <3> QED
      BY <3>1 DEF HeldIds, Named
  <2>2. CASE same = {}
    BY <2>2, NextIsNew DEF ShardFor
  <2> QED
    BY <2>1, <2>2
<1>4. /\ e.active = d.active \ ids /\ e.consumed = d.consumed
      /\ e.shards = [x \in Shard |-> IF x # s THEN d.shards[x]
                                     ELSE IF s \in Live(d) THEN [d.shards[s] EXCEPT !.rows = @ \cup claimed]
                                     ELSE new]
  BY <1>1 DEF CreateShard
<1>5. s \in Live(d) => [d.shards[s] EXCEPT !.rows = @ \cup claimed] = d.shards[s]
  <2> SUFFICES ASSUME s \in Live(d) PROVE [d.shards[s] EXCEPT !.rows = @ \cup claimed] = d.shards[s]
    OBVIOUS
  <2>1. d.shards[s] \in ShardRow /\ claimed = {}
    BY <1>1, <1>3, LiveRow
  <2> QED
    BY <2>1 DEF ShardRow
<1> HIDE DEF new
<1>6. \A x \in Shard : e.shards[x] = IF x = s /\ s \notin Live(d) THEN new ELSE d.shards[x]
  BY <1>4, <1>5
<1>7. e = [active |-> e.active, consumed |-> e.consumed, shards |-> e.shards]
  BY DEF CreateShard
<1>8. e.shards \in [Shard -> ShardRow \cup {NoShard}]
  <2>1. d.shards \in [Shard -> ShardRow \cup {NoShard}]
    BY <1>1 DEF Database
  <2>2. e.shards = [x \in Shard |-> e.shards[x]]
    BY <1>4
  <2> HIDE DEF e
  <2> QED
    BY <1>2, <1>6, <2>1, <2>2
<1> HIDE DEF e
<1>9. e \in Database
  BY <1>1, <1>4, <1>7, <1>8 DEF Database
<1>10. Live(e) = Live(d) \cup {s}
  BY <1>2, <1>6 DEF Live
<1>11. /\ e.shards[s].key = k /\ e.shards[s].ids = ids /\ e.shards[s].rows = d.active \cap ids
       /\ s \notin Live(d) => e.shards[s].status = "queued"
       /\ \A x \in Live(d) : e.shards[x] = d.shards[x]
  <2>1. CASE s \in Live(d)
    BY <1>3, <1>6, <2>1 DEF Whole, Live
  <2>2. CASE s \notin Live(d)
    BY <1>1, <1>2, <1>6, <2>2 DEF Live
  <2> QED
    BY <2>1, <2>2
<1>12. Tried(e)
  BY <1>2, <1>6, <1>10 DEF Tried, Live
<1>13. Whole(e)
  <2>1. \A x \in Live(e) : /\ e.shards[x].rows \subseteq e.shards[x].ids
                           /\ e.shards[x].ids \subseteq Of(e.shards[x].key)
                           /\ e.shards[x].ids \cap (e.active \cup e.consumed) = {}
    BY <1>4, <1>10, <1>11 DEF Whole, HeldIds, Named
  <2>2. \A x, y \in Live(e) : x # y => e.shards[x].ids \cap e.shards[y].ids = {}
    BY <1>3, <1>10, <1>11 DEF Whole, HeldIds, Named
  <2> QED
    BY <1>4, <1>9, <2>1, <2>2 DEF Whole
<1>14. Created(d, e, k, ids, s)
  BY <1>3, <1>4, <1>10, <1>11, <1>12, <1>13 DEF Created
<1> QED
  BY <1>14 DEF e

-----------------------------------------------------------------------------
(* The chains: what each way to change one leaves of the others.           *)

(* The chain of k changes: its new head is in H or has done nothing yet,   *)
(* and the messages of new turns are in new.                               *)
Moves(k, H, new) ==
  /\ chain' \in [Key -> Seq(Task)]
  /\ \A x \in Key : ChainOK(x, chain'[x], used')
  /\ \A x \in Key \ {k} : chain'[x] = chain[x]
  /\ \A t \in Front(chain'[k]) : t \in H \/ Waiting(t)
  /\ Pending(chain'[k]) \subseteq Pending(chain[k]) \cup new

LEMMA TailOK ==
  ASSUME NEW k \in Key, NEW c, NEW u, ChainOK(k, c, u), c # <<>>
  PROVE  /\ ChainOK(k, Tail(c), u)
         /\ \A t \in Front(Tail(c)) : Waiting(t)
         /\ Pending(Tail(c)) \subseteq Pending(c)
<1> DEFINE e == Tail(c)
<1>1. c \in Seq(Task) /\ e \in Seq(Task) /\ Len(e) = Len(c) - 1 /\ Len(c) \in Nat \ {0}
  BY DEF ChainOK
<1>2. \A i \in 1..Len(e) : e[i] = c[i + 1] /\ i + 1 \in 2..Len(c) /\ i + 1 \in 1..Len(c)
  BY <1>1
<1>3. \A t \in Front(e) : t = e[1] /\ 1 \in 1..Len(e)
  BY <1>1 DEF Front
<1> HIDE DEF e
<1>4. \A i \in 2..Len(e) : Waiting(e[i])
  BY <1>1, <1>2 DEF ChainOK
<1>5. \A i \in 1..Len(e) : e[i].kind = "turn" => e[i].msg \in u \cap Of(k)
  BY <1>2 DEF ChainOK
<1>6. \A i, j \in 1..Len(e) : e[i].kind = "turn" /\ e[j].kind = "turn" /\ e[i].msg = e[j].msg => i = j
  <2> SUFFICES ASSUME NEW i \in 1..Len(e), NEW j \in 1..Len(e), e[i].kind = "turn", e[j].kind = "turn",
                      e[i].msg = e[j].msg
               PROVE  i = j
    OBVIOUS
  <2>1. i + 1 = j + 1
    BY <1>2 DEF ChainOK
  <2> QED
    BY <1>1, <2>1
<1>7. \A t \in Front(e) : Waiting(t)
  BY <1>2, <1>3 DEF ChainOK
<1>8. Pending(e) \subseteq Pending(c)
  BY <1>2 DEF Pending
<1> QED
  BY <1>1, <1>4, <1>5, <1>6, <1>7, <1>8 DEF ChainOK, e

LEMMA HeadSetOK ==
  ASSUME NEW k \in Key, NEW c, NEW u, ChainOK(k, c, u), c # <<>>,
         NEW t \in Task, t.kind = Head(c).kind, t.msg = Head(c).msg, ~Unbegun(t)
  PROVE  LET e == <<t>> \o Tail(c) IN
         /\ ChainOK(k, e, u) /\ Front(e) = {t}
         /\ Pending(e) \subseteq Pending(c)
         /\ t.kind = "turn" => t.msg \notin Pending(e)
<1> DEFINE e == <<t>> \o Tail(c)
<1>1. c \in Seq(Task) /\ e \in Seq(Task) /\ Len(e) = Len(c) /\ Len(c) \in Nat \ {0} /\ e # <<>>
  BY DEF ChainOK
<1>2. e[1] = t /\ \A i \in 2..Len(e) : e[i] = c[i]
  BY <1>1
<1>3. c[1] = Head(c) /\ Head(e) = t
  BY <1>1
<1> HIDE DEF e
<1>4. \A i \in 1..Len(e) : (i = 1 \/ i \in 2..Len(e)) /\ i \in 1..Len(c) /\ e[i].kind = c[i].kind /\ e[i].msg = c[i].msg
  BY <1>1, <1>2, <1>3
<1>5. ChainOK(k, e, u)
  BY <1>1, <1>2, <1>4 DEF ChainOK
<1>6. Pending(e) \subseteq Pending(c)
  BY <1>1, <1>2, <1>4 DEF Pending
<1>7. ASSUME t.kind = "turn", t.msg \in Pending(e) PROVE FALSE
  <2>1. PICK i \in 1..Len(e) : Unbegun(e[i]) /\ e[i].msg = t.msg
    BY <1>7 DEF Pending
  <2>2. i = 1
    BY <1>1, <1>2, <1>5, <1>7, <2>1 DEF ChainOK, Unbegun
  <2> QED
    BY <1>2, <2>1, <2>2
<1> QED
  BY <1>1, <1>3, <1>5, <1>6, <1>7 DEF Front, e

LEMMA AppendOK ==
  ASSUME NEW k \in Key, NEW c, NEW u, ChainOK(k, c, u), NEW t \in Task, c # <<>> => Waiting(t),
         NEW new, new = (IF t.kind = "turn" THEN {t.msg} ELSE {}), new \subseteq Of(k) \ u
  PROVE  /\ ChainOK(k, Append(c, t), u \cup new)
         /\ Front(Append(c, t)) = IF c = <<>> THEN {t} ELSE Front(c)
         /\ Pending(Append(c, t)) \subseteq Pending(c) \cup new
<1> DEFINE e == Append(c, t)
           v == u \cup new
<1>1. c \in Seq(Task) /\ e \in Seq(Task) /\ Len(e) = Len(c) + 1 /\ Len(c) \in Nat
  BY DEF ChainOK
<1>2. (\A i \in 1..Len(c) : e[i] = c[i]) /\ e[Len(e)] = t
  BY <1>1
<1>3. \A i \in 1..Len(e) : i = Len(e) \/ i \in 1..Len(c)
  BY <1>1
<1> HIDE DEF e
<1>4. Front(e) = IF c = <<>> THEN {t} ELSE Front(c)
  <2>1. e # <<>> /\ Head(e) = e[1]
    BY <1>1
  <2>2. CASE c = <<>>
    <3>1. Len(e) = 1
      BY <1>1, <2>2
    <3> QED
      BY <1>2, <2>1, <2>2, <3>1 DEF Front
  <2>3. CASE c # <<>>
    <3>1. Head(c) = c[1] /\ 1 \in 1..Len(c)
      BY <1>1, <2>3
    <3> QED
      BY <1>2, <2>1, <2>3, <3>1 DEF Front
  <2> QED
    BY <2>2, <2>3
<1>5. \A i \in 2..Len(e) : Waiting(e[i])
  <2> SUFFICES ASSUME NEW i \in 2..Len(e) PROVE Waiting(e[i])
    OBVIOUS
  <2>1. CASE i = Len(e)
    <3>1. c # <<>>
      BY <1>1, <2>1
    <3> QED
      BY <1>2, <2>1, <3>1
  <2>2. CASE i # Len(e)
    BY <1>1, <1>2, <2>2 DEF ChainOK
  <2> QED
    BY <2>1, <2>2
<1>6. \A i \in 1..Len(e) : e[i].kind = "turn" => e[i].msg \in v \cap Of(k)
  BY <1>2, <1>3 DEF ChainOK
<1>7. \A i, j \in 1..Len(e) : e[i].kind = "turn" /\ e[j].kind = "turn" /\ e[i].msg = e[j].msg => i = j
  <2>1. \A i \in 1..Len(c) : c[i].kind = "turn" /\ t.kind = "turn" => c[i].msg # t.msg
    BY DEF ChainOK
  <2> QED
    BY <1>2, <1>3, <2>1 DEF ChainOK
<1>8. Pending(e) \subseteq Pending(c) \cup new
  BY <1>2, <1>3 DEF Pending, Unbegun
<1> QED
  BY <1>1, <1>4, <1>5, <1>6, <1>7, <1>8 DEF ChainOK, e

LEMMA FrontOf ==
  ASSUME NEW k \in Key, Types, ChainsOK, Busy(k)
  PROVE  /\ Front(chain[k]) = {Head(chain[k])} /\ Head(chain[k]) \in Task
         /\ Head(chain[k]).kind = "turn" => Head(chain[k]).msg \in used \cap Of(k)
         /\ chain[k] # <<>>
<1>1. ChainOK(k, chain[k], used) /\ chain[k] # <<>>
  BY DEF ChainsOK, Busy
<1>2. Head(chain[k]) = chain[k][1] /\ 1 \in 1..Len(chain[k]) /\ Head(chain[k]) \in Task
  BY <1>1 DEF ChainOK
<1> QED
  BY <1>1, <1>2 DEF ChainOK, Front

LEMMA Wider ==
  ASSUME NEW k \in Key, NEW c, NEW u, NEW v, ChainOK(k, c, u), u \subseteq v
  PROVE  ChainOK(k, c, v)
BY DEF ChainOK

LEMMA PendingSeen ==
  ASSUME NEW k \in Key, NEW c, NEW u, ChainOK(k, c, u)
  PROVE  Pending(c) \subseteq u \cap Of(k)
BY DEF ChainOK, Pending, Unbegun

LEMMA StayMoves ==
  ASSUME IInv, chain' = chain, used' = used, NEW k \in Key
  PROVE  Moves(k, Front(chain[k]), {})
BY DEF IInv, Types, ChainsOK, Moves

LEMMA ReleaseMoves ==
  ASSUME IInv, used' = used, NEW k \in Key, Busy(k), Release(k)
  PROVE  Moves(k, {}, {})
<1>1. Types /\ ChainsOK /\ chain[k] # <<>>
  BY DEF IInv, Busy
<1>2. chain' = [chain EXCEPT ![k] = Tail(chain[k])] /\ chain \in [Key -> Seq(Task)]
  BY <1>1 DEF Release, Types
<1>3. /\ ChainOK(k, Tail(chain[k]), used) /\ \A t \in Front(Tail(chain[k])) : Waiting(t)
      /\ Pending(Tail(chain[k])) \subseteq Pending(chain[k])
  BY <1>1, TailOK DEF ChainsOK
<1>4. Tail(chain[k]) \in Seq(Task)
  BY <1>3 DEF ChainOK
<1>5. chain'[k] = Tail(chain[k]) /\ \A x \in Key \ {k} : chain'[x] = chain[x]
  BY <1>2
<1>6. chain' \in [Key -> Seq(Task)]
  BY <1>2, <1>4
<1>7. \A x \in Key : ChainOK(x, chain'[x], used')
  BY <1>1, <1>3, <1>5 DEF ChainsOK
<1> QED
  BY <1>3, <1>5, <1>6, <1>7 DEF Moves

LEMMA SetHeadMoves ==
  ASSUME IInv, used' = used, NEW k \in Key, Busy(k), NEW t \in Task, t.kind = Head(chain[k]).kind,
         t.msg = Head(chain[k]).msg, ~Unbegun(t), SetHead(k, t)
  PROVE  /\ Moves(k, {t}, {}) /\ Front(chain'[k]) = {t}
         /\ t.kind = "turn" => t.msg \notin Pending(chain'[k])
<1> DEFINE e == <<t>> \o Tail(chain[k])
<1>1. Types /\ ChainsOK /\ chain[k] # <<>>
  BY DEF IInv, Busy
<1>2. chain' = [chain EXCEPT ![k] = e] /\ chain \in [Key -> Seq(Task)]
  BY <1>1 DEF SetHead, Types
<1>3. /\ ChainOK(k, e, used) /\ Front(e) = {t} /\ Pending(e) \subseteq Pending(chain[k])
      /\ t.kind = "turn" => t.msg \notin Pending(e)
  BY <1>1, HeadSetOK DEF ChainsOK
<1> HIDE DEF e
<1>4. e \in Seq(Task)
  BY <1>3 DEF ChainOK
<1>5. chain'[k] = e /\ \A x \in Key \ {k} : chain'[x] = chain[x]
  BY <1>2
<1>6. chain' \in [Key -> Seq(Task)]
  BY <1>2, <1>4
<1>7. \A x \in Key : ChainOK(x, chain'[x], used')
  BY <1>1, <1>3, <1>5 DEF ChainsOK
<1> QED
  BY <1>3, <1>5, <1>6, <1>7 DEF Moves

LEMMA EnqueueMoves ==
  ASSUME IInv, NEW k \in Key, NEW t \in Task, Busy(k) => Waiting(t), Enqueue(k, t),
         NEW new, new = (IF t.kind = "turn" THEN {t.msg} ELSE {}), used' = used \cup new,
         new \subseteq Of(k) \ used
  PROVE  /\ Moves(k, (IF Busy(k) THEN Front(chain[k]) ELSE {t}), new)
         /\ Front(chain'[k]) = (IF Busy(k) THEN Front(chain[k]) ELSE {t})
<1> DEFINE e == Append(chain[k], t)
<1>1. Types /\ ChainsOK /\ (Busy(k) <=> chain[k] # <<>>)
  BY DEF IInv, Busy
<1>2. chain' = [chain EXCEPT ![k] = e] /\ chain \in [Key -> Seq(Task)]
  BY <1>1 DEF Enqueue, Types
<1>3. /\ ChainOK(k, e, used') /\ Front(e) = (IF Busy(k) THEN Front(chain[k]) ELSE {t})
      /\ Pending(e) \subseteq Pending(chain[k]) \cup new
  <2>1. ChainOK(k, chain[k], used)
    BY <1>1 DEF ChainsOK
  <2>2. /\ ChainOK(k, e, used \cup new) /\ Front(e) = (IF chain[k] = <<>> THEN {t} ELSE Front(chain[k]))
        /\ Pending(e) \subseteq Pending(chain[k]) \cup new
    BY <1>1, <2>1, AppendOK
  <2> HIDE DEF e
  <2> QED
    BY <1>1, <2>2
<1> HIDE DEF e
<1>4. e \in Seq(Task)
  BY <1>3 DEF ChainOK
<1>5. chain'[k] = e /\ \A x \in Key \ {k} : chain'[x] = chain[x]
  BY <1>2
<1>6. chain' \in [Key -> Seq(Task)]
  BY <1>2, <1>4
<1>7. \A x \in Key : ChainOK(x, chain'[x], used')
  <2> SUFFICES ASSUME NEW x \in Key PROVE ChainOK(x, chain'[x], used')
    OBVIOUS
  <2>1. CASE x = k
    BY <1>3, <1>5, <2>1
  <2>2. CASE x # k
    <3>1. ChainOK(x, chain[x], used) /\ used \subseteq used' /\ chain'[x] = chain[x]
      BY <1>1, <1>5, <2>2 DEF ChainsOK
    <3> QED
      BY <3>1, Wider
  <2> QED
    BY <2>1, <2>2
<1> QED
  BY <1>3, <1>5, <1>6, <1>7 DEF Moves

-----------------------------------------------------------------------------
(* What a task and a shard keep while the database changes around them.    *)

(* The lease of shard s ran out and the step to d returns it to the queue. *)
Returned(s, d) ==
  /\ s \in Live(db) /\ db.shards[s].status \in InFlight /\ db.shards[s].stale = TRUE
  /\ s \in Live(d) /\ d.shards[s].status = "queued"
Stored(d) ==
  /\ db' = d /\ saved \subseteq saved' /\ saved' \subseteq saved \cup d.active \cup HeldRows(d)
  /\ excused \subseteq excused' /\ excused' \subseteq Msg
  /\ \A k \in Key : \A t \in Front(chain[k]) :
       Sending(t) /\ Returned(t.shard, d) => t.snap \subseteq excused'

LEMMA CommitStored ==
  ASSUME IInv, NEW d, NEW causes, causes \subseteq Msg, Commit(d, causes)
  PROVE  Stored(d) /\ causes \subseteq excused'
<1> DEFINE lost == {s \in Live(db) : /\ db.shards[s].status \in InFlight
                                     /\ db.shards[s].stale
                                     /\ s \in Live(d)
                                     /\ d.shards[s].status = "queued"}
           mine == {k \in Key : Uploading(k) /\ Head(chain[k]).shard \in lost}
           more == UNION {Head(chain[k]).snap : k \in mine}
<1>1. db' = d /\ saved' = saved \cup d.active \cup HeldRows(d) /\ excused' = excused \cup causes \cup more
  BY DEF Commit
<1>2. Types /\ ChainsOK /\ Whole(db) /\ excused \subseteq Msg
  BY DEF IInv, Types
<1>3. \A k \in mine : k \in Key /\ Busy(k) /\ Head(chain[k]).snap \subseteq Msg
  <2> SUFFICES ASSUME NEW k \in mine PROVE k \in Key /\ Busy(k) /\ Head(chain[k]).snap \subseteq Msg
    OBVIOUS
  <2>1. k \in Key /\ Busy(k)
    BY DEF Uploading, At
  <2>2. Head(chain[k]) \in Task
    BY <1>2, <2>1, FrontOf
  <2> QED
    BY <2>1, <2>2 DEF Task
<1>4. more \subseteq Msg
  BY <1>3
<1>5. ASSUME NEW k \in Key, NEW t \in Front(chain[k]), Sending(t), Returned(t.shard, d)
      PROVE  t.snap \subseteq more
  <2>1. Busy(k) /\ t = Head(chain[k])
    BY <1>5 DEF Front, Busy
  <2>2. Uploading(k)
    BY <1>5, <2>1 DEF Uploading, At, Sending
  <2>3. t.shard \in lost
    BY <1>5 DEF Returned
  <2> QED
    BY <2>1, <2>2, <2>3
<1> HIDE DEF more
<1> QED
  BY <1>1, <1>2, <1>4, <1>5 DEF Stored

LEMMA SameStored ==
  ASSUME IInv, db' = db, saved' = saved, excused \subseteq excused', excused' \subseteq Msg
  PROVE  Stored(db)
BY DEF Stored, Returned, InFlight

RowKept(t, d) ==
  t.shard # 0 => /\ t.shard \in Live(d) /\ Same(db.shards[t.shard], d.shards[t.shard])
                 /\ d.shards[t.shard].status # "completed"
                 /\ Sending(t) => \/ t.snap \subseteq excused'
                                  \/ /\ d.shards[t.shard].status = db.shards[t.shard].status
                                     /\ d.shards[t.shard].owner = db.shards[t.shard].owner

LEMMA HeadKept ==
  ASSUME NEW k \in Key, NEW t, HeadOK(k, t), NEW d, db' = d, excused \subseteq excused',
         RowKept(t, d),
         t.pc = "context" => t.snap \cap (d.consumed \cup HeldIds(d)) \subseteq db.consumed \cup HeldIds(db),
         sent \subseteq sent', t.snap \cap sent' \subseteq sent \cup excused'
  PROVE  HeadOK(k, t)'
<1>1. Shape(k, t) /\ Carries(k, t, db) /\ Ready(t, db) /\ Accounted(t, db)
  BY DEF HeadOK
<1>2. Carries(k, t, d)
  BY <1>1 DEF Carries, RowKept, Same
<1>3. Ready(t, d)
  BY <1>1 DEF Ready
<1>4. Accounted(t, d)'
  BY <1>1 DEF Accounted, RowKept, Sending
<1> QED
  BY <1>1, <1>2, <1>3, <1>4 DEF HeadOK

LEMMA WaitingHead ==
  ASSUME NEW k, NEW t, Waiting(t)
  PROVE  HeadOK(k, t)'
BY DEF Waiting, HeadOK, Shape, Carries, Ready, Accounted, Sending

LEMMA HeadsMove ==
  ASSUME NEW k \in Key, NEW H, NEW new, Moves(k, H, new), \A t \in H : HeadOK(k, t)',
         \A x \in Key \ {k} : \A t \in Front(chain[x]) : HeadOK(x, t)'
  PROVE  HeadsOK'
<1> SUFFICES ASSUME NEW x \in Key, NEW t \in Front(chain'[x]) PROVE HeadOK(x, t)'
  BY DEF HeadsOK
<1>1. CASE x = k
  BY <1>1, WaitingHead DEF Moves
<1>2. CASE x # k
  BY <1>2 DEF Moves
<1> QED
  BY <1>1, <1>2

LEMMA ShardKept ==
  ASSUME NEW s \in Live(db), ShardOK(s), NEW d, db' = d, Same(db.shards[s], d.shards[s]),
         d.shards[s].status = "completed" <=> db.shards[s].status = "completed",
         excused \subseteq excused', sent' = sent,
         \A k \in Key : Settling(k, s) => Settling(k, s)' \/ db.shards[s].ids \subseteq excused'
  PROVE  ShardOK(s)'
BY DEF ShardOK, Same

LEMMA FrontHead ==
  ASSUME IInv, NEW k \in Key, NEW t \in Front(chain[k])
  PROVE  /\ HeadOK(k, t) /\ Busy(k) /\ t = Head(chain[k]) /\ t \in Task
         /\ t.kind = "turn" => t.msg \in used \cap Of(k)
<1>1. Types /\ ChainsOK /\ HeadsOK
  BY DEF IInv
<1>2. Busy(k) /\ t = Head(chain[k])
  BY DEF Front, Busy
<1> QED
  BY <1>1, <1>2, FrontOf DEF HeadsOK

LEMMA QuietRow ==
  ASSUME IInv, NEW k \in Key, NEW t \in Front(chain[k]), NEW d, Quiet(db, d, window),
         Sending(t) /\ Returned(t.shard, d) => t.snap \subseteq excused'
  PROVE  RowKept(t, d)
<1>1. Whole(db) /\ HeadOK(k, t) /\ Busy(k)
  BY FrontHead DEF IInv
<1> SUFFICES ASSUME t.shard # 0 PROVE RowKept(t, d)
  BY DEF RowKept
<1>2. t.shard \in Live(db) /\ db.shards[t.shard].key = k /\ db.shards[t.shard].status # "completed"
  BY <1>1 DEF HeadOK, Carries
<1>3. db.shards[t.shard] \in ShardRow
  BY <1>1, <1>2, LiveRow DEF Whole
<1>4. t.shard \in Live(d) /\ Same(db.shards[t.shard], d.shards[t.shard])
  BY <1>2 DEF Quiet
<1>5. CASE d.shards[t.shard] = db.shards[t.shard]
  BY <1>2, <1>4, <1>5 DEF RowKept
<1>6. CASE d.shards[t.shard] = Back(db.shards[t.shard]) /\ Lost(db, t.shard)
  <2>1. k \in ActiveKeys
    BY <1>1 DEF ActiveKeys, Busy
  <2>2. d.shards[t.shard].status = "queued"
    BY <1>3, <1>6 DEF Back, ShardRow
  <2>3. Returned(t.shard, d)
    BY <1>2, <1>4, <1>6, <2>1, <2>2 DEF Returned, Lost
  <2>4. Sending(t) => t.snap \subseteq excused'
    BY <2>3
  <2> QED
    BY <1>4, <2>2, <2>4 DEF RowKept
<1> QED
  BY <1>2, <1>4, <1>5, <1>6 DEF Quiet

LEMMA QuietHead ==
  ASSUME IInv, NEW k \in Key, NEW t \in Front(chain[k]), NEW d, Quiet(db, d, window), Stored(d),
         sent' = sent
  PROVE  HeadOK(k, t)'
<1>1. HeadOK(k, t) /\ db' = d /\ excused \subseteq excused'
      /\ (Sending(t) /\ Returned(t.shard, d) => t.snap \subseteq excused')
  BY FrontHead DEF Stored
<1>2. d.consumed \cup HeldIds(d) \subseteq db.consumed \cup HeldIds(db)
  BY DEF Quiet, Same, HeldIds, Named
<1>3. RowKept(t, d)
  BY <1>1, QuietRow
<1> QED
  BY <1>1, <1>2, <1>3, HeadKept

LEMMA QuietRows ==
  ASSUME IInv, NEW d, Quiet(db, d, window), NEW s \in Live(d)
  PROVE  /\ s \in Live(db) /\ ShardOK(s) /\ Same(db.shards[s], d.shards[s])
         /\ d.shards[s].status = "completed" <=> db.shards[s].status = "completed"
<1>1. Whole(db) /\ ShardsOK
  BY DEF IInv
<1>2. s \in Live(db) /\ ShardOK(s) /\ Same(db.shards[s], d.shards[s])
  BY <1>1 DEF Quiet, ShardsOK
<1>3. db.shards[s] \in ShardRow
  BY <1>1, <1>2, LiveRow DEF Whole
<1>4. CASE d.shards[s] = db.shards[s]
  BY <1>2, <1>4
<1>5. CASE d.shards[s] = Back(db.shards[s]) /\ Lost(db, s)
  BY <1>2, <1>3, <1>5 DEF Back, Lost, InFlight, ShardRow
<1> QED
  BY <1>4, <1>5 DEF Quiet

LEMMA QuietShards ==
  ASSUME IInv, NEW d, Quiet(db, d, window), Stored(d), sent' = sent,
         \A k \in Key : \A s \in Live(db) :
           Settling(k, s) => Settling(k, s)' \/ db.shards[s].ids \subseteq excused'
  PROVE  ShardsOK'
<1>1. db' = d /\ excused \subseteq excused'
  BY DEF Stored
<1> SUFFICES ASSUME NEW s \in Live(d) PROVE ShardOK(s)'
  BY <1>1 DEF ShardsOK
<1> QED
  BY <1>1, QuietRows, ShardKept

(* Nothing gets lost that newer messages do not cover.                     *)
LEMMA DurableStep ==
  ASSUME IInv, NEW d, Whole(d), Stored(d), sent \subseteq sent', sent' \subseteq Msg,
         Covers(d.active \cup HeldRows(d) \cup sent', db.active \cup HeldRows(db))
  PROVE  DurableUntilSent'
<1> DEFINE K == d.active \cup HeldRows(d) \cup sent'
<1>1. Covers(Kept, saved) /\ Types /\ Whole(db)
  BY DEF IInv, DurableUntilSent, Covers
<1>2. Kept' = K /\ saved' \subseteq saved \cup K
  BY DEF Stored, Kept, HeldRows, Rows, Live
<1>3. K \subseteq Msg /\ Kept \subseteq Msg /\ saved \subseteq Msg
  BY <1>1, RowsHold DEF Kept, Types, Whole, Database
<1>4. Covers(K, Kept)
  BY DEF Kept, Covers
<1>5. Covers(K, saved)
  BY <1>1, <1>3, <1>4, CoversChain
<1>6. Covers(K, saved')
  BY <1>2, <1>5 DEF Covers
<1> HIDE DEF K
<1> QED
  BY <1>2, <1>6 DEF DurableUntilSent, Covers

(* What the database, the window and the host hold after the step has left *)
(* a trace before it.                                                      *)
Remembered ==
  \A m \in Msg : m \in window' \cup db'.active \cup db'.consumed \cup HeldIds(db') \cup sent' => Traced(m)

LEMMA QuietFacts ==
  ASSUME IInv, NEW d, Quiet(db, d, window)
  PROVE  /\ d.active \subseteq db.active \cup window /\ HeldIds(d) \subseteq HeldIds(db)
         /\ d.consumed \subseteq db.consumed \cup HeldIds(db)
         /\ (window \cup d.active) \cap (d.consumed \cup HeldIds(d)) = {}
         /\ Covers(d.active \cup HeldRows(d) \cup sent, db.active \cup HeldRows(db))
<1>1. Whole(db) /\ Whole(d) /\ ShardsOK /\ WindowOK /\ sent \subseteq Msg /\ db.active \subseteq Msg
  BY DEF IInv, Quiet, Types, Whole, Database
<1>2. d.active \subseteq db.active \cup window
  BY DEF Quiet
<1>3. HeldIds(d) \subseteq HeldIds(db) /\ d.consumed \subseteq db.consumed \cup HeldIds(db)
  BY DEF Quiet, Same, HeldIds, Named
<1>4. window \cap (d.consumed \cup HeldIds(d)) = {}
  BY <1>1, <1>3 DEF WindowOK
<1> DEFINE K == d.active \cup HeldRows(d) \cup sent
<1>5. K \subseteq Msg
  BY <1>1, RowsHold DEF Whole, Database
<1>6. Covers(K, db.active)
  <2>1. Covers(d.active, db.active) /\ d.active \subseteq K
    BY DEF Quiet
  <2> HIDE DEF K
  <2> QED
    BY <1>1, <1>5, <2>1, CoversMore
<1>7. ASSUME NEW s \in Live(db) PROVE Covers(K, db.shards[s].rows)
  <2>1. CASE s \in Live(d)
    BY <2>1 DEF Quiet, Same, HeldRows, Rows, Covers
  <2>2. CASE s \notin Live(d)
    <3>1. Core(db.shards[s].ids) \subseteq K
      BY <1>1, <2>2 DEF Quiet, ShardsOK, ShardOK
    <3>2. db.shards[s].rows \subseteq db.shards[s].ids /\ db.shards[s].ids \subseteq Msg
      BY <1>1 DEF Whole, Of
    <3> HIDE DEF K
    <3>3. Covers(K, db.shards[s].ids)
      BY <1>5, <3>1, <3>2, CoreCovers
    <3> QED
      BY <3>2, <3>3 DEF Covers
  <2> QED
    BY <2>1, <2>2
<1> HIDE DEF K
<1>8. Covers(K, db.active \cup HeldRows(db))
  BY <1>6, <1>7 DEF Covers, HeldRows, Rows
<1> QED
  BY <1>1, <1>2, <1>3, <1>4, <1>8, RowsHold DEF K

LEMMA QuietData ==
  ASSUME IInv, NEW d, Quiet(db, d, window), Stored(d), sent' = sent, window' \subseteq window \cup d.active
  PROVE  WindowOK' /\ UnsentOK' /\ DurableUntilSent' /\ Remembered
<1>1. /\ UnsentOK /\ db' = d /\ HeldIds(db') = HeldIds(d) /\ Whole(d) /\ sent \subseteq Msg
      /\ excused \subseteq excused'
  BY DEF IInv, Stored, Quiet, Types
<1>2. /\ d.active \subseteq db.active \cup window /\ HeldIds(d) \subseteq HeldIds(db)
      /\ d.consumed \subseteq db.consumed \cup HeldIds(db)
      /\ (window \cup d.active) \cap (d.consumed \cup HeldIds(d)) = {}
      /\ Covers(d.active \cup HeldRows(d) \cup sent, db.active \cup HeldRows(db))
  BY QuietFacts
<1>3. WindowOK'
  BY <1>1, <1>2 DEF WindowOK
<1>4. UnsentOK'
  BY <1>1, <1>2 DEF UnsentOK
<1>5. DurableUntilSent'
  BY <1>1, <1>2, DurableStep
<1>6. Remembered
  BY <1>1, <1>2 DEF Remembered, Traced
<1> QED
  BY <1>3, <1>4, <1>5, <1>6

LEMMA TracesKept ==
  ASSUME IInv, Remembered, used' = used, \A x \in Key : Pending(chain'[x]) \subseteq Pending(chain[x]),
         \A x \in Key : \A t \in Front(chain'[x]) : \A m \in t.snap : Traced(m)
  PROVE  TracesOK'
<1>1. TracesOK
  BY DEF IInv
<1> SUFFICES ASSUME NEW m \in Msg, Traced(m)'
             PROVE  m \in used' /\ \A k \in Key : m \notin Pending(chain'[k])
  BY DEF TracesOK
<1>2. Traced(m)
  BY DEF Traced, Remembered
<1> QED
  BY <1>1, <1>2 DEF TracesOK

LEMMA MovesTrace ==
  ASSUME IInv, NEW k \in Key, NEW H, NEW new, Moves(k, H, new), \A t \in H : \A m \in t.snap : Traced(m)
  PROVE  /\ ChainsOK'
         /\ \A x \in Key : Pending(chain'[x]) \subseteq Pending(chain[x]) \cup new
         /\ \A x \in Key : \A t \in Front(chain'[x]) : \A m \in t.snap : Traced(m)
<1>1. \A x \in Key : \A t \in Front(chain[x]) : \A m \in t.snap : Traced(m)
  BY DEF Traced
<1>2. \A t : Waiting(t) => t.snap = {}
  BY DEF Waiting
<1>3. ASSUME NEW x \in Key
      PROVE  /\ Pending(chain'[x]) \subseteq Pending(chain[x]) \cup new
             /\ \A t \in Front(chain'[x]) : \A m \in t.snap : Traced(m)
  <2>1. CASE x = k
    BY <1>2, <2>1 DEF Moves
  <2>2. CASE x # k
    BY <1>1, <2>2 DEF Moves
  <2> QED
    BY <2>1, <2>2
<1> QED
  BY <1>3 DEF ChainsOK, Moves

LEMMA SettlingKept ==
  ASSUME NEW k \in Key, NEW H, NEW new, Moves(k, H, new), \A t \in Front(chain[k]) : t.pc # "settling",
         NEW x \in Key, NEW s, Settling(x, s)
  PROVE  Settling(x, s)'
BY DEF Settling, Moves

(* A step that keeps the database quiet and no message for itself.         *)
LEMMA QuietStep ==
  ASSUME IInv, Types', NEW d, Quiet(db, d, window), Stored(d), window' \subseteq window \cup d.active,
         sent' = sent, resent' = resent, used' = used, ChainsOK', HeadsOK',
         \A x \in Key : Pending(chain'[x]) \subseteq Pending(chain[x]) \cup {},
         \A x \in Key : \A t \in Front(chain'[x]) : \A m \in t.snap : Traced(m),
         \A k \in Key : \A s \in Live(db) :
           Settling(k, s) => Settling(k, s)' \/ db.shards[s].ids \subseteq excused'
  PROVE  IInv'
<1>1. WindowOK' /\ UnsentOK' /\ DurableUntilSent' /\ Remembered
  BY QuietData
<1>2. ShardsOK'
  BY QuietShards
<1>3. TracesOK'
  BY <1>1, TracesKept
<1>4. Whole(db') /\ Tried(db')
  BY DEF Quiet, Stored
<1>5. SentOnce'
  BY DEF IInv, SentOnce, Stored
<1> QED
  BY <1>1, <1>2, <1>3, <1>4, <1>5 DEF IInv

(* The same when the head of one chain gives way to H.                     *)
LEMMA QuietMove ==
  ASSUME IInv, Types', NEW d, Quiet(db, d, window), Stored(d), window' \subseteq window \cup d.active,
         sent' = sent, resent' = resent, used' = used, (open' => open), owner' = owner,
         NEW k \in Key, NEW H, Moves(k, H, {}), \A t \in H : HeadOK(k, t)' /\ \A m \in t.snap : Traced(m),
         \A t \in Front(chain[k]) : t.pc # "settling"
  PROVE  IInv'
<1>1. /\ ChainsOK'
      /\ \A x \in Key : Pending(chain'[x]) \subseteq Pending(chain[x]) \cup {}
      /\ \A x \in Key : \A t \in Front(chain'[x]) : \A m \in t.snap : Traced(m)
  BY MovesTrace
<1>2. HeadsOK'
  <2>1. \A x \in Key \ {k} : \A t \in Front(chain[x]) : HeadOK(x, t)'
    BY QuietHead
  <2> QED
    BY <2>1, HeadsMove
<1>3. \A x \in Key : \A s \in Live(db) : Settling(x, s) => Settling(x, s)' \/ db.shards[s].ids \subseteq excused'
  BY SettlingKept
<1> QED
  BY <1>1, <1>2, <1>3, QuietStep

LEMMA QuietStay ==
  ASSUME IInv, Types', NEW d, Quiet(db, d, window), Stored(d), window' \subseteq window \cup d.active,
         sent' = sent, resent' = resent, used' = used, (open' => open), owner' = owner, chain' = chain
  PROVE  IInv'
<1>1. ChainsOK'
  BY DEF IInv, ChainsOK
<1>2. HeadsOK'
  <2> SUFFICES ASSUME NEW x \in Key, NEW t \in Front(chain[x]) PROVE HeadOK(x, t)'
    BY DEF HeadsOK
  <2> QED
    BY QuietHead
<1>3. \A x \in Key : \A t \in Front(chain'[x]) : \A m \in t.snap : Traced(m)
  BY DEF Traced
<1>4. \A x \in Key : \A s \in Live(db) : Settling(x, s) => Settling(x, s)'
  BY DEF Settling
<1> QED
  BY <1>1, <1>2, <1>3, <1>4, QuietStep

-----------------------------------------------------------------------------
(* The steps, one by one.                                                  *)

LEMMA StoredTypes ==
  ASSUME IInv, NEW d, Whole(d), Stored(d)
  PROVE  saved' \subseteq Msg /\ excused' \subseteq Msg /\ d.active \subseteq Msg
<1>1. d.active \subseteq Msg /\ HeldRows(d) \subseteq Msg
  BY RowsHold DEF Whole, Database
<1> QED
  BY <1>1 DEF IInv, Types, Stored

LEMMA StepRest ==
  ASSUME IInv, WorkerRests
  PROVE  IInv'
<1>1. Whole(db) /\ Tried(db) /\ Types
  BY DEF IInv
<1>2. PICK d : Quiet(db, d, window) /\ Commit(d, {})
  BY <1>1, LoadQuiet, QuietSame DEF WorkerRests, TickDb
<1>3. Stored(d)
  BY <1>2, CommitStored
<1>4. saved' \subseteq Msg /\ excused' \subseteq Msg
  BY <1>2, <1>3, StoredTypes DEF Quiet
<1>5. Types'
  BY <1>1, <1>4 DEF WorkerRests, Types, memVars, lifeVars, faultVars
<1> QED
  BY <1>2, <1>3, <1>5, QuietStay DEF WorkerRests, memVars, lifeVars

LEMMA StepFlush ==
  ASSUME IInv, FlushState
  PROVE  IInv'
<1>1. Whole(db) /\ Tried(db) /\ Types /\ window \subseteq Msg /\ window \cap (db.consumed \cup HeldIds(db)) = {}
  BY DEF IInv, Types, WindowOK
<1>2. PICK d : Quiet(db, d, window) /\ Commit(d, {})
  BY <1>1, SaveQuiet DEF FlushState
<1>3. Stored(d)
  BY <1>2, CommitStored
<1>4. saved' \subseteq Msg /\ excused' \subseteq Msg
  BY <1>2, <1>3, StoredTypes DEF Quiet
<1>5. Types'
  BY <1>1, <1>4 DEF FlushState, Types, memVars, lifeVars, faultVars, taskVars
<1> QED
  BY <1>2, <1>3, <1>5, QuietStay DEF FlushState, memVars, lifeVars, taskVars

LEMMA StepStop ==
  ASSUME IInv, Stop
  PROVE  IInv'
<1>1. Whole(db) /\ Tried(db) /\ Types /\ window \subseteq Msg /\ window \cap (db.consumed \cup HeldIds(db)) = {}
  BY DEF IInv, Types, WindowOK
<1>2. PICK d : Quiet(db, d, window) /\ Commit(d, {})
  BY <1>1, SaveQuiet DEF Stop
<1>3. Stored(d)
  BY <1>2, CommitStored
<1>4. saved' \subseteq Msg /\ excused' \subseteq Msg
  BY <1>2, <1>3, StoredTypes DEF Quiet
<1>5. Types'
  <2>1. stops' = stops + 1 /\ stops \in Nat /\ worker' \in BOOLEAN /\ open' \in BOOLEAN
    BY <1>1 DEF Stop, Types
  <2>2. stops' \in Nat
    BY <2>1
  <2>3. UNCHANGED <<memVars, chain, owner, ticking, loading, loads, crashes, faultVars, used, sent, resent>>
    BY DEF Stop
  <2> QED
    BY <1>1, <1>4, <2>1, <2>2, <2>3 DEF Types, memVars, faultVars
<1> QED
  BY <1>2, <1>3, <1>5, QuietStay DEF Stop, memVars

LEMMA StepLoadEnds ==
  ASSUME IInv, LoadEnds
  PROVE  IInv'
<1>1. Whole(db) /\ Tried(db) /\ Types
  BY DEF IInv
<1>2. PICK d : Quiet(db, d, window) /\ Commit(d, {}) /\ window' = Capped(d.active)
  BY <1>1, LoadQuiet DEF LoadEnds, FromRows
<1>3. Stored(d) /\ window' \subseteq d.active
  BY <1>2, CommitStored DEF Capped, Latest
<1>4. saved' \subseteq Msg /\ excused' \subseteq Msg /\ window' \subseteq Msg
  BY <1>2, <1>3, StoredTypes DEF Quiet
<1>5. Types'
  BY <1>1, <1>4 DEF LoadEnds, Types, faultVars
<1> QED
  BY <1>2, <1>3, <1>5, QuietStay DEF LoadEnds

(* A task whose chain passes on with nothing done.                         *)
LEMMA StepRelease ==
  ASSUME IInv, NEW k \in Key, Busy(k), Release(k), Head(chain[k]).pc # "settling",
         UNCHANGED <<memVars, owner, worker, ticking, lifeVars, db, faultVars, ghostVars>>
  PROVE  IInv'
<1>1. Whole(db) /\ Tried(db) /\ Types /\ excused \subseteq Msg
  BY DEF IInv, Types
<1>2. Quiet(db, db, window)
  BY <1>1, QuietSame
<1>3. Moves(k, {}, {}) /\ Stored(db)
  BY <1>1, ReleaseMoves, SameStored DEF ghostVars
<1>4. Types'
  BY <1>1, <1>3 DEF Types, Moves, memVars, lifeVars, faultVars, ghostVars
<1>5. \A t \in Front(chain[k]) : t.pc # "settling"
  BY DEF Front
<1> QED
  BY <1>2, <1>3, <1>4, <1>5, QuietMove DEF memVars, lifeVars, ghostVars

LEMMA StepEnds ==
  ASSUME IInv, NEW k \in Key, BeginAbandoned(k) \/ EndUnsent(k)
  PROVE  IInv'
<1>1. /\ Busy(k) /\ Release(k) /\ Head(chain[k]).pc # "settling"
      /\ UNCHANGED <<memVars, owner, worker, ticking, lifeVars, db, faultVars, ghostVars>>
  BY DEF BeginAbandoned, EndUnsent, MayBegin, At
<1> QED
  BY <1>1, StepRelease

LEMMA SameHead ==
  ASSUME IInv, UNCHANGED <<db, saved, sent, open, owner>>, excused \subseteq excused', excused' \subseteq Msg,
         NEW k \in Key, NEW t \in Front(chain[k])
  PROVE  HeadOK(k, t)'
<1>1. Quiet(db, db, window)
  BY QuietSame DEF IInv
<1> QED
  BY <1>1, SameStored, QuietHead

(* A task that does nothing yet joins a chain.                             *)
LEMMA StepEnqueue ==
  ASSUME IInv, NEW k \in Key, NEW t \in Task, t.pc = (IF Busy(k) THEN "queued" ELSE "running"),
         t.kind # "worker", t.shard = 0, t.snap = {}, Enqueue(k, t),
         NEW new, new = (IF t.kind = "turn" THEN {t.msg} ELSE {}), used' = used \cup new, new \subseteq Of(k) \ used,
         UNCHANGED <<window, db, open, owner, saved, sent, resent, excused>>,
         chain' \in [Key -> Seq(Task)] => Types'
  PROVE  IInv'
<1> DEFINE H == IF Busy(k) THEN Front(chain[k]) ELSE {t}
<1>1. /\ Whole(db) /\ Tried(db) /\ Types /\ excused \subseteq Msg /\ TracesOK /\ WindowOK /\ UnsentOK
      /\ DurableUntilSent /\ SentOnce /\ ShardsOK
  BY DEF IInv, Types
<1>2. Busy(k) => Waiting(t)
  BY DEF Waiting
<1>3. Moves(k, H, new) /\ Front(chain'[k]) = H
  BY <1>2, EnqueueMoves
<1>4. \A x \in Key : \A u \in Front(chain[x]) : HeadOK(x, u)'
  BY <1>1, SameHead
<1>5. HeadOK(k, t)'
  BY DEF HeadOK, Shape, Carries, Ready, Accounted, Sending
<1>6. HeadsOK'
  BY <1>3, <1>4, <1>5, HeadsMove
<1>7. \A u \in H : \A m \in u.snap : Traced(m)
  BY DEF Traced
<1>8. /\ ChainsOK' /\ \A x \in Key : Pending(chain'[x]) \subseteq Pending(chain[x]) \cup new
      /\ \A x \in Key : \A u \in Front(chain'[x]) : \A m \in u.snap : Traced(m)
  BY <1>3, <1>7, MovesTrace
<1>9. TracesOK'
  <2> SUFFICES ASSUME NEW m \in Msg, Traced(m)'
               PROVE  m \in used' /\ \A x \in Key : m \notin Pending(chain'[x])
    BY DEF TracesOK
  <2>1. Traced(m)
    BY <1>8 DEF Traced
  <2>2. m \in used /\ \A x \in Key : m \notin Pending(chain[x])
    BY <1>1, <2>1 DEF TracesOK
  <2> QED
    BY <1>8, <2>2
<1>10. \A x \in Key : \A s : Settling(x, s) => Settling(x, s)'
  <2> SUFFICES ASSUME NEW x \in Key, NEW s, Settling(x, s) PROVE Settling(x, s)'
    OBVIOUS
  <2>1. PICK u \in Front(chain[x]) : u.pc = "settling" /\ u.shard = s
    BY DEF Settling
  <2>2. u \in Front(chain'[x])
    <3>1. CASE x = k
      BY <1>3, <2>1, <3>1 DEF Front, Busy
    <3>2. CASE x # k
      BY <1>3, <3>2 DEF Moves
    <3> QED
      BY <3>1, <3>2
  <2> QED
    BY <2>1, <2>2 DEF Settling
<1>11. ShardsOK'
  BY <1>1, <1>10 DEF ShardsOK, ShardOK
<1>12. WindowOK' /\ UnsentOK' /\ DurableUntilSent' /\ SentOnce'
  BY <1>1 DEF WindowOK, UnsentOK, DurableUntilSent, Kept, SentOnce
<1>13. Types'
  BY <1>3 DEF Moves
<1> QED
  BY <1>1, <1>6, <1>8, <1>9, <1>11, <1>12, <1>13 DEF IInv

LEMMA NewTaskOK ==
  ASSUME IInv, NEW kind \in {"turn", "flush", "worker"}, NEW k \in Key, NEW m \in Msg \cup {0}, NEW send \in BOOLEAN,
         NEW v \in Nat
  PROVE  LET t == NewTask(kind, k, m, send, v) IN
         /\ t \in Task /\ t.kind = kind /\ t.pc = (IF Busy(k) THEN "queued" ELSE "running")
         /\ t.msg = m /\ t.shard = 0 /\ t.snap = {} /\ t.owner = owner
BY DEF IInv, Types, NewTask, Task

LEMMA StepInbound ==
  ASSUME IInv, NEW m \in Msg, NEW send \in BOOLEAN, Inbound(m, send)
  PROVE  IInv'
<1> DEFINE k == KeyOf[m]
           t == NewTask("turn", k, m, send, 0)
<1>1. /\ k \in Key /\ Enqueue(k, t) /\ m \notin used /\ used' = used \cup {m} /\ m \in Of(k)
      /\ UNCHANGED <<window, db, open, owner, saved, sent, resent, excused>>
  BY HistoryAssumption DEF Inbound, Arrives, memVars, lifeVars, Of
<1>2. /\ t \in Task /\ t.kind = "turn" /\ t.pc = (IF Busy(k) THEN "queued" ELSE "running")
      /\ t.msg = m /\ t.shard = 0 /\ t.snap = {}
  <2>1. 0 \in Nat /\ m \in Msg \cup {0}
    OBVIOUS
  <2> HIDE DEF k
  <2> QED
    BY <1>1, <2>1, NewTaskOK
<1>3. chain' \in [Key -> Seq(Task)] => Types'
  BY DEF IInv, Inbound, Types, memVars, lifeVars, faultVars
<1> HIDE DEF k, t
<1>4. t.kind # "worker" /\ {m} = (IF t.kind = "turn" THEN {t.msg} ELSE {}) /\ {m} \subseteq Of(k) \ used
  BY <1>1, <1>2
<1> QED
  BY <1>1, <1>2, <1>3, <1>4, StepEnqueue

LEMMA StepQueueFlush ==
  ASSUME IInv, NEW f \in flushes, QueueFlush(f)
  PROVE  IInv'
<1>1. PICK k \in Key, v \in Nat, m \in Msg : f[1] = k /\ f[2] = v /\ f[3] = m
  BY DEF IInv, Types
<1> DEFINE t == NewTask("flush", k, m, TRUE, v)
<1>2. Enqueue(k, t) /\ used' = used \cup {}
      /\ UNCHANGED <<window, db, open, owner, saved, sent, resent, excused>>
  BY <1>1 DEF QueueFlush, lifeVars, ghostVars
<1>3. /\ t \in Task /\ t.kind = "flush" /\ t.pc = (IF Busy(k) THEN "queued" ELSE "running")
      /\ t.shard = 0 /\ t.snap = {}
  BY DEF NewTask, Task, IInv, Types
<1>4. chain' \in [Key -> Seq(Task)] => Types'
  BY DEF IInv, QueueFlush, Types, lifeVars, faultVars, ghostVars
<1> HIDE DEF t
<1>5. t.kind # "worker" /\ {} = (IF t.kind = "turn" THEN {t.msg} ELSE {}) /\ {} \subseteq Of(k) \ used
  BY <1>3
<1> QED
  BY <1>2, <1>3, <1>4, <1>5, StepEnqueue

LEMMA Recorded ==
  ASSUME NEW w, NEW m
  PROVE  Record(w, m) \subseteq w \cup {m}
BY DEF Record, Latest

(* The window takes in a message that has left no trace.                   *)
LEMMA WindowStep ==
  ASSUME IInv, Types', NEW m0 \in Msg, ~Traced(m0), window' \subseteq window \cup {m0},
         UNCHANGED <<db, saved, sent, resent, excused>>, ChainsOK', HeadsOK', used \subseteq used', m0 \in used',
         \A x \in Key : Pending(chain'[x]) \subseteq Pending(chain[x]) \ {m0},
         \A x \in Key : \A t \in Front(chain'[x]) : \A m \in t.snap : Traced(m),
         \A k \in Key : \A s \in Live(db) : Settling(k, s) => Settling(k, s)'
  PROVE  IInv'
<1>1. /\ Whole(db) /\ Tried(db) /\ TracesOK /\ WindowOK /\ UnsentOK /\ DurableUntilSent /\ SentOnce /\ ShardsOK
  BY DEF IInv
<1>2. m0 \notin db.consumed \cup HeldIds(db) \cup sent
  BY DEF Traced
<1>3. WindowOK' /\ UnsentOK' /\ DurableUntilSent' /\ SentOnce'
  BY <1>1, <1>2 DEF WindowOK, UnsentOK, DurableUntilSent, Kept, SentOnce
<1>4. ShardsOK'
  BY <1>1 DEF ShardsOK, ShardOK
<1>5. TracesOK'
  <2> SUFFICES ASSUME NEW m \in Msg, Traced(m)'
               PROVE  m \in used' /\ \A x \in Key : m \notin Pending(chain'[x])
    BY DEF TracesOK
  <2>1. Traced(m) \/ m = m0
    BY DEF Traced
  <2>2. Traced(m) => m \in used /\ \A x \in Key : m \notin Pending(chain[x])
    BY <1>1 DEF TracesOK
  <2> QED
    BY <2>1, <2>2
<1> QED
  BY <1>1, <1>3, <1>4, <1>5 DEF IInv

LEMMA StepBotReply ==
  ASSUME IInv, NEW m \in Msg, BotReply(m)
  PROVE  IInv'
<1> DEFINE k == KeyOf[m]
<1>1. /\ k \in Key /\ m \notin used /\ used' = used \cup {m} /\ window' = Record(window, m)
      /\ version' = [version EXCEPT ![k] = @ + 1] /\ flushes' \subseteq flushes \cup {<<k, version'[k], m>>}
      /\ UNCHANGED <<taskVars, lifeVars, db, faultVars, saved, sent, resent, excused>>
  BY HistoryAssumption DEF BotReply, Arrives
<1>2. Types /\ ChainsOK /\ HeadsOK /\ TracesOK
  BY DEF IInv
<1> HIDE DEF k
<1>3. window' \subseteq window \cup {m}
  BY <1>1, Recorded
<1>4. Types'
  <2>1. version' \in [Key -> Nat] /\ flushes' \subseteq Key \X Nat \X Msg
    BY <1>1, <1>2 DEF Types
  <2>2. window' \subseteq Msg /\ used' \subseteq Msg
    BY <1>1, <1>2, <1>3 DEF Types
  <2> QED
    BY <1>1, <1>2, <2>1, <2>2 DEF Types, taskVars, lifeVars, faultVars
<1>5. ~Traced(m)
  BY <1>1, <1>2 DEF TracesOK
<1>6. \A x \in Key : ChainOK(x, chain[x], used) /\ m \notin Pending(chain[x])
  BY <1>1, <1>2, PendingSeen DEF ChainsOK
<1>7. ChainsOK'
  <2> SUFFICES ASSUME NEW x \in Key PROVE ChainOK(x, chain[x], used')
    BY <1>1 DEF ChainsOK, taskVars
  <2>1. used \subseteq used'
    BY <1>1
  <2> QED
    BY <1>6, <2>1, Wider
<1>8. HeadsOK'
  <2>1. excused \subseteq excused' /\ excused' \subseteq Msg
    BY <1>1, <1>2 DEF Types
  <2> SUFFICES ASSUME NEW x \in Key, NEW t \in Front(chain[x]) PROVE HeadOK(x, t)'
    BY <1>1 DEF HeadsOK, taskVars
  <2> QED
    BY <1>1, <2>1, SameHead DEF lifeVars, taskVars
<1>9. \A x \in Key : \A t \in Front(chain'[x]) : \A u \in t.snap : Traced(u)
  BY <1>1 DEF Traced, taskVars
<1>10. \A x \in Key : \A s \in Live(db) : Settling(x, s) => Settling(x, s)'
  BY <1>1 DEF Settling, taskVars
<1>11. used \subseteq used' /\ m \in used' /\ \A x \in Key : Pending(chain'[x]) \subseteq Pending(chain[x]) \ {m}
  BY <1>1, <1>6 DEF taskVars
<1> QED
  BY <1>1, <1>3, <1>4, <1>5, <1>7, <1>8, <1>9, <1>10, <1>11, WindowStep

(* What the head of a chain becomes that has done nothing yet.             *)
LEMMA IdleHead ==
  ASSUME NEW k, NEW t, t.snap = {}, t.shard = 0, t.pc = "reconcile", t.kind # "worker"
  PROVE  HeadOK(k, t)'
BY DEF HeadOK, Shape, Carries, Ready, Accounted, Sending

LEMMA BeginHead ==
  ASSUME IInv, NEW k \in Key, MayBegin(k), Head(chain[k]).kind # "worker", NEW send \in BOOLEAN,
         NEW t, t = [Head(chain[k]) EXCEPT !.pc = "reconcile", !.send = send]
  PROVE  /\ t \in Task /\ ~Unbegun(t) /\ t.kind = Head(chain[k]).kind /\ t.msg = Head(chain[k]).msg
         /\ Busy(k) /\ t.snap = {} /\ HeadOK(k, t)' /\ Head(chain[k]).pc # "settling"
         /\ \A u \in Front(chain[k]) : u.pc # "settling"
<1> DEFINE h == Head(chain[k])
<1>1. Busy(k) /\ h.pc \in {"queued", "running"} /\ Types /\ ChainsOK
  BY DEF MayBegin, At, IInv
<1>2. h \in Task /\ Front(chain[k]) = {h}
  BY <1>1, FrontOf
<1>3. HeadOK(k, h)
  BY <1>2, FrontHead
<1>4. h.snap = {} /\ h.shard = 0
  BY <1>1, <1>3 DEF HeadOK, Shape
<1> HIDE DEF h
<1>5. t = [h EXCEPT !.pc = "reconcile", !.send = send]
  BY DEF h
<1>6. /\ t \in Task /\ t.pc = "reconcile" /\ t.kind = h.kind /\ t.msg = h.msg /\ t.snap = {} /\ t.shard = 0
  BY <1>2, <1>4, <1>5 DEF Task
<1>7. HeadOK(k, t)'
  BY <1>6, IdleHead DEF h
<1> QED
  BY <1>1, <1>2, <1>6, <1>7 DEF Unbegun, h

LEMMA StepBeginFlush ==
  ASSUME IInv, NEW k \in Key, BeginFlush(k)
  PROVE  IInv'
<1>1. /\ MayBegin(k) /\ Head(chain[k]).kind = "flush" /\ Types /\ Whole(db) /\ Tried(db)
      /\ UNCHANGED <<memVars, owner, worker, ticking, lifeVars, db, faultVars, ghostVars>>
  BY DEF BeginFlush, IInv
<1>2. CASE Release(k)
  BY <1>1, <1>2, StepRelease DEF MayBegin, At
<1>3. CASE SetHead(k, [Head(chain[k]) EXCEPT !.pc = "reconcile"])
  <2>1. PICK t : t = [Head(chain[k]) EXCEPT !.pc = "reconcile", !.send = Head(chain[k]).send] /\ SetHead(k, t)
    <3>1. Head(chain[k]) \in Task
      BY <1>1, FrontOf DEF IInv, MayBegin, At
    <3>2. [Head(chain[k]) EXCEPT !.pc = "reconcile"] = [Head(chain[k]) EXCEPT !.pc = "reconcile", !.send = Head(chain[k]).send]
      BY <3>1 DEF Task
    <3> QED
      BY <1>3, <3>2
  <2>2. Head(chain[k]).send \in BOOLEAN
    BY <1>1, FrontOf DEF IInv, MayBegin, At, Task
  <2>3. /\ t \in Task /\ ~Unbegun(t) /\ t.kind = Head(chain[k]).kind /\ t.msg = Head(chain[k]).msg
        /\ Busy(k) /\ t.snap = {} /\ HeadOK(k, t)' /\ \A u \in Front(chain[k]) : u.pc # "settling"
    BY <1>1, <2>1, <2>2, BeginHead
  <2>4. Moves(k, {t}, {})
    BY <1>1, <2>1, <2>3, SetHeadMoves DEF ghostVars
  <2>5. Types'
    BY <1>1, <2>4 DEF Types, Moves, memVars, lifeVars, faultVars, ghostVars
  <2>6. Quiet(db, db, window) /\ Stored(db)
    BY <1>1, QuietSame, SameStored DEF Types, ghostVars
  <2> QED
    BY <1>1, <2>3, <2>4, <2>5, <2>6, QuietMove DEF memVars, lifeVars, ghostVars
<1> QED
  BY <1>2, <1>3 DEF BeginFlush

LEMMA StepBeginTurn ==
  ASSUME IInv, NEW k \in Key, BeginTurn(k)
  PROVE  IInv'
<1> DEFINE h == Head(chain[k])
           send == h.send \/ Overflows(window', k)
<1>1. /\ MayBegin(k) /\ h.kind = "turn" /\ window' = Record(window, h.msg)
      /\ version' = [version EXCEPT ![k] = @ + 1]
      /\ UNCHANGED <<flushes, owner, worker, ticking, lifeVars, db, faultVars, ghostVars>>
  BY DEF BeginTurn
<1>2. Types /\ ChainsOK /\ HeadsOK /\ TracesOK /\ excused \subseteq Msg /\ used \subseteq Msg
  BY DEF IInv, Types
<1>3. /\ h \in Task /\ Busy(k) /\ h.pc \in {"queued", "running"} /\ Front(chain[k]) = {h}
      /\ h.msg \in used \cap Of(k) /\ chain[k] # <<>>
  BY <1>1, <1>2, FrontOf DEF MayBegin, At
<1>4. PICK t : t = [h EXCEPT !.pc = "reconcile", !.send = send] /\ SetHead(k, t)
  BY DEF BeginTurn
<1>5. send \in BOOLEAN
  OBVIOUS
<1> HIDE DEF send
<1>6. /\ t \in Task /\ ~Unbegun(t) /\ t.kind = h.kind /\ t.msg = h.msg
      /\ t.snap = {} /\ HeadOK(k, t)' /\ \A u \in Front(chain[k]) : u.pc # "settling"
  BY <1>1, <1>4, <1>5, BeginHead
<1>7. Moves(k, {t}, {}) /\ t.msg \notin Pending(chain'[k])
  BY <1>1, <1>3, <1>4, <1>6, SetHeadMoves DEF ghostVars
<1> HIDE DEF h
<1>8. PICK m \in Msg : m = h.msg /\ m \in used \cap Of(k)
  BY <1>2, <1>3
<1>9. ~Traced(m)
  <2>1. m \in Pending(chain[k])
    <3>1. 1 \in 1..Len(chain[k]) /\ h = chain[k][1]
      BY <1>2, <1>3 DEF ChainsOK, ChainOK, h
    <3> QED
      BY <1>1, <1>3, <1>8, <3>1 DEF Pending, Unbegun
  <2> QED
    BY <1>2, <2>1 DEF TracesOK
<1>10. window' \subseteq window \cup {m}
  BY <1>1, <1>8, Recorded
<1>11. Types'
  <2>1. version' \in [Key -> Nat] /\ window' \subseteq Msg
    BY <1>1, <1>2, <1>10 DEF Types
  <2> QED
    BY <1>1, <1>2, <1>7, <2>1 DEF Types, Moves, lifeVars, faultVars, ghostVars
<1>12. /\ ChainsOK' /\ \A x \in Key : Pending(chain'[x]) \subseteq Pending(chain[x]) \cup {}
       /\ \A x \in Key : \A u \in Front(chain'[x]) : \A y \in u.snap : Traced(y)
  <2>1. \A u \in {t} : \A y \in u.snap : Traced(y)
    BY <1>6
  <2> QED
    BY <1>7, <2>1, MovesTrace
<1>13. \A x \in Key : Pending(chain'[x]) \subseteq Pending(chain[x]) \ {m}
  <2>1. \A x \in Key \ {k} : m \notin Pending(chain[x])
    BY <1>2, <1>8, PendingSeen DEF ChainsOK, Of
  <2> QED
    BY <1>6, <1>7, <1>8, <1>12, <2>1
<1>14. HeadsOK'
  <2>1. \A x \in Key \ {k} : \A u \in Front(chain[x]) : HeadOK(x, u)'
    BY <1>1, <1>2, SameHead DEF lifeVars, ghostVars
  <2> QED
    BY <1>6, <1>7, <2>1, HeadsMove
<1>15. \A x \in Key : \A s \in Live(db) : Settling(x, s) => Settling(x, s)'
  BY <1>6, <1>7, SettlingKept
<1> QED
  BY <1>1, <1>8, <1>9, <1>10, <1>11, <1>12, <1>13, <1>14, <1>15, WindowStep DEF ghostVars

LEMMA StepReconcile ==
  ASSUME IInv, NEW k \in Key, Reconcile(k)
  PROVE  IInv'
<1> DEFINE h == Head(chain[k])
<1>1. /\ At(k, "reconcile") /\ Types /\ ChainsOK /\ Whole(db) /\ Tried(db) /\ window \subseteq Msg /\ WindowOK
      /\ UNCHANGED <<version, flushes, owner, worker, ticking, lifeVars, faultVars, used, sent, resent>>
  BY DEF Reconcile, IInv, Types
<1>2. PICK d : /\ Quiet(db, d, window) /\ Commit(d, {}) /\ window' = (IF open THEN Capped(d.active) ELSE window)
               /\ d = (IF open THEN SaveMerged(db, {k}, owner) ELSE db)
  BY <1>1, SaveQuiet, QuietSame DEF Reconcile, FromRows, WindowOK
<1>3. /\ Stored(d) /\ saved' \subseteq Msg /\ excused' \subseteq Msg /\ d.active \subseteq Msg /\ db' = d
  <2>1. Stored(d)
    BY <1>2, CommitStored
  <2>2. db' = d
    BY <2>1 DEF Stored
  <2> QED
    BY <1>2, <2>1, <2>2, StoredTypes DEF Quiet
<1>4. window' \subseteq window \cup d.active /\ window' \subseteq Msg /\ d.active \subseteq window \cup db.active
  <2>1. window' \subseteq window \cup d.active
    BY <1>2 DEF Capped, Latest
  <2> QED
    BY <1>1, <1>2, <1>3, <2>1 DEF Quiet
<1>5. WindowOK' /\ UnsentOK' /\ Remembered
  BY <1>1, <1>2, <1>3, <1>4, QuietData
<1>6. h \in Task /\ Front(chain[k]) = {h} /\ HeadOK(k, h) /\ h.pc = "reconcile" /\ Busy(k)
  BY <1>1, FrontOf, FrontHead DEF At
<1>7. \A u \in Front(chain[k]) : u.pc # "settling"
  BY <1>6
<1>8. ASSUME NEW H, Moves(k, H, {}), \A t \in H : HeadOK(k, t)' /\ \A m \in t.snap : Traced(m)
      PROVE  IInv'
  <2>1. Types'
    BY <1>1, <1>3, <1>4, <1>8 DEF Types, Moves, lifeVars, faultVars
  <2> QED
    BY <1>1, <1>2, <1>3, <1>4, <1>7, <1>8, <2>1, QuietMove DEF lifeVars
<1>9. CASE Release(k)
  BY <1>1, <1>6, <1>8, <1>9, ReleaseMoves
<1>10. CASE SetHead(k, [h EXCEPT !.pc = "context", !.snap = IF h.send THEN Snapshot(window', k) ELSE {}])
  <2> HIDE DEF h
  <2>1. PICK snap : snap = (IF h.send THEN Snapshot(window', k) ELSE {})
    OBVIOUS
  <2>2. PICK t : t = [h EXCEPT !.pc = "context", !.snap = snap] /\ SetHead(k, t)
    BY <1>10, <2>1
  <2>3. snap \subseteq window' /\ snap \subseteq Of(k) /\ snap \subseteq Msg
    BY <1>4, <2>1 DEF Snapshot
  <2>4. h.kind # "worker" /\ h.shard = 0
    BY <1>6 DEF HeadOK, Shape
  <2>5. /\ t \in Task /\ t.pc = "context" /\ t.snap = snap /\ t.kind = h.kind /\ t.msg = h.msg /\ t.shard = 0
        /\ t.send = h.send
    BY <1>6, <2>2, <2>3, <2>4 DEF Task
  <2>6. ~Unbegun(t)
    BY <2>5 DEF Unbegun
  <2>7. Moves(k, {t}, {})
    BY <1>1, <1>6, <2>2, <2>5, <2>6, SetHeadMoves DEF h
  <2>8. Shape(k, t) /\ Carries(k, t, db')
    BY <2>3, <2>4, <2>5 DEF Shape, Carries
  <2>9. Ready(t, db')
    <3>1. window' \cap (db'.consumed \cup HeldIds(db')) = {}
      BY <1>5 DEF WindowOK
    <3> QED
      BY <2>3, <2>5, <3>1 DEF Ready
  <2>10. Accounted(t, d)'
    BY <1>5, <2>3, <2>5 DEF Accounted, Sending, UnsentOK
  <2>11. HeadOK(k, t)'
    BY <1>3, <2>8, <2>9, <2>10 DEF HeadOK
  <2>12. \A m \in t.snap : Traced(m)
    BY <1>5, <2>3, <2>5 DEF Remembered
  <2> QED
    BY <1>8, <2>7, <2>11, <2>12
<1> QED
  BY <1>9, <1>10 DEF Reconcile

LEMMA StepSendWithout ==
  ASSUME IInv, NEW k \in Key, SendWithoutShard(k)
  PROVE  IInv'
<1> DEFINE h == Head(chain[k])
<1>1. /\ At(k, "context") /\ Types /\ ChainsOK /\ Whole(db) /\ Tried(db) /\ excused \subseteq Msg
      /\ excused' = excused \cup h.snap /\ dbErrors' \in {dbErrors, dbErrors + 1}
      /\ UNCHANGED <<memVars, owner, worker, ticking, lifeVars, db, fails, stalls, used, saved, sent, resent>>
  BY DEF SendWithoutShard, IInv, Types
<1>2. PICK t : t = [h EXCEPT !.pc = "upload"] /\ SetHead(k, t)
  BY DEF SendWithoutShard
<1>3. h \in Task /\ Front(chain[k]) = {h} /\ HeadOK(k, h) /\ h.pc = "context" /\ Busy(k)
  BY <1>1, FrontOf, FrontHead DEF At
<1>4. \A m \in h.snap : Traced(m)
  BY <1>3 DEF Traced
<1> HIDE DEF h
<1>5. h.shard = 0 /\ h.kind # "worker" /\ h.snap \subseteq Of(k) /\ h.snap \subseteq Msg
  BY <1>3 DEF HeadOK, Shape, Task
<1>6. /\ t \in Task /\ t.pc = "upload" /\ t.snap = h.snap /\ t.kind = h.kind /\ t.msg = h.msg /\ t.shard = 0
  BY <1>2, <1>3, <1>5 DEF Task
<1>7. ~Unbegun(t)
  BY <1>6 DEF Unbegun
<1>8. Moves(k, {t}, {})
  BY <1>1, <1>2, <1>3, <1>6, <1>7, SetHeadMoves DEF h
<1>9. HeadOK(k, t)'
  BY <1>1, <1>5, <1>6 DEF HeadOK, Shape, Carries, Ready, Accounted, Sending
<1>10. excused \subseteq excused' /\ excused' \subseteq Msg
  BY <1>1, <1>5
<1>11. Quiet(db, db, window) /\ Stored(db)
  BY <1>1, <1>10, QuietSame, SameStored
<1>12. Types'
  <2>1. dbErrors' \in Nat
    BY <1>1 DEF Types
  <2> QED
    BY <1>1, <1>8, <1>10, <2>1 DEF Types, Moves, memVars, lifeVars
<1> QED
  BY <1>1, <1>3, <1>4, <1>6, <1>8, <1>9, <1>11, <1>12, QuietMove DEF memVars, lifeVars

LEMMA StepHostAccepts ==
  ASSUME IInv, NEW k \in Key, HostAccepts(k)
  PROVE  IInv'
<1> DEFINE h == Head(chain[k])
<1>1. /\ At(k, "upload") /\ sent' = sent \cup Entries(h.snap, Reply(h)) /\ resent' = resent \cup (sent \cap Entries(h.snap, Reply(h)))
      /\ UNCHANGED <<memVars, owner, worker, ticking, lifeVars, db, faultVars, used, saved, excused>>
  BY DEF HostAccepts
<1>2. /\ Types /\ ChainsOK /\ HeadsOK /\ Whole(db) /\ Tried(db) /\ TracesOK /\ WindowOK /\ UnsentOK
      /\ DurableUntilSent /\ SentOnce /\ ShardsOK
  BY DEF IInv
<1>3. PICK t : t = [h EXCEPT !.pc = "settling"] /\ SetHead(k, t)
  BY DEF HostAccepts
<1>4. h \in Task /\ Front(chain[k]) = {h} /\ HeadOK(k, h) /\ h.pc = "upload" /\ Busy(k)
  BY <1>1, <1>2, FrontOf, FrontHead DEF At
<1>5. \A m \in h.snap : Traced(m)
  BY <1>4 DEF Traced
<1> HIDE DEF h
<1>6. /\ h.snap \subseteq Of(k) /\ h.snap \subseteq Msg /\ h.snap \cap sent \subseteq excused
      /\ Shape(k, h) /\ Carries(k, h, db)
      /\ Core(h.snap) \subseteq Entries(h.snap, Reply(h)) /\ Entries(h.snap, Reply(h)) \subseteq h.snap
  <2>1. h.snap \subseteq Msg
    BY <1>4 DEF Task
  <2>2. Core(h.snap) \subseteq Entries(h.snap, Reply(h)) /\ Entries(h.snap, Reply(h)) \subseteq h.snap
    BY <2>1, EntriesBetween
  <2> QED
    BY <1>4, <2>1, <2>2 DEF HeadOK, Shape, Accounted
<1>7. \/ h.snap \subseteq excused
      \/ /\ h.shard # 0 /\ h.shard \in Live(db) /\ db.shards[h.shard].ids = h.snap
  <2>1. h.shard # 0 => h.shard \in Live(db) /\ db.shards[h.shard].ids = h.snap
    BY <1>6 DEF Carries
  <2>2. h.snap \subseteq excused \/ h.shard # 0
    BY <1>4 DEF HeadOK, Accounted, Sending
  <2> QED
    BY <1>2, <2>1, <2>2 DEF Whole
<1>8. /\ t \in Task /\ t.pc = "settling" /\ t.snap = h.snap /\ t.kind = h.kind /\ t.msg = h.msg
      /\ t.shard = h.shard /\ t.owner = h.owner
  BY <1>3, <1>4 DEF Task
<1>9. ~Unbegun(t)
  BY <1>8 DEF Unbegun
<1>10. Moves(k, {t}, {}) /\ Front(chain'[k]) = {t}
  BY <1>1, <1>3, <1>4, <1>8, <1>9, SetHeadMoves DEF h
<1>11. HeadOK(k, t)'
  <2>1. Shape(k, t) /\ Carries(k, t, db)
    BY <1>4, <1>6, <1>8 DEF Shape, Carries
  <2>2. Ready(t, db)
    BY <1>8 DEF Ready
  <2>3. Accounted(t, db)'
    BY <1>1, <1>4, <1>6, <1>8 DEF Accounted, HeadOK, Sending
  <2> QED
    BY <1>1, <2>1, <2>2, <2>3 DEF HeadOK
<1>12. ASSUME NEW x \in Key \ {k}, NEW u \in Front(chain[x]) PROVE HeadOK(x, u)'
  <2>1. HeadOK(x, u) /\ u.snap \subseteq Of(x) /\ Carries(x, u, db)
    BY FrontHead DEF HeadOK, Shape
  <2>2. u.snap \cap h.snap = {}
    BY <1>6, <2>1 DEF Of
  <2>3. RowKept(u, db)
    BY <2>1 DEF RowKept, Carries, Same
  <2>4. sent \subseteq sent' /\ u.snap \cap sent' \subseteq sent \cup excused'
    BY <1>1, <1>6, <2>2
  <2> QED
    BY <1>1, <2>1, <2>3, <2>4, HeadKept DEF lifeVars
<1>13. HeadsOK'
  BY <1>10, <1>11, <1>12, HeadsMove
<1>14. /\ ChainsOK' /\ \A x \in Key : Pending(chain'[x]) \subseteq Pending(chain[x]) \cup {}
       /\ \A x \in Key : \A u \in Front(chain'[x]) : \A y \in u.snap : Traced(y)
  <2>1. \A u \in {t} : \A y \in u.snap : Traced(y)
    BY <1>5, <1>8
  <2> QED
    BY <1>10, <2>1, MovesTrace
<1>15. TracesOK'
  <2>1. Remembered
    BY <1>1, <1>5, <1>6 DEF Remembered, Traced, memVars
  <2> QED
    BY <1>1, <1>14, <2>1, TracesKept
<1>16. ShardsOK'
  <2> SUFFICES ASSUME NEW s \in Live(db) PROVE ShardOK(s)'
    BY <1>1 DEF ShardsOK
  <2>1. ShardOK(s)
    BY <1>2 DEF ShardsOK
  <2>2. \A x \in Key : Settling(x, s) => Settling(x, s)'
    BY <1>4, <1>10, SettlingKept
  <2>3. \/ Settling(k, s)' \/ db.shards[s].ids \cap h.snap \subseteq excused
    <3>1. CASE s = h.shard
      BY <1>8, <1>10, <3>1 DEF Settling
    <3>2. CASE s # h.shard
      BY <1>2, <1>7, <3>2 DEF Whole
    <3> QED
      BY <3>1, <3>2
  <2> QED
    BY <1>1, <1>6, <2>1, <2>2, <2>3 DEF ShardOK
<1>17. UnsentOK'
  <2>1. (window \cup db.active) \cap h.snap \subseteq excused
    BY <1>2, <1>7 DEF Whole, WindowOK, HeldIds, Named
  <2> QED
    BY <1>1, <1>2, <1>6, <2>1 DEF UnsentOK, memVars
<1>18. WindowOK' /\ DurableUntilSent' /\ SentOnce'
  <2>1. WindowOK' /\ SentOnce'
    BY <1>1, <1>2, <1>6 DEF WindowOK, SentOnce, memVars
  <2>2. Stored(db) /\ sent \subseteq sent' /\ sent' \subseteq Msg
    BY <1>1, <1>2, <1>6, SameStored DEF Types
  <2>3. Covers(db.active \cup HeldRows(db) \cup sent', db.active \cup HeldRows(db))
    BY DEF Covers
  <2>4. DurableUntilSent'
    BY <1>2, <2>2, <2>3, DurableStep
  <2> QED
    BY <2>1, <2>4
<1>19. Types'
  BY <1>1, <1>2, <1>6, <1>10 DEF Types, Moves, memVars, lifeVars, faultVars
<1>20. Whole(db') /\ Tried(db')
  BY <1>1, <1>2
<1> QED
  BY <1>13, <1>14, <1>15, <1>16, <1>17, <1>18, <1>19, <1>20 DEF IInv

(* One shard is written and stays as settled as it was.                    *)
LEMMA WriteData ==
  ASSUME IInv, NEW s \in Live(db), NEW d, NEW q, Written(db, d, s, q), q.attempts < MaxAttempts, Stored(d),
         UNCHANGED <<window, sent, resent>>
  PROVE  /\ Whole(d) /\ Tried(d) /\ Live(d) = Live(db) /\ \A x \in Live(d) : Same(db.shards[x], d.shards[x])
         /\ WindowOK' /\ UnsentOK' /\ DurableUntilSent' /\ SentOnce' /\ Remembered
<1>1. Whole(db) /\ Tried(db) /\ WindowOK /\ UnsentOK /\ SentOnce /\ sent \subseteq Msg
  BY DEF IInv, Types
<1>2. Whole(d) /\ Live(d) = Live(db)
  BY <1>1, WrittenOK
<1>3. \A x \in Live(d) : Same(db.shards[x], d.shards[x])
  BY <1>2 DEF Written, Same, Live
<1>4. Tried(d)
  BY <1>1, <1>2 DEF Tried, Written, Live
<1>5. HeldIds(d) = HeldIds(db) /\ HeldRows(d) = HeldRows(db)
  BY <1>2, <1>3 DEF HeldIds, Named, HeldRows, Rows, Same
<1>6. db' = d /\ d.active = db.active /\ d.consumed = db.consumed /\ excused \subseteq excused'
  BY DEF Stored, Written
<1>7. WindowOK' /\ UnsentOK' /\ DurableUntilSent' /\ SentOnce'
  <2>1. WindowOK' /\ UnsentOK' /\ SentOnce'
    BY <1>1, <1>5, <1>6 DEF WindowOK, UnsentOK, SentOnce
  <2>2. Covers(d.active \cup HeldRows(d) \cup sent', db.active \cup HeldRows(db))
    BY <1>5, <1>6 DEF Covers
  <2>3. DurableUntilSent'
    BY <1>1, <1>2, <2>2, DurableStep
  <2> QED
    BY <2>1, <2>3
<1>8. Remembered
  BY <1>5, <1>6 DEF Remembered, Traced
<1> QED
  BY <1>2, <1>3, <1>4, <1>7, <1>8

LEMMA WriteHead ==
  ASSUME IInv, NEW s \in Live(db), NEW d, NEW q, Written(db, d, s, q), q.attempts < MaxAttempts, Stored(d),
         UNCHANGED <<window, sent, resent, open, owner>>, NEW k \in Key, NEW t \in Front(chain[k]),
         t.shard # s \/ (q.status = db.shards[s].status /\ q.owner = db.shards[s].owner)
  PROVE  HeadOK(k, t)'
<1>1. HeadOK(k, t) /\ Carries(k, t, db) /\ Ready(t, db)
  BY FrontHead DEF HeadOK
<1>2. Live(d) = Live(db) /\ \A x \in Live(d) : Same(db.shards[x], d.shards[x])
  BY WriteData
<1>3. ASSUME t.shard # 0
      PROVE  /\ t.shard \in Live(db)
             /\ d.shards[t.shard].status = db.shards[t.shard].status
             /\ d.shards[t.shard].owner = db.shards[t.shard].owner
  BY <1>1, <1>3 DEF Carries, Written, Live
<1>4. RowKept(t, d)
  BY <1>1, <1>2, <1>3 DEF RowKept, Carries
<1>5. db' = d /\ excused \subseteq excused' /\ d.consumed = db.consumed /\ HeldIds(d) = HeldIds(db)
  BY <1>2 DEF Stored, Written, HeldIds, Named, Same
<1>6. sent \subseteq sent' /\ t.snap \cap sent' \subseteq sent \cup excused'
  OBVIOUS
<1>7. t.snap \cap (d.consumed \cup HeldIds(d)) \subseteq db.consumed \cup HeldIds(db)
  BY <1>5
<1> QED
  BY <1>1, <1>4, <1>5, <1>6, <1>7, HeadKept

LEMMA WriteStep ==
  ASSUME IInv, Types', NEW s \in Live(db), NEW d, NEW q, Written(db, d, s, q), q.attempts < MaxAttempts, Stored(d),
         UNCHANGED <<window, sent, resent, used>>, q.status = "completed" <=> db.shards[s].status = "completed",
         ChainsOK', HeadsOK', \A x \in Key : Pending(chain'[x]) \subseteq Pending(chain[x]) \cup {},
         \A x \in Key : \A t \in Front(chain'[x]) : \A m \in t.snap : Traced(m),
         \A k \in Key : \A x \in Live(db) : Settling(k, x) => Settling(k, x)'
  PROVE  IInv'
<1>1. /\ Whole(d) /\ Tried(d) /\ Live(d) = Live(db) /\ \A x \in Live(d) : Same(db.shards[x], d.shards[x])
      /\ WindowOK' /\ UnsentOK' /\ DurableUntilSent' /\ SentOnce' /\ Remembered
  BY WriteData
<1>2. TracesOK'
  BY <1>1, TracesKept
<1>3. db' = d /\ ShardsOK /\ excused \subseteq excused' /\ sent' = sent
  BY DEF Stored, IInv
<1>4. ShardsOK'
  <2> SUFFICES ASSUME NEW x \in Live(d) PROVE ShardOK(x)'
    BY <1>3 DEF ShardsOK
  <2>1. x \in Live(db) /\ ShardOK(x) /\ Same(db.shards[x], d.shards[x])
    BY <1>1, <1>3 DEF ShardsOK
  <2>2. d.shards[x].status = "completed" <=> db.shards[x].status = "completed"
    BY <2>1 DEF Written, Live
  <2>3. \A k \in Key : Settling(k, x) => Settling(k, x)' \/ db.shards[x].ids \subseteq excused'
    BY <2>1
  <2> QED
    BY <1>3, <2>1, <2>2, <2>3, ShardKept
<1> QED
  BY <1>1, <1>2, <1>3, <1>4 DEF IInv

LEMMA WriteStay ==
  ASSUME IInv, Types', NEW s \in Live(db), NEW d, NEW q, Written(db, d, s, q), q.attempts < MaxAttempts, Stored(d),
         UNCHANGED <<window, sent, resent, used, open, owner, chain>>,
         q.status = db.shards[s].status, q.owner = db.shards[s].owner
  PROVE  IInv'
<1>1. ChainsOK'
  BY DEF IInv, ChainsOK
<1>2. HeadsOK'
  <2> SUFFICES ASSUME NEW x \in Key, NEW t \in Front(chain[x]) PROVE HeadOK(x, t)'
    BY DEF HeadsOK
  <2> QED
    BY WriteHead
<1>3. \A x \in Key : \A t \in Front(chain'[x]) : \A m \in t.snap : Traced(m)
  BY DEF Traced
<1>4. \A k \in Key : \A x \in Live(db) : Settling(k, x) => Settling(k, x)'
  BY DEF Settling
<1>5. \A x \in Key : Pending(chain'[x]) \subseteq Pending(chain[x]) \cup {}
  OBVIOUS
<1> QED
  BY <1>1, <1>2, <1>3, <1>4, <1>5, WriteStep

LEMMA LiveTried ==
  ASSUME IInv, NEW s \in Live(db)
  PROVE  /\ db.shards[s] \in ShardRow /\ db.shards[s].attempts < MaxAttempts /\ db \in Database /\ s \in Shard
BY LiveRow DEF IInv, Whole, Tried, Live

LEMMA StepRenew ==
  ASSUME IInv, NEW s \in Shard, Renew(s)
  PROVE  IInv'
<1>1. PICK k \in RunBy(s) : Commit(RenewLease(db, s, Head(chain[k]).owner), {})
  BY DEF Renew
<1>2. /\ s \in Live(db) /\ Types /\ ChainsOK /\ Whole(db) /\ Tried(db)
      /\ UNCHANGED <<memVars, taskVars, lifeVars, faultVars, used, sent, resent>>
  BY DEF Renew, IInv
<1>3. Head(chain[k]).owner \in Owner
  BY <1>2, FrontOf DEF RunBy, Task
<1>4. PICK d, own : d = RenewLease(db, s, own) /\ own = Head(chain[k]).owner
  OBVIOUS
<1>5. Stored(d)
  BY <1>1, <1>4, CommitStored
<1>6. /\ db.shards[s] \in ShardRow /\ db.shards[s].attempts < MaxAttempts /\ db \in Database
  BY <1>2, LiveTried
<1>7. d = db \/ Written(db, d, s, [db.shards[s] EXCEPT !.stale = FALSE])
  BY <1>2, <1>3, <1>4, <1>6, MarksOK
<1>8. Whole(d)
  BY <1>2, <1>7, WrittenOK
<1>9. Types'
  <2>1. saved' \subseteq Msg /\ excused' \subseteq Msg
    BY <1>5, <1>8, StoredTypes
  <2> QED
    BY <1>2, <2>1 DEF Types, memVars, lifeVars, faultVars, taskVars
<1>10. CASE d = db
  BY <1>2, <1>5, <1>9, <1>10, QuietSame, QuietStay DEF memVars, lifeVars, taskVars
<1>11. CASE Written(db, d, s, [db.shards[s] EXCEPT !.stale = FALSE])
  <2>1. PICK q : q = [db.shards[s] EXCEPT !.stale = FALSE]
    OBVIOUS
  <2>2. q.attempts = db.shards[s].attempts /\ q.status = db.shards[s].status /\ q.owner = db.shards[s].owner
    BY <1>6, <2>1 DEF ShardRow
  <2>3. Written(db, d, s, q)
    BY <1>11, <2>1
  <2> QED
    BY <1>2, <1>5, <1>6, <1>9, <2>2, <2>3, WriteStay DEF memVars, lifeVars, taskVars
<1> QED
  BY <1>7, <1>10, <1>11

LEMMA StepExpire ==
  ASSUME IInv, NEW s \in Shard, LeaseExpires(s)
  PROVE  IInv'
<1>1. /\ s \in Live(db) /\ Types /\ Whole(db) /\ stalls' \in {stalls, stalls + 1}
      /\ UNCHANGED <<memVars, taskVars, lifeVars, fails, dbErrors, used, sent, resent>>
  BY DEF LeaseExpires, IInv
<1>2. PICK d : d = [db EXCEPT !.shards[s].stale = TRUE] /\ Commit(d, {})
  BY DEF LeaseExpires
<1>3. Stored(d)
  BY <1>2, CommitStored
<1>4. /\ db.shards[s] \in ShardRow /\ db.shards[s].attempts < MaxAttempts /\ db \in Database /\ owner \in Owner
  BY <1>1, LiveTried DEF Types
<1>5. Written(db, d, s, [db.shards[s] EXCEPT !.stale = TRUE])
  BY <1>1, <1>2, <1>4, MarksOK
<1>6. Types'
  <2>1. saved' \subseteq Msg /\ excused' \subseteq Msg
    BY <1>1, <1>3, <1>5, StoredTypes, WrittenOK
  <2>2. stalls' \in Nat
    BY <1>1 DEF Types
  <2> QED
    BY <1>1, <2>1, <2>2 DEF Types, memVars, lifeVars, taskVars
<1>7. PICK q : q = [db.shards[s] EXCEPT !.stale = TRUE]
  OBVIOUS
<1>8. q.attempts = db.shards[s].attempts /\ q.status = db.shards[s].status /\ q.owner = db.shards[s].owner
  BY <1>4, <1>7 DEF ShardRow
<1>9. Written(db, d, s, q)
  BY <1>5, <1>7
<1> QED
  BY <1>1, <1>3, <1>4, <1>6, <1>8, <1>9, WriteStay DEF memVars, lifeVars, taskVars

LEMMA StepBeginShard ==
  ASSUME IInv, NEW k \in Key, BeginShard(k)
  PROVE  IInv'
<1> DEFINE h == Head(chain[k])
<1>1. /\ MayBegin(k) /\ h.kind = "worker" /\ Types /\ ChainsOK /\ Whole(db) /\ Tried(db)
      /\ UNCHANGED <<memVars, owner, worker, lifeVars, faultVars, used, sent, resent>>
  BY DEF BeginShard, IInv
<1>2. h \in Task /\ Front(chain[k]) = {h} /\ HeadOK(k, h) /\ Busy(k) /\ h.pc \in {"queued", "running"}
  BY <1>1, FrontOf, FrontHead DEF MayBegin, At
<1>3. \A m \in h.snap : Traced(m)
  BY <1>2 DEF Traced
<1>4. \A u \in Front(chain[k]) : u.pc # "settling"
  BY <1>2
<1>5. CASE Commit(db, {}) /\ Release(k) /\ ticking' = FALSE
  <2>1. Stored(db) /\ Quiet(db, db, window) /\ Moves(k, {}, {})
    BY <1>1, <1>2, <1>5, CommitStored, QuietSame, ReleaseMoves
  <2>2. Types'
    <3>1. saved' \subseteq Msg /\ excused' \subseteq Msg /\ ticking' \in BOOLEAN
      BY <1>1, <1>5, <2>1, StoredTypes
    <3> QED
      BY <1>1, <2>1, <3>1 DEF Types, Moves, memVars, lifeVars, faultVars
  <2> QED
    BY <1>1, <1>4, <2>1, <2>2, QuietMove DEF memVars, lifeVars
<1>6. CASE /\ open /\ MayProcess(db, h.shard, h.owner) /\ Commit(MarkProcessing(db, h.shard, h.owner), {})
           /\ SetHead(k, [h EXCEPT !.pc = "upload"]) /\ UNCHANGED ticking
  <2> HIDE DEF h
  <2>1. PICK s, own, d : s = h.shard /\ own = h.owner /\ d = MarkProcessing(db, s, own)
    OBVIOUS
  <2>2. PICK t : t = [h EXCEPT !.pc = "upload"] /\ SetHead(k, t)
    BY <1>6
  <2>3. Shape(k, h) /\ Carries(k, h, db) /\ Accounted(h, db)
    BY <1>2 DEF HeadOK
  <2>4. /\ s # 0 /\ s \in Live(db) /\ db.shards[s].key = k /\ db.shards[s].ids = h.snap
        /\ db.shards[s].status # "completed"
    BY <1>1, <2>1, <2>3 DEF Shape, Carries
  <2>5. own \in Owner
    BY <1>2, <2>1 DEF Task
  <2>6. db.shards[s] \in ShardRow /\ db.shards[s].attempts < MaxAttempts /\ db \in Database
    BY <2>4, LiveTried
  <2>7. PICK q : q = [db.shards[s] EXCEPT !.status = "processing", !.owner = own, !.stale = FALSE]
    OBVIOUS
  <2>8. Written(db, d, s, q)
    BY <1>6, <2>1, <2>4, <2>5, <2>6, <2>7, MarksOK
  <2>9. q.attempts = db.shards[s].attempts /\ q.status = "processing" /\ q.owner = own
    BY <2>6, <2>7 DEF ShardRow
  <2>10. Stored(d)
    BY <1>6, <2>1, CommitStored
  <2>11. /\ t \in Task /\ t.pc = "upload" /\ t.snap = h.snap /\ t.kind = h.kind /\ t.msg = h.msg
         /\ t.shard = s /\ t.owner = own
    BY <1>2, <2>1, <2>2 DEF Task
  <2>12. ~Unbegun(t)
    BY <2>11 DEF Unbegun
  <2>13. Moves(k, {t}, {})
    BY <1>1, <1>2, <2>2, <2>11, <2>12, SetHeadMoves DEF h
  <2>14. HeadOK(k, t)'
    <3>1. d.shards[s] = q /\ s \in Live(d) /\ Same(db.shards[s], q) /\ db' = d /\ excused \subseteq excused'
      BY <1>1, <2>4, <2>8, <2>10, WrittenOK DEF Written, Live, Stored
    <3>2. Shape(k, t)
      BY <2>3, <2>4, <2>11 DEF Shape
    <3>3. Carries(k, t, d)
      BY <2>4, <2>9, <2>11, <3>1 DEF Carries, Same
    <3>4. Accounted(t, d)'
      <4>1. h.snap \cap sent \subseteq excused
        BY <1>2, <2>3 DEF Accounted
      <4> QED
        BY <1>1, <2>4, <2>9, <2>11, <3>1, <4>1 DEF Accounted
    <3>5. Ready(t, d)
      BY <2>11 DEF Ready
    <3> QED
      BY <3>1, <3>2, <3>3, <3>4, <3>5 DEF HeadOK
  <2>15. \A x \in Key \ {k} : \A u \in Front(chain[x]) : HeadOK(x, u)'
    <3> SUFFICES ASSUME NEW x \in Key \ {k}, NEW u \in Front(chain[x]) PROVE HeadOK(x, u)'
      OBVIOUS
    <3>1. u.shard # s
      BY <2>4, FrontHead DEF HeadOK, Carries
    <3> QED
      BY <1>1, <2>4, <2>6, <2>8, <2>9, <2>10, <3>1, WriteHead DEF memVars, lifeVars
  <2>16. HeadsOK'
    BY <2>13, <2>14, <2>15, HeadsMove
  <2>17. /\ ChainsOK' /\ \A x \in Key : Pending(chain'[x]) \subseteq Pending(chain[x]) \cup {}
         /\ \A x \in Key : \A u \in Front(chain'[x]) : \A y \in u.snap : Traced(y)
    <3>1. \A u \in {t} : \A y \in u.snap : Traced(y)
      BY <1>3, <2>11
    <3> QED
      BY <2>13, <3>1, MovesTrace
  <2>18. \A x \in Key : \A y \in Live(db) : Settling(x, y) => Settling(x, y)'
    BY <1>4, <2>13, SettlingKept
  <2>19. Types'
    <3>1. saved' \subseteq Msg /\ excused' \subseteq Msg
      BY <1>1, <2>4, <2>8, <2>10, StoredTypes, WrittenOK
    <3> QED
      BY <1>1, <1>6, <2>13, <3>1 DEF Types, Moves, memVars, lifeVars, faultVars
  <2> QED
    BY <1>1, <2>4, <2>6, <2>8, <2>9, <2>10, <2>16, <2>17, <2>18, <2>19, WriteStep DEF memVars
<1> QED
  BY <1>5, <1>6 DEF BeginShard

(* A quiet step to c, then a write to d that leaves the shard of t alone.  *)
LEMMA OtherHead ==
  ASSUME IInv, NEW k \in Key, NEW t \in Front(chain[k]), NEW c, Quiet(db, c, window), NEW d, Stored(d),
         t.shard \in Live(c) => t.shard \in Live(d) /\ d.shards[t.shard] = c.shards[t.shard],
         sent' = sent, t.snap \cap (d.consumed \cup HeldIds(d)) \subseteq db.consumed \cup HeldIds(db)
  PROVE  HeadOK(k, t)'
<1>1. HeadOK(k, t) /\ Carries(k, t, db) /\ db' = d /\ excused \subseteq excused'
      /\ (Sending(t) /\ Returned(t.shard, d) => t.snap \subseteq excused')
  BY FrontHead DEF Stored, HeadOK
<1>2. t.shard # 0 => t.shard \in Live(c)
  BY <1>1 DEF Carries, Quiet
<1>3. Sending(t) /\ Returned(t.shard, c) => t.snap \subseteq excused'
  BY <1>1 DEF Returned
<1>4. RowKept(t, c)
  BY <1>3, QuietRow
<1>5. RowKept(t, d)
  BY <1>2, <1>4 DEF RowKept
<1>6. sent \subseteq sent' /\ t.snap \cap sent' \subseteq sent \cup excused'
  OBVIOUS
<1> QED
  BY <1>1, <1>5, <1>6, HeadKept

LEMMA OtherShard ==
  ASSUME IInv, NEW c, Quiet(db, c, window), NEW d, Stored(d), sent' = sent,
         NEW s \in Live(c), s \in Live(d), d.shards[s] = c.shards[s],
         \A k \in Key : Settling(k, s) => Settling(k, s)' \/ db.shards[s].ids \subseteq excused'
  PROVE  ShardOK(s)'
<1>1. /\ s \in Live(db) /\ ShardOK(s) /\ Same(db.shards[s], c.shards[s])
      /\ c.shards[s].status = "completed" <=> db.shards[s].status = "completed"
  BY QuietRows
<1>2. db' = d /\ excused \subseteq excused'
  BY DEF Stored
<1>3. Same(db.shards[s], d.shards[s]) /\ (d.shards[s].status = "completed" <=> db.shards[s].status = "completed")
  BY <1>1
<1> QED
  BY <1>1, <1>2, <1>3, ShardKept

LEMMA StepClaims ==
  ASSUME IInv, NEW due, WorkerClaims(due)
  PROVE  IInv'
<1>1. PICK c : c = TickDb
  OBVIOUS
<1>2. /\ Types /\ ChainsOK /\ Whole(db) /\ Tried(db) /\ WindowOK /\ UnsentOK /\ SentOnce
      /\ window \subseteq Msg /\ sent \subseteq Msg /\ owner \in Owner
  BY DEF IInv, Types
<1>3. Quiet(db, c, window) /\ Whole(c) /\ Tried(c)
  <2>1. Quiet(db, TickDb, window)
    BY <1>2, LoadQuiet DEF TickDb
  <2>2. Quiet(db, c, window)
    BY <1>1, <2>1
  <2> QED
    BY <2>2 DEF Quiet
<1>4. PICK s : s = Smallest(Claimable(c, due)) /\ s \in Claimable(c, due)
  <2>1. Claimable(c, due) # {} /\ Claimable(c, due) \subseteq Shard
    BY <1>1 DEF WorkerClaims, Claimable, Live
  <2> QED
    BY <2>1, SmallestIn
<1>5. PICK k : k = c.shards[s].key
  OBVIOUS
<1>6. /\ s \in Live(c) /\ s \in Shard /\ k \notin ActiveKeys /\ c.shards[s].status \in {"queued", "failed"}
      /\ c.shards[s] \in ShardRow /\ k \in Key /\ c.shards[s].attempts < MaxAttempts /\ s # 0
      /\ c.shards[s].ids \subseteq Of(k) /\ c \in Database
  <2>1. s \in Live(c) /\ k \notin ActiveKeys /\ c.shards[s].status \in {"queued", "failed"}
    BY <1>4, <1>5 DEF Claimable
  <2>2. c.shards[s] \in ShardRow /\ c \in Database
    BY <1>3, <2>1, LiveRow DEF Whole
  <2>3. s \in Shard /\ s # 0
    BY <2>1, HistoryAssumption DEF Live
  <2> QED
    BY <1>3, <1>5, <2>1, <2>2, <2>3 DEF Whole, Tried, ShardRow
<1>7. ~Busy(k) /\ Front(chain[k]) = {}
  BY <1>6 DEF ActiveKeys, Busy, Front
<1>8. PICK d, q, t : /\ d = [c EXCEPT !.shards[s].status = "claimed", !.shards[s].owner = owner, !.shards[s].stale = FALSE]
                     /\ q = [c.shards[s] EXCEPT !.status = "claimed", !.owner = owner, !.stale = FALSE]
                     /\ t = [NewTask("worker", k, c.shards[s].reply, TRUE, 0) EXCEPT !.shard = s, !.snap = c.shards[s].ids]
  OBVIOUS
<1>9. /\ Commit(d, {}) /\ Enqueue(k, t) /\ ticking' = TRUE
      /\ UNCHANGED <<memVars, owner, worker, lifeVars, faultVars, used, sent, resent>>
  BY <1>1, <1>4, <1>5, <1>8 DEF WorkerClaims
<1>10. Written(c, d, s, q) /\ Whole(d) /\ Live(d) = Live(c)
  <2>1. Written(c, [c EXCEPT !.shards[s].status = "claimed", !.shards[s].owner = owner, !.shards[s].stale = FALSE],
                s, [c.shards[s] EXCEPT !.status = "claimed", !.owner = owner, !.stale = FALSE])
    BY <1>2, <1>6, MarksOK
  <2>2. Written(c, d, s, q)
    BY <1>8, <2>1
  <2> QED
    BY <1>3, <1>6, <2>2, WrittenOK
<1>11. q.status = "claimed" /\ q.attempts = c.shards[s].attempts
  BY <1>6, <1>8 DEF ShardRow
<1>12. Stored(d) /\ db' = d /\ excused \subseteq excused'
  BY <1>9, CommitStored DEF Stored
<1>13. /\ t \in Task /\ t.kind = "worker" /\ t.pc = "running" /\ t.shard = s /\ t.snap = c.shards[s].ids
  <2>1. PICK ids, m : /\ ids = c.shards[s].ids /\ ids \subseteq Msg
                      /\ m = c.shards[s].reply /\ m \in Msg \cup {0}
    BY <1>6 DEF ShardRow
  <2>2. t = [NewTask("worker", k, m, TRUE, 0) EXCEPT !.shard = s, !.snap = ids]
    BY <1>8, <2>1
  <2> QED
    BY <1>2, <1>6, <1>7, <2>1, <2>2 DEF NewTask, Task, Types
<1>14. Moves(k, {t}, {}) /\ Front(chain'[k]) = {t}
  <2>1. {} = (IF t.kind = "turn" THEN {t.msg} ELSE {}) /\ used' = used \cup {} /\ {} \subseteq Of(k) \ used
    BY <1>9, <1>13
  <2> QED
    BY <1>6, <1>7, <1>9, <1>13, <2>1, EnqueueMoves
<1>15. /\ d.active = c.active /\ d.consumed = c.consumed /\ Tried(d)
       /\ d.shards[s] = q /\ Same(c.shards[s], q) /\ \A x \in Live(c) \ {s} : d.shards[x] = c.shards[x]
  <2>1. d.active = c.active /\ d.consumed = c.consumed /\ d.shards[s] = q /\ Same(c.shards[s], q)
        /\ \A x \in Live(c) \ {s} : d.shards[x] = c.shards[x]
    BY <1>6, <1>10 DEF Written, Live
  <2> QED
    BY <1>3, <1>6, <1>10, <1>11, <2>1 DEF Tried
<1>16. HeldIds(d) = HeldIds(c) /\ HeldRows(d) = HeldRows(c)
  BY <1>10, <1>15 DEF HeldIds, Named, HeldRows, Rows, Same
<1>17. s \in Live(db) /\ ShardOK(s) /\ Same(db.shards[s], c.shards[s]) /\ db.shards[s].status # "completed"
  BY <1>3, <1>6, QuietRows
<1>18. \A x \in Key : \A u \in Front(chain[x]) : x # k /\ u.shard # s
  <2> SUFFICES ASSUME NEW x \in Key, NEW u \in Front(chain[x]) PROVE x # k /\ u.shard # s
    OBVIOUS
  <2>1. x # k /\ Carries(x, u, db)
    BY <1>7, FrontHead DEF HeadOK
  <2> QED
    BY <1>5, <1>6, <1>17, <2>1 DEF Carries, Same
<1>19. db.shards[s].ids \cap sent \subseteq excused
  BY <1>17, <1>18 DEF ShardOK, Settling
<1>20. /\ d.active \subseteq db.active \cup window /\ HeldIds(d) \subseteq HeldIds(db)
       /\ Covers(d.active \cup HeldRows(d) \cup sent, db.active \cup HeldRows(db))
       /\ d.consumed \subseteq db.consumed \cup HeldIds(db)
       /\ (window \cup d.active) \cap (d.consumed \cup HeldIds(d)) = {}
  BY <1>3, <1>15, <1>16, QuietFacts
<1>21. WindowOK' /\ UnsentOK' /\ DurableUntilSent' /\ SentOnce' /\ Remembered
  <2>1. window' = window /\ sent' = sent /\ resent' = resent
    BY <1>9 DEF memVars
  <2>2. WindowOK'
    BY <1>12, <1>20, <2>1 DEF WindowOK
  <2>3. UnsentOK'
    BY <1>2, <1>12, <1>20, <2>1 DEF UnsentOK
  <2>4. DurableUntilSent'
    BY <1>2, <1>10, <1>12, <1>20, <2>1, DurableStep
  <2>5. SentOnce'
    BY <1>2, <1>12, <2>1 DEF SentOnce
  <2>6. Remembered
    BY <1>12, <1>20, <2>1 DEF Remembered, Traced
  <2> QED
    BY <2>2, <2>3, <2>4, <2>5, <2>6
<1>22. HeadOK(k, t)'
  <2>1. Shape(k, t) /\ Ready(t, d)
    BY <1>6, <1>13 DEF Shape, Ready
  <2>2. Carries(k, t, d)
    BY <1>5, <1>6, <1>10, <1>11, <1>13, <1>15 DEF Carries, Same
  <2>3. Accounted(t, d)'
    <3>1. t.snap \cap sent \subseteq excused
      BY <1>6, <1>13, <1>17, <1>19 DEF Same
    <3> QED
      BY <1>9, <1>12, <1>13, <3>1 DEF Accounted, Sending
  <2> QED
    BY <1>12, <2>1, <2>2, <2>3 DEF HeadOK
<1>23. HeadsOK'
  <2>1. \A x \in Key \ {k} : \A u \in Front(chain[x]) : HeadOK(x, u)'
    <3> SUFFICES ASSUME NEW x \in Key \ {k}, NEW u \in Front(chain[x]) PROVE HeadOK(x, u)'
      OBVIOUS
    <3>1. u.shard \in Live(c) => u.shard \in Live(d) /\ d.shards[u.shard] = c.shards[u.shard]
      BY <1>10, <1>15, <1>18
    <3>2. sent' = sent /\ u.snap \cap (d.consumed \cup HeldIds(d)) \subseteq db.consumed \cup HeldIds(db)
      BY <1>9, <1>20
    <3> QED
      BY <1>3, <1>12, <3>1, <3>2, OtherHead
  <2> QED
    BY <1>6, <1>14, <1>22, <2>1, HeadsMove
<1>24. /\ ChainsOK' /\ \A x \in Key : Pending(chain'[x]) \subseteq Pending(chain[x]) \cup {}
       /\ \A x \in Key : \A u \in Front(chain'[x]) : \A y \in u.snap : Traced(y)
  <2>1. \A u \in {t} : \A y \in u.snap : Traced(y)
    BY <1>6, <1>13, <1>17 DEF Traced, HeldIds, Named, Same
  <2> QED
    BY <1>6, <1>14, <2>1, MovesTrace
<1>25. ShardsOK'
  <2> SUFFICES ASSUME NEW x \in Live(d) PROVE ShardOK(x)'
    BY <1>12 DEF ShardsOK
  <2>1. CASE x = s
    BY <1>9, <1>11, <1>12, <1>15, <1>17, <1>19, <2>1 DEF ShardOK, Same
  <2>2. CASE x # s
    <3>1. \A y \in Key : Settling(y, x) => Settling(y, x)'
      BY <1>6, <1>7, <1>14, SettlingKept
    <3> QED
      BY <1>3, <1>9, <1>10, <1>12, <1>15, <2>2, <3>1, OtherShard
  <2> QED
    BY <2>1, <2>2
<1>26. TracesOK'
  BY <1>9, <1>21, <1>24, TracesKept
<1>27. Types'
  <2>1. saved' \subseteq Msg /\ excused' \subseteq Msg
    BY <1>10, <1>12, StoredTypes
  <2> QED
    BY <1>2, <1>9, <1>14, <2>1 DEF Types, Moves, memVars, lifeVars, faultVars
<1> QED
  BY <1>2, <1>10, <1>12, <1>15, <1>21, <1>23, <1>24, <1>25, <1>26, <1>27 DEF IInv

LEMMA StepSendWith ==
  ASSUME IInv, NEW k \in Key, SendWithShard(k)
  PROVE  IInv'
<1>1. PICK h : h = Head(chain[k])
  OBVIOUS
<1>2. /\ Types /\ ChainsOK /\ Whole(db) /\ Tried(db) /\ WindowOK /\ UnsentOK /\ SentOnce
      /\ window \subseteq Msg /\ sent \subseteq Msg /\ window \cap (db.consumed \cup HeldIds(db)) = {}
  BY DEF IInv, Types, WindowOK
<1>3. /\ h \in Task /\ Front(chain[k]) = {h} /\ HeadOK(k, h) /\ Busy(k) /\ h.pc = "context"
      /\ \A u \in Front(chain[k]) : u.pc # "settling"
  <2>1. Busy(k) /\ h.pc = "context"
    BY <1>1 DEF SendWithShard, At
  <2> QED
    BY <1>1, <1>2, <2>1, FrontOf, FrontHead
<1>4. PICK c : c = SaveMerged(db, {k}, owner)
  OBVIOUS
<1>5. Quiet(db, c, window) /\ Whole(c) /\ Tried(c)
  <2>1. Quiet(db, SaveMerged(db, {k}, owner), window)
    BY <1>2, SaveQuiet
  <2>2. Quiet(db, c, window)
    BY <1>4, <2>1
  <2> QED
    BY <2>2 DEF Quiet
<1>6. PICK snap, own, reply : snap = h.snap /\ own = h.owner /\ reply = Reply(h)
  OBVIOUS
<1>shard. PICK s \in Shard :
            /\ s = ShardFor(c, k, snap)
            /\ Commit(MarkProcessing(CreateShard(c, k, snap, s, reply), s, own), {})
            /\ \/ MayProcess(CreateShard(c, k, snap, s, reply), s, own) /\ SetHead(k, [h EXCEPT !.pc = "upload", !.shard = s])
               \/ ~MayProcess(CreateShard(c, k, snap, s, reply), s, own) /\ Release(k)
  BY <1>1, <1>4, <1>6 DEF SendWithShard
<1>7. PICK e, d :
        /\ s = ShardFor(c, k, snap) /\ e = CreateShard(c, k, snap, s, reply) /\ d = MarkProcessing(e, s, own)
        /\ Commit(d, {})
        /\ \/ MayProcess(e, s, own) /\ SetHead(k, [h EXCEPT !.pc = "upload", !.shard = s])
           \/ ~MayProcess(e, s, own) /\ Release(k)
  BY <1>shard
<1>8. /\ window' = window \ snap
      /\ UNCHANGED <<version, flushes, owner, worker, ticking, lifeVars, faultVars, used, sent, resent>>
  BY <1>1, <1>6 DEF SendWithShard, Forget
<1>9. /\ snap \cap (db.consumed \cup HeldIds(db)) = {} /\ snap \subseteq Of(k) /\ snap \cap sent \subseteq excused /\ h.kind # "worker"
      /\ snap \subseteq Msg /\ own \in Owner /\ \A m \in snap : Traced(m)
      /\ reply \in Msg \cup {0}
  <2>1. Ready(h, db) /\ Shape(k, h) /\ Accounted(h, db)
    BY <1>3 DEF HeadOK
  <2>2. \A m \in snap : Traced(m)
    BY <1>3, <1>6 DEF Traced
  <2>3. snap \cap (db.consumed \cup HeldIds(db)) = {}
    BY <1>3, <1>6, <2>1 DEF Ready
  <2>4. own \in Owner
    BY <1>3, <1>6 DEF Task
  <2>5. reply \in Msg \cup {0}
    BY <1>3, <1>6 DEF Task, Reply
  <2> QED
    BY <1>3, <1>6, <2>1, <2>2, <2>3, <2>4, <2>5 DEF Shape, Accounted, Of
<1>10. Created(c, e, k, snap, s)
  <2>1. snap \subseteq Of(k) /\ snap \cap (c.consumed \cup HeldIds(c)) = {}
    BY <1>5, <1>9, QuietFacts
  <2>2. Created(c, CreateShard(c, k, snap, s, reply), k, snap, s)
    BY <1>5, <1>9, <2>1, <1>shard, CreateOK
  <2> QED
    BY <1>7, <2>2
<1>11. /\ Whole(e) /\ Tried(e) /\ Live(e) = Live(c) \cup {s} /\ e \in Database /\ s \in Live(e)
       /\ e.shards[s] \in ShardRow
  BY <1>10, LiveRow DEF Created, Whole
<1>12. \/ /\ MayProcess(e, s, own)
          /\ Written(e, d, s, [e.shards[s] EXCEPT !.status = "processing", !.owner = own, !.stale = FALSE])
       \/ d = e /\ ~MayProcess(e, s, own)
  <2>1. CASE MayProcess(e, s, own)
    <3>1. Written(e, MarkProcessing(e, s, own), s, [e.shards[s] EXCEPT !.status = "processing", !.owner = own, !.stale = FALSE])
      BY <1>9, <1>11, <2>1, MarksOK
    <3> QED
      BY <1>7, <2>1, <3>1
  <2>2. CASE ~MayProcess(e, s, own)
    BY <1>7, <2>2 DEF MarkProcessing
  <2> QED
    BY <2>1, <2>2
<1>13. /\ Whole(d) /\ Tried(d) /\ Live(d) = Live(e) /\ d.active = e.active /\ d.consumed = e.consumed
       /\ Same(e.shards[s], d.shards[s]) /\ \A x \in Live(e) \ {s} : d.shards[x] = e.shards[x]
       /\ MayProcess(e, s, own) => d.shards[s].status = "processing" /\ d.shards[s].owner = own
  <2>1. CASE d = e /\ ~MayProcess(e, s, own)
    BY <1>11, <2>1 DEF Same
  <2>2. ASSUME Written(e, d, s, [e.shards[s] EXCEPT !.status = "processing", !.owner = own, !.stale = FALSE])
        PROVE  <1>13!:
    <3>1. PICK q : /\ q = [e.shards[s] EXCEPT !.status = "processing", !.owner = own, !.stale = FALSE]
                   /\ Written(e, d, s, q)
      BY <2>2
    <3>2. q.status = "processing" /\ q.owner = own /\ q.attempts = e.shards[s].attempts
      BY <1>11, <3>1 DEF ShardRow
    <3>3. Whole(d) /\ Live(d) = Live(e)
      BY <1>11, <3>1, WrittenOK
    <3>4. d.shards[s] = q /\ Same(e.shards[s], q) /\ \A x \in Live(e) \ {s} : d.shards[x] = e.shards[x]
      BY <3>1 DEF Written, Live
    <3>5. d.active = e.active /\ d.consumed = e.consumed
      BY <3>1 DEF Written
    <3>6. Tried(d)
      BY <1>11, <3>2, <3>3, <3>4 DEF Tried
    <3> QED
      BY <3>2, <3>3, <3>4, <3>5, <3>6
  <2> QED
    BY <1>12, <2>1, <2>2
<1>14. ~MayProcess(e, s, own) => snap = {}
  <2>1. CASE s \in Live(c)
    BY <1>10, <2>1 DEF Created
  <2>2. CASE s \notin Live(c)
    BY <1>10, <1>11, <2>2 DEF Created, MayProcess
  <2> QED
    BY <2>1, <2>2
<1>15. /\ d.active = c.active \ snap /\ d.consumed = c.consumed /\ Live(d) = Live(c) \cup {s}
       /\ d.shards[s].key = k /\ d.shards[s].ids = snap /\ d.shards[s].rows = c.active \cap snap
       /\ \A x \in Live(c) \ {s} : d.shards[x] = c.shards[x]
       /\ s \in Live(c) => c.shards[s].key = k /\ c.shards[s].ids = snap /\ snap = {}
  BY <1>10, <1>13 DEF Created, Same
<1>16. HeldIds(d) = HeldIds(c) \cup snap /\ HeldRows(c) \subseteq HeldRows(d) /\ c.active \cap snap \subseteq HeldRows(d)
  <2>1. HeldIds(d) = HeldIds(c) \cup snap
    BY <1>15 DEF HeldIds, Named
  <2>2. s \in Live(c) => c.shards[s].rows = {}
    BY <1>5, <1>15 DEF Whole
  <2> QED
    BY <1>15, <2>1, <2>2 DEF HeldRows, Rows
<1>17. Stored(d) /\ db' = d /\ excused \subseteq excused'
  <2>1. {} \subseteq Msg
    OBVIOUS
  <2> QED
    BY <1>7, <2>1, CommitStored DEF Stored
<1>18. /\ c.active \subseteq db.active \cup window /\ HeldIds(c) \subseteq HeldIds(db)
       /\ Covers(c.active \cup HeldRows(c) \cup sent, db.active \cup HeldRows(db))
       /\ c.consumed \subseteq db.consumed \cup HeldIds(db)
       /\ (window \cup c.active) \cap (c.consumed \cup HeldIds(c)) = {}
  BY <1>5, QuietFacts
<1>19. WindowOK' /\ UnsentOK' /\ DurableUntilSent' /\ SentOnce' /\ Remembered
  <2>1. WindowOK'
    BY <1>8, <1>15, <1>16, <1>17, <1>18 DEF WindowOK
  <2>2. UnsentOK'
    BY <1>2, <1>8, <1>15, <1>17, <1>18 DEF UnsentOK
  <2>3. DurableUntilSent'
    <3>1. c.active \cup HeldRows(c) \cup sent \subseteq d.active \cup HeldRows(d) \cup sent
      BY <1>15, <1>16
    <3>2. d.active \cup HeldRows(d) \cup sent \subseteq Msg /\ db.active \cup HeldRows(db) \subseteq Msg
      BY <1>2, <1>13, RowsHold DEF Whole, Database
    <3>3. Covers(d.active \cup HeldRows(d) \cup sent, db.active \cup HeldRows(db))
      BY <1>18, <3>1, <3>2, CoversMore
    <3> QED
      BY <1>2, <1>8, <1>13, <1>17, <3>3, DurableStep
  <2>4. SentOnce'
    BY <1>2, <1>8, <1>17 DEF SentOnce
  <2>5. \A m \in Msg : m \in window \cup db.active \cup db.consumed \cup HeldIds(db) \cup sent => Traced(m)
    BY DEF Traced
  <2>6. Remembered
    BY <1>8, <1>9, <1>15, <1>16, <1>17, <1>18, <2>5 DEF Remembered
  <2> QED
    BY <2>1, <2>2, <2>3, <2>4, <2>6
<1>20. \A x \in Key \ {k} : \A u \in Front(chain[x]) : HeadOK(x, u)'
  <2> SUFFICES ASSUME NEW x \in Key \ {k}, NEW u \in Front(chain[x]) PROVE HeadOK(x, u)'
    OBVIOUS
  <2>1. Carries(x, u, db) /\ u.snap \subseteq Of(x)
    BY FrontHead DEF HeadOK, Shape
  <2>2. ASSUME u.shard \in Live(c)
        PROVE  u.shard \in Live(d) /\ d.shards[u.shard] = c.shards[u.shard]
    <3>1. u.shard # 0 /\ Same(db.shards[u.shard], c.shards[u.shard])
      BY <1>5, <2>2, HistoryAssumption DEF Live, Quiet
    <3>2. c.shards[u.shard].key = x
      BY <2>1, <3>1 DEF Carries, Same
    <3> QED
      BY <1>15, <2>2, <3>2
  <2>3. u.snap \cap snap = {}
    BY <1>9, <2>1 DEF Of
  <2>4. sent' = sent /\ u.snap \cap (d.consumed \cup HeldIds(d)) \subseteq db.consumed \cup HeldIds(db)
    BY <1>8, <1>15, <1>16, <1>18, <2>3
  <2> QED
    BY <1>5, <1>17, <2>2, <2>4, OtherHead
<1>21. ASSUME NEW H, Moves(k, H, {}), \A t \in H : HeadOK(k, t)' /\ \A m \in t.snap : Traced(m)
       PROVE  IInv'
  <2>1. HeadsOK'
    BY <1>20, <1>21, HeadsMove
  <2>2. /\ ChainsOK' /\ \A x \in Key : Pending(chain'[x]) \subseteq Pending(chain[x]) \cup {}
        /\ \A x \in Key : \A u \in Front(chain'[x]) : \A y \in u.snap : Traced(y)
    BY <1>21, MovesTrace
  <2>3. TracesOK'
    BY <1>8, <1>19, <2>2, TracesKept
  <2>4. ShardsOK'
    <3> SUFFICES ASSUME NEW x \in Live(d) PROVE ShardOK(x)'
      BY <1>17 DEF ShardsOK
    <3>1. CASE x = s
      <4>1. d.shards[s].status = "processing" \/ snap = {}
        BY <1>13, <1>14
      <4>2. d.shards[s].ids \cap sent \subseteq excused'
        BY <1>9, <1>15, <1>17
      <4>3. d.shards[s].status = "completed" => Core(d.shards[s].ids) \subseteq sent'
        BY <1>15, <4>1 DEF Core, Latest
      <4> QED
        BY <1>8, <1>17, <3>1, <4>2, <4>3 DEF ShardOK
    <3>2. CASE x # s
      <4>1. \A y \in Key : Settling(y, x) => Settling(y, x)'
        BY <1>3, <1>21, SettlingKept
      <4>2. x \in Live(c) /\ d.shards[x] = c.shards[x] /\ sent' = sent
        BY <1>8, <1>15, <3>2
      <4> QED
        BY <1>5, <1>17, <4>1, <4>2, OtherShard
    <3> QED
      BY <3>1, <3>2
  <2>5. Types'
    <3>1. saved' \subseteq Msg /\ excused' \subseteq Msg
      BY <1>13, <1>17, StoredTypes
    <3> QED
      BY <1>2, <1>8, <1>21, <3>1 DEF Types, Moves, lifeVars, faultVars
  <2> QED
    BY <1>13, <1>17, <1>19, <2>1, <2>2, <2>3, <2>4, <2>5 DEF IInv
<1>22. CASE Release(k)
  <2>1. Moves(k, {}, {})
    BY <1>3, <1>8, <1>22, ReleaseMoves
  <2> QED
    BY <1>21, <2>1
<1>23. CASE MayProcess(e, s, own) /\ SetHead(k, [h EXCEPT !.pc = "upload", !.shard = s])
  <2>1. PICK t : t = [h EXCEPT !.pc = "upload", !.shard = s] /\ SetHead(k, t)
    BY <1>23
  <2>2. /\ t \in Task /\ t.pc = "upload" /\ t.snap = snap /\ t.kind = h.kind /\ t.msg = h.msg
        /\ t.shard = s /\ t.owner = own
    BY <1>3, <1>6, <2>1 DEF Task
  <2>3. ~Unbegun(t)
    BY <2>2 DEF Unbegun
  <2>4. Moves(k, {t}, {})
    BY <1>1, <1>3, <1>8, <2>1, <2>2, <2>3, SetHeadMoves
  <2>5. HeadOK(k, t)'
    <3>1. Shape(k, t) /\ Ready(t, d)
      BY <1>9, <2>2 DEF Shape, Ready
    <3>2. Carries(k, t, d)
      BY <1>13, <1>15, <1>23, <2>2 DEF Carries
    <3>3. s # 0
      BY HistoryAssumption
    <3>4. Accounted(t, d)'
      BY <1>8, <1>9, <1>13, <1>17, <1>23, <2>2, <3>3 DEF Accounted, Sending
    <3> QED
      BY <1>17, <3>1, <3>2, <3>4 DEF HeadOK
  <2>6. \A m \in t.snap : Traced(m)
    BY <1>9, <2>2
  <2> QED
    BY <1>21, <2>4, <2>5, <2>6
<1> QED
  BY <1>7, <1>22, <1>23

LEMMA StepSettle ==
  ASSUME IInv, NEW k \in Key, NEW broken \in BOOLEAN, Settle(k, broken)
  PROVE  IInv'
<1>1. PICK h : h = Head(chain[k])
  OBVIOUS
<1>2. /\ Types /\ ChainsOK /\ Whole(db) /\ Tried(db) /\ WindowOK /\ UnsentOK /\ SentOnce
      /\ ShardsOK /\ db \in Database /\ sent \subseteq Msg
  BY DEF IInv, Whole, Types
<1>3. /\ h \in Task /\ Front(chain[k]) = {h} /\ HeadOK(k, h) /\ Busy(k) /\ h.pc = "settling"
  <2>1. Busy(k) /\ h.pc = "settling"
    BY <1>1 DEF Settle, At
  <2> QED
    BY <1>1, <1>2, <2>1, FrontOf, FrontHead
<1>4. PICK s, snap, own : s = h.shard /\ snap = h.snap /\ own = h.owner
  OBVIOUS
<1>5. PICK d : /\ d = (IF s = 0 \/ ~open THEN db
                       ELSE IF broken THEN MarkCompleted(db, s, own)
                       ELSE CompleteShard(MarkCompleted(db, s, own), s, own))
               /\ Commit(d, IF open THEN {} ELSE snap)
  BY <1>1, <1>4 DEF Settle
<1>6. /\ window' = window \ snap /\ Release(k) /\ dbErrors' \in {dbErrors, dbErrors + 1}
      /\ UNCHANGED <<version, flushes, owner, worker, ticking, lifeVars, fails, stalls, used, sent, resent>>
  BY <1>1, <1>4 DEF Settle, Forget
<1>7. /\ Core(snap) \subseteq sent /\ snap \subseteq Of(k) /\ snap \subseteq Msg /\ own \in Owner
      /\ s # 0 => /\ s \in Live(db) /\ db.shards[s].key = k /\ db.shards[s].ids = snap
                  /\ db.shards[s].rows \subseteq snap /\ db.shards[s].status # "completed"
      /\ snap \subseteq excused \/ (s # 0 /\ db.shards[s].status = "processing" /\ OwnedBy(db, s, own))
      /\ \A m \in snap : Traced(m)
  <2>1. Carries(k, h, db) /\ Shape(k, h) /\ Accounted(h, db)
    BY <1>3 DEF HeadOK
  <2>2. \A m \in snap : Traced(m)
    BY <1>3, <1>4 DEF Traced
  <2>3. /\ s # 0 => /\ s \in Live(db) /\ db.shards[s].key = k /\ db.shards[s].ids = snap
                    /\ db.shards[s].status # "completed"
    BY <1>4, <2>1 DEF Carries
  <2>4. s # 0 => db.shards[s].rows \subseteq snap
    BY <1>2, <2>3 DEF Whole
  <2>5. snap \subseteq excused \/ (s # 0 /\ db.shards[s].status = "processing" /\ db.shards[s].owner = own)
    BY <1>3, <1>4, <2>1 DEF Accounted, Sending
  <2>6. Core(snap) \subseteq sent /\ snap \subseteq Of(k)
    BY <1>3, <1>4, <2>1 DEF Accounted, Shape
  <2>7. snap \subseteq Msg /\ own \in Owner
    BY <1>3, <1>4 DEF Task
  <2> QED
    BY <2>2, <2>3, <2>4, <2>5, <2>6, <2>7 DEF OwnedBy
<1>8. Stored(d) /\ db' = d /\ excused \subseteq excused'
      /\ (~open => snap \subseteq excused')
  <2>1. PICK causes : causes = (IF open THEN {} ELSE snap)
    OBVIOUS
  <2>2. causes \subseteq Msg /\ (~open => causes = snap)
    BY <1>7, <2>1
  <2>3. Stored(d) /\ causes \subseteq excused'
    BY <1>5, <2>1, <2>2, CommitStored
  <2> QED
    BY <2>2, <2>3 DEF Stored
<1>9. /\ Whole(d) /\ Tried(d) /\ d.active = db.active /\ d.consumed \subseteq db.consumed \cup snap
      /\ Live(d) \subseteq Live(db) /\ Live(db) \subseteq Live(d) \cup {s}
      /\ \A x \in Live(d) \ {s} : d.shards[x] = db.shards[x]
      /\ s \in Live(d) => \/ d.shards[s] = db.shards[s] /\ snap \subseteq excused'
                          \/ Same(db.shards[s], d.shards[s]) /\ d.shards[s].status = "completed"
  <2>1. CASE d = db /\ snap \subseteq excused'
    BY <1>2, <2>1
  <2>2. CASE s # 0 /\ open /\ ~(OwnedBy(db, s, own) /\ db.shards[s].status = "processing")
    <3>1. MarkCompleted(db, s, own) = db
      BY <2>2 DEF MarkCompleted
    <3>2. CompleteShard(db, s, own) = db
      BY <1>7, <2>2, <3>1 DEF CompleteShard
    <3>3. d = db
      BY <1>5, <2>2, <3>1, <3>2
    <3> QED
      BY <1>7, <1>8, <2>1, <2>2, <3>3
  <2>3. CASE s # 0 /\ open /\ OwnedBy(db, s, own) /\ db.shards[s].status = "processing"
    <3>1. /\ s \in Live(db) /\ db.shards[s] \in ShardRow /\ db.shards[s].attempts < MaxAttempts
      BY <1>7, <2>3, LiveTried
    <3>2. PICK c, q : /\ c = MarkCompleted(db, s, own)
                      /\ q = [db.shards[s] EXCEPT !.status = "completed", !.owner = NoOwner, !.stale = FALSE]
      OBVIOUS
    <3>3. Written(db, c, s, q)
      <4>1. Written(db, MarkCompleted(db, s, own), s,
                    [db.shards[s] EXCEPT !.status = "completed", !.owner = NoOwner, !.stale = FALSE])
        BY <1>2, <1>7, <2>3, <3>1, MarksOK
      <4> QED
        BY <3>2, <4>1
    <3>4. q.status = "completed" /\ q.owner = NoOwner /\ q.attempts = db.shards[s].attempts /\ q.ids = snap
      BY <1>7, <2>3, <3>1, <3>2 DEF ShardRow
    <3>5. Whole(c) /\ Live(c) = Live(db)
      BY <1>2, <3>1, <3>3, WrittenOK
    <3>6. /\ c.shards[s] = q /\ Same(db.shards[s], q) /\ c.active = db.active /\ c.consumed = db.consumed
          /\ \A x \in Live(c) \ {s} : c.shards[x] = db.shards[x]
      BY <3>1, <3>3, <3>5 DEF Written, Live
    <3>7. Tried(c)
      BY <1>2, <3>1, <3>4, <3>5, <3>6 DEF Tried
    <3>8. CASE broken
      <4>1. d = c
        BY <1>5, <2>3, <3>2, <3>8
      <4> QED
        BY <3>4, <3>5, <3>6, <3>7, <4>1
    <3>9. CASE ~broken
      <4>1. MarkCompleted(c, s, own) = c /\ OwnedBy(c, s, own) /\ c.shards[s].status = "completed"
        BY <3>1, <3>4, <3>5, <3>6 DEF MarkCompleted, OwnedBy
      <4>2. CompleteShard(c, s, own) = Sweep(c, {}, {s}, {})
        BY <4>1 DEF CompleteShard
      <4>3. d = Sweep(c, {}, {s}, {})
        BY <1>5, <2>3, <3>2, <3>9, <4>2
      <4>4. PICK none, one : none = {} /\ one = {s}
        OBVIOUS
      <4>5. none \in SUBSET Live(c) /\ one \in SUBSET Live(c) /\ one \cap none = {}
        BY <3>1, <3>5, <4>4
      <4>6. Swept(c, Sweep(c, none, one, none), none, one, none)
        BY <3>5, <4>5, SweepOK
      <4>7. Swept(c, d, none, one, none)
        BY <4>3, <4>4, <4>6
      <4>8. Rows(c, none) = {} /\ Named(c, one) = snap
        BY <3>4, <3>6, <4>4 DEF Named, Rows
      <4>9. /\ Whole(d) /\ d.active = db.active /\ d.consumed = db.consumed \cup snap
            /\ Live(d) = Live(db) \ {s} /\ \A x \in Live(d) : d.shards[x] = c.shards[x]
        BY <3>5, <3>6, <4>4, <4>7, <4>8 DEF Swept
      <4>10. Tried(d)
        BY <3>5, <3>7, <4>9 DEF Tried
      <4> QED
        BY <3>5, <3>6, <4>9, <4>10
    <3> QED
      BY <3>8, <3>9
  <2> QED
    BY <1>5, <1>7, <1>8, <2>1, <2>2, <2>3
<1>10. /\ HeldIds(d) \subseteq HeldIds(db) /\ HeldIds(db) \subseteq HeldIds(d) \cup snap
       /\ \A x \in Live(d) : d.shards[x].ids = db.shards[x].ids /\ d.shards[x].rows = db.shards[x].rows
       /\ Covers(d.active \cup HeldRows(d) \cup sent, db.active \cup HeldRows(db))
  <2>1. \A x \in Live(d) : d.shards[x].ids = db.shards[x].ids /\ d.shards[x].rows = db.shards[x].rows
    BY <1>9 DEF Same
  <2>2. s \in Live(db) => db.shards[s].ids = snap
    BY <1>7, HistoryAssumption DEF Live
  <2>3. HeldIds(db) \subseteq HeldIds(d) \cup snap
    <3> SUFFICES ASSUME NEW x \in Live(db) PROVE db.shards[x].ids \subseteq HeldIds(d) \cup snap
      BY DEF HeldIds, Named
    <3> QED
      BY <1>9, <2>1, <2>2 DEF HeldIds, Named
  <2> DEFINE K == d.active \cup HeldRows(d) \cup sent
  <2>4. ASSUME NEW x \in Live(db) PROVE Covers(K, db.shards[x].rows)
    <3>1. CASE x \in Live(d)
      BY <2>1, <3>1 DEF HeldRows, Rows, Covers
    <3>2. CASE x \notin Live(d)
      <4>1. x = s /\ s # 0
        BY <1>9, <3>2, HistoryAssumption DEF Live
      <4>2. db.shards[x].rows \subseteq snap /\ Core(snap) \subseteq K
        BY <1>7, <4>1
      <4>3. K \subseteq Msg
        BY <1>2, <1>9, RowsHold DEF Whole, Database
      <4> HIDE DEF K
      <4>4. Covers(K, snap)
        BY <1>7, <4>2, <4>3, CoreCovers
      <4> QED
        BY <4>2, <4>4 DEF Covers
    <3> QED
      BY <3>1, <3>2
  <2>5. Covers(K, db.active \cup HeldRows(db))
    BY <1>9, <2>4 DEF Covers, HeldRows, Rows
  <2> QED
    BY <1>9, <2>1, <2>3, <2>5 DEF HeldIds, Named
<1>11. WindowOK' /\ UnsentOK' /\ DurableUntilSent' /\ SentOnce' /\ Remembered
  <2>1. WindowOK'
    BY <1>2, <1>6, <1>8, <1>9, <1>10 DEF WindowOK
  <2>2. UnsentOK'
    BY <1>2, <1>6, <1>8, <1>9 DEF UnsentOK
  <2>3. DurableUntilSent'
    BY <1>2, <1>6, <1>8, <1>9, <1>10, DurableStep
  <2>4. SentOnce'
    BY <1>2, <1>6, <1>8 DEF SentOnce
  <2>5. \A m \in Msg : m \in window \cup db.active \cup db.consumed \cup HeldIds(db) \cup sent => Traced(m)
    BY DEF Traced
  <2>6. Remembered
    BY <1>6, <1>7, <1>8, <1>9, <1>10, <2>5 DEF Remembered
  <2> QED
    BY <2>1, <2>2, <2>3, <2>4, <2>6
<1>12. Quiet(db, db, window)
  BY <1>2, QuietSame
<1>13. \A x \in Key \ {k} : \A u \in Front(chain[x]) : HeadOK(x, u)'
  <2> SUFFICES ASSUME NEW x \in Key \ {k}, NEW u \in Front(chain[x]) PROVE HeadOK(x, u)'
    OBVIOUS
  <2>1. Carries(x, u, db)
    BY FrontHead DEF HeadOK
  <2>2. ASSUME u.shard \in Live(db)
        PROVE  u.shard \in Live(d) /\ d.shards[u.shard] = db.shards[u.shard]
    <3>1. u.shard # 0
      BY <2>2, HistoryAssumption DEF Live
    <3>2. u.shard # s
      BY <1>7, <2>1, <3>1 DEF Carries
    <3> QED
      BY <1>9, <2>2, <3>2
  <2>3. sent' = sent /\ u.snap \cap (d.consumed \cup HeldIds(d)) \subseteq db.consumed \cup HeldIds(db)
    <3>1. u.snap \cap snap = {}
      BY <1>7, FrontHead DEF HeadOK, Shape, Of
    <3> QED
      BY <1>6, <1>9, <1>10, <3>1
  <2> QED
    BY <1>8, <1>12, <2>2, <2>3, OtherHead
<1>14. Moves(k, {}, {})
  BY <1>3, <1>6, ReleaseMoves
<1>15. HeadsOK'
  BY <1>13, <1>14, HeadsMove
<1>16. /\ ChainsOK' /\ \A x \in Key : Pending(chain'[x]) \subseteq Pending(chain[x]) \cup {}
       /\ \A x \in Key : \A u \in Front(chain'[x]) : \A y \in u.snap : Traced(y)
  BY <1>14, MovesTrace
<1>17. TracesOK'
  BY <1>6, <1>11, <1>16, TracesKept
<1>18. ShardsOK'
  <2> SUFFICES ASSUME NEW x \in Live(d) PROVE ShardOK(x)'
    BY <1>8 DEF ShardsOK
  <2>1. CASE x = s
    <3>1. d.shards[s].ids = snap
      BY <1>7, <1>10, <2>1, HistoryAssumption DEF Live
    <3>2. snap \subseteq excused' \/ d.shards[s].status = "completed"
      BY <1>9, <2>1
    <3> QED
      BY <1>6, <1>7, <1>8, <2>1, <3>1, <3>2 DEF ShardOK
  <2>2. CASE x # s
    <3>1. ASSUME NEW y \in Key, Settling(y, x) PROVE Settling(y, x)'
      <4>1. y # k
        BY <1>3, <1>4, <2>2, <3>1 DEF Settling
      <4> QED
        BY <1>14, <3>1, <4>1 DEF Settling, Moves
    <3>2. x \in Live(db) /\ d.shards[x] = db.shards[x] /\ sent' = sent
      BY <1>6, <1>9, <2>2
    <3> QED
      BY <1>8, <1>12, <3>1, <3>2, OtherShard
  <2> QED
    BY <2>1, <2>2
<1>19. Types'
  <2>1. saved' \subseteq Msg /\ excused' \subseteq Msg
    BY <1>8, <1>9, StoredTypes
  <2>2. dbErrors' \in Nat
    BY <1>2, <1>6 DEF Types
  <2>3. window' \subseteq Msg
    BY <1>2, <1>6 DEF Types
  <2> QED
    BY <1>2, <1>6, <1>14, <2>1, <2>2, <2>3 DEF Types, Moves, lifeVars
<1> QED
  BY <1>8, <1>9, <1>11, <1>15, <1>16, <1>17, <1>18, <1>19 DEF IInv

LEMMA StepFails ==
  ASSUME IInv, NEW k \in Key, UploadFails(k)
  PROVE  IInv'
<1>1. PICK h : h = Head(chain[k])
  OBVIOUS
<1>2. /\ Types /\ ChainsOK /\ Whole(db) /\ Tried(db) /\ WindowOK /\ UnsentOK /\ SentOnce
      /\ ShardsOK /\ db \in Database /\ sent \subseteq Msg
  BY DEF IInv, Whole, Types
<1>3. /\ h \in Task /\ Front(chain[k]) = {h} /\ HeadOK(k, h) /\ Busy(k) /\ Sending(h)
  <2>1. Busy(k) /\ Sending(h)
    BY <1>1 DEF UploadFails, Uploading, At, Sending
  <2> QED
    BY <1>1, <1>2, <2>1, FrontOf, FrontHead
<1>4. PICK s, snap, own : s = h.shard /\ snap = h.snap /\ own = h.owner
  OBVIOUS
<1>5. PICK m, d : /\ m = (IF s = 0 \/ ~open THEN db ELSE MarkFailed(db, s, own))
                  /\ d = RestoreTerminal(m) /\ window' = Capped(window \cup Restored(m))
                  /\ Commit(d, IF h.pc = "settling" THEN snap ELSE {})
  BY <1>1, <1>4 DEF UploadFails
<1>6. /\ fails' = fails + 1 /\ ticking' \in BOOLEAN /\ Release(k)
      /\ UNCHANGED <<version, flushes, owner, worker, lifeVars, stalls, dbErrors, used, sent, resent>>
  BY DEF UploadFails
<1>7. /\ snap \subseteq Of(k) /\ snap \subseteq Msg /\ own \in Owner
      /\ s # 0 => /\ s \in Live(db) /\ db.shards[s].key = k /\ db.shards[s].ids = snap
                  /\ db.shards[s].rows \subseteq snap /\ db.shards[s].status # "completed"
      /\ h.pc # "settling" => snap \cap sent \subseteq excused
      /\ \A y \in snap : Traced(y)
  <2>1. Carries(k, h, db) /\ Shape(k, h) /\ Accounted(h, db)
    BY <1>3 DEF HeadOK
  <2>2. \A y \in snap : Traced(y)
    BY <1>3, <1>4 DEF Traced
  <2>3. /\ s # 0 => /\ s \in Live(db) /\ db.shards[s].key = k /\ db.shards[s].ids = snap
                    /\ db.shards[s].status # "completed"
    BY <1>4, <2>1 DEF Carries
  <2>4. s # 0 => db.shards[s].rows \subseteq snap
    BY <1>2, <2>3 DEF Whole
  <2>5. snap \subseteq Of(k) /\ (h.pc # "settling" => snap \cap sent \subseteq excused)
    BY <1>4, <2>1 DEF Accounted, Shape
  <2>6. snap \subseteq Msg /\ own \in Owner
    BY <1>3, <1>4 DEF Task
  <2> QED
    BY <2>2, <2>3, <2>4, <2>5, <2>6
<1>8. Stored(d) /\ db' = d /\ excused \subseteq excused'
      /\ snap \cap sent \subseteq excused'
  <2>1. PICK causes : causes = (IF h.pc = "settling" THEN snap ELSE {})
    OBVIOUS
  <2>2. causes \subseteq Msg /\ (h.pc = "settling" => causes = snap)
    BY <1>7, <2>1
  <2>3. Stored(d) /\ causes \subseteq excused'
    BY <1>5, <2>1, <2>2, CommitStored
  <2> QED
    BY <1>7, <2>2, <2>3 DEF Stored
<1>9. PICK T, none : T = Terminal(m) /\ none = {}
  OBVIOUS
<1>10. \/ m = db
       \/ /\ s \in Live(db)
          /\ Written(db, m, s, [db.shards[s] EXCEPT !.status = "failed", !.owner = NoOwner, !.stale = FALSE,
                                                    !.attempts = @ + 1])
  <2>1. CASE s = 0 \/ ~open
    BY <1>5, <2>1
  <2>2. CASE s # 0 /\ open
    <3>1. s \in Live(db) /\ db.shards[s].attempts < MaxAttempts
      BY <1>7, <2>2, LiveTried
    <3>2. \/ MarkFailed(db, s, own) = db
          \/ Written(db, MarkFailed(db, s, own), s,
                     [db.shards[s] EXCEPT !.status = "failed", !.owner = NoOwner, !.stale = FALSE, !.attempts = @ + 1])
      BY <1>2, <1>7, <3>1, MarksOK
    <3> QED
      BY <1>5, <2>2, <3>1, <3>2
  <2> QED
    BY <2>1, <2>2
<1>11. /\ Whole(m) /\ Live(m) = Live(db) /\ m.active = db.active /\ m.consumed = db.consumed /\ T \subseteq {s}
       /\ \A x \in Live(m) \ {s} : m.shards[x] = db.shards[x]
       /\ \A x \in Live(m) \ T : m.shards[x].attempts < MaxAttempts
       /\ s \in Live(m) => Same(db.shards[s], m.shards[s]) /\ m.shards[s].status # "completed"
       /\ T \subseteq Live(m)
  <2>1. CASE m = db
    <3>1. T = {}
      BY <1>2, <1>9, <2>1, NoneTerminal
    <3>2. s \in Live(db) => s # 0
      BY HistoryAssumption DEF Live
    <3> QED
      BY <1>2, <1>7, <2>1, <3>1, <3>2 DEF Same, Tried
  <2>2. ASSUME s \in Live(db),
               Written(db, m, s, [db.shards[s] EXCEPT !.status = "failed", !.owner = NoOwner, !.stale = FALSE,
                                                      !.attempts = @ + 1])
        PROVE  <1>11!:
    <3>1. PICK q : /\ q = [db.shards[s] EXCEPT !.status = "failed", !.owner = NoOwner, !.stale = FALSE, !.attempts = @ + 1]
                   /\ Written(db, m, s, q)
      BY <2>2
    <3>2. q.status = "failed" /\ q \in ShardRow
      BY <2>2, <3>1, LiveTried DEF ShardRow, Written
    <3>3. Whole(m) /\ Live(m) = Live(db)
      BY <1>2, <2>2, <3>1, WrittenOK
    <3>4. /\ m.shards[s] = q /\ Same(db.shards[s], q) /\ m.active = db.active /\ m.consumed = db.consumed
          /\ \A x \in Live(m) \ {s} : m.shards[x] = db.shards[x]
      BY <2>2, <3>1, <3>3 DEF Written, Live
    <3>5. \A x \in Live(m) \ {s} : m.shards[x].attempts < MaxAttempts /\ m.shards[x].attempts \in Nat
      <4>1. \A x \in Live(db) : db.shards[x] \in ShardRow /\ db.shards[x].attempts < MaxAttempts
        BY LiveTried
      <4> QED
        BY <3>3, <3>4, <4>1 DEF ShardRow
    <3>6. T \subseteq {s} /\ T \subseteq Live(m) /\ (s \notin T => ~(q.attempts >= MaxAttempts))
      <4>1. MaxAttempts \in Nat
        BY HistoryAssumption
      <4> QED
        BY <1>9, <2>2, <3>2, <3>3, <3>4, <3>5, <4>1 DEF Terminal
    <3>7. s \notin T => q.attempts < MaxAttempts
      BY <3>2, <3>6, HistoryAssumption DEF ShardRow
    <3> QED
      BY <3>2, <3>3, <3>4, <3>5, <3>6, <3>7
  <2> QED
    BY <1>10, <2>1, <2>2
<1>12. Swept(m, d, none, none, T)
  <2>1. none \in SUBSET Live(m) /\ T \in SUBSET Live(m) /\ none \cap T = {}
    BY <1>9, <1>11
  <2>2. Swept(m, Sweep(m, none, none, T), none, none, T)
    BY <1>11, <2>1, SweepOK
  <2> QED
    BY <1>5, <1>9, <2>2 DEF RestoreTerminal
<1>13. PICK R : R = Rows(m, T)
  OBVIOUS
<1>14. /\ Whole(d) /\ d.active = db.active \cup R /\ d.consumed = db.consumed /\ Live(d) = Live(db) \ T
       /\ \A x \in Live(d) : d.shards[x] = m.shards[x]
  <2>1. Named(m, none) = {}
    BY <1>9 DEF Named
  <2> QED
    BY <1>9, <1>11, <1>12, <1>13, <2>1 DEF Swept
<1>15. Tried(d)
  BY <1>11, <1>14 DEF Tried
<1>16. R \subseteq snap /\ window' \subseteq window \cup R
  <2>1. \A x \in T : x \in Live(m) /\ x = s /\ m.shards[x].rows \subseteq snap
    <3>1. s \in Live(m) => s # 0
      BY HistoryAssumption DEF Live
    <3> QED
      BY <1>7, <1>11, <3>1 DEF Same
  <2>2. R \subseteq snap
    BY <1>13, <2>1 DEF Rows
  <2> QED
    BY <1>5, <1>9, <1>13, <2>2 DEF Restored, Capped, Latest
<1>17. /\ HeldIds(d) \subseteq HeldIds(db) /\ HeldRows(db) \subseteq HeldRows(d) \cup R
       /\ \A x \in Live(d) : d.shards[x].ids = db.shards[x].ids
  <2>1. \A x \in Live(m) : m.shards[x].ids = db.shards[x].ids /\ m.shards[x].rows = db.shards[x].rows
    BY <1>11 DEF Same
  <2>2. HeldRows(db) \subseteq HeldRows(d) \cup R
    <3> SUFFICES ASSUME NEW x \in Live(db) PROVE db.shards[x].rows \subseteq HeldRows(d) \cup R
      BY DEF HeldRows, Rows
    <3> QED
      BY <1>11, <1>13, <1>14, <2>1 DEF HeldRows, Rows
  <2> QED
    BY <1>11, <1>14, <2>1, <2>2 DEF HeldIds, Named
<1>18. WindowOK' /\ UnsentOK' /\ DurableUntilSent' /\ SentOnce' /\ Remembered
  <2>1. d.active \cap (d.consumed \cup HeldIds(d)) = {}
    BY <1>14 DEF Whole, HeldIds, Named
  <2>2. WindowOK'
    BY <1>2, <1>8, <1>14, <1>16, <1>17, <2>1 DEF WindowOK
  <2>3. UnsentOK'
    BY <1>2, <1>6, <1>8, <1>14, <1>16 DEF UnsentOK
  <2>4. DurableUntilSent'
    <3>1. Covers(d.active \cup HeldRows(d) \cup sent', db.active \cup HeldRows(db))
      BY <1>6, <1>14, <1>17 DEF Covers
    <3> QED
      BY <1>2, <1>6, <1>8, <1>14, <3>1, DurableStep
  <2>5. SentOnce'
    BY <1>2, <1>6, <1>8 DEF SentOnce
  <2>6. \A y \in Msg : y \in window \cup db.active \cup db.consumed \cup HeldIds(db) \cup sent => Traced(y)
    BY DEF Traced
  <2>7. Remembered
    BY <1>6, <1>7, <1>8, <1>14, <1>16, <1>17, <2>6 DEF Remembered
  <2> QED
    BY <2>2, <2>3, <2>4, <2>5, <2>7
<1>19. Quiet(db, db, window)
  BY <1>2, QuietSame
<1>20. \A x \in Key \ {k} : \A u \in Front(chain[x]) : HeadOK(x, u)'
  <2> SUFFICES ASSUME NEW x \in Key \ {k}, NEW u \in Front(chain[x]) PROVE HeadOK(x, u)'
    OBVIOUS
  <2>1. Carries(x, u, db)
    BY FrontHead DEF HeadOK
  <2>2. ASSUME u.shard \in Live(db)
        PROVE  u.shard \in Live(d) /\ d.shards[u.shard] = db.shards[u.shard]
    <3>1. u.shard # 0
      BY <2>2, HistoryAssumption DEF Live
    <3>2. u.shard # s
      BY <1>7, <2>1, <3>1 DEF Carries
    <3> QED
      BY <1>11, <1>14, <2>2, <3>2
  <2>3. sent' = sent /\ u.snap \cap (d.consumed \cup HeldIds(d)) \subseteq db.consumed \cup HeldIds(db)
    BY <1>6, <1>14, <1>17
  <2> QED
    BY <1>8, <1>19, <2>2, <2>3, OtherHead
<1>21. Moves(k, {}, {})
  BY <1>3, <1>6, ReleaseMoves
<1>22. HeadsOK'
  BY <1>20, <1>21, HeadsMove
<1>23. /\ ChainsOK' /\ \A x \in Key : Pending(chain'[x]) \subseteq Pending(chain[x]) \cup {}
       /\ \A x \in Key : \A u \in Front(chain'[x]) : \A y \in u.snap : Traced(y)
  BY <1>21, MovesTrace
<1>24. TracesOK'
  BY <1>6, <1>18, <1>23, TracesKept
<1>25. ShardsOK'
  <2> SUFFICES ASSUME NEW x \in Live(d) PROVE ShardOK(x)'
    BY <1>8 DEF ShardsOK
  <2>1. CASE x = s
    <3>1. d.shards[s].ids = snap
      BY <1>7, <1>14, <1>17, <2>1, HistoryAssumption DEF Live
    <3>2. d.shards[s].status # "completed"
      BY <1>11, <1>14, <2>1
    <3> QED
      BY <1>6, <1>8, <2>1, <3>1, <3>2 DEF ShardOK
  <2>2. CASE x # s
    <3>1. ASSUME NEW y \in Key, Settling(y, x) PROVE Settling(y, x)'
      <4>1. y # k
        BY <1>3, <1>4, <2>2, <3>1 DEF Settling
      <4> QED
        BY <1>21, <3>1, <4>1 DEF Settling, Moves
    <3>2. x \in Live(db) /\ d.shards[x] = db.shards[x] /\ sent' = sent
      BY <1>6, <1>11, <1>14, <2>2
    <3> QED
      BY <1>8, <1>19, <3>1, <3>2, OtherShard
  <2> QED
    BY <2>1, <2>2
<1>26. Types'
  <2>1. saved' \subseteq Msg /\ excused' \subseteq Msg
    BY <1>8, <1>14, StoredTypes
  <2>2. fails' \in Nat /\ window' \subseteq Msg
    BY <1>2, <1>6, <1>7, <1>16 DEF Types
  <2> QED
    BY <1>2, <1>6, <1>21, <2>1, <2>2 DEF Types, Moves, lifeVars
<1> QED
  BY <1>8, <1>14, <1>15, <1>18, <1>22, <1>23, <1>24, <1>25, <1>26 DEF IInv

(* What a start makes of a task.                                           *)
Cleared(u, t) ==
  /\ t \in Task /\ t.kind = u.kind /\ t.pc = u.pc /\ t.msg = u.msg /\ t.shard = u.shard /\ t.snap = u.snap
  /\ u.pc # "queued" => t.abandoned = TRUE /\ t.owner = u.owner

LEMMA NewOwnerOK ==
  ASSUME Types, loads < MaxLoads
  PROVE  NewOwner \in Owner /\ NewOwner[1] = owner[1] /\ loads + 1 \in 0..MaxLoads
<1>1. owner \in Owner /\ loads \in 0..MaxLoads /\ MaxLoads \in Nat
  BY HistoryAssumption DEF Types
<1>2. loads + 1 \in 0..MaxLoads
  BY <1>1
<1> QED
  BY <1>1, <1>2 DEF NewOwner, Owner

LEMMA ClearOK ==
  ASSUME NEW k \in Key, NEW c, ChainOK(k, c, used), NewOwner \in Owner
  PROVE  /\ ChainOK(k, ClearLocks(c), used) /\ Pending(ClearLocks(c)) \subseteq Pending(c)
         /\ \A t \in Front(ClearLocks(c)) : \E u \in Front(c) : Cleared(u, t)
         /\ \A u \in Front(c) : \E t \in Front(ClearLocks(c)) : Cleared(u, t)
<1> DEFINE e == ClearLocks(c)
<1>1. c \in Seq(Task) /\ Len(c) \in Nat
  BY DEF ChainOK
<1>2. \A i \in 1..Len(c) : c[i] \in Task
  BY <1>1
<1>3. \A i \in 1..Len(c) : Cleared(c[i], e[i])
  <2> SUFFICES ASSUME NEW i \in 1..Len(c) PROVE Cleared(c[i], e[i])
    OBVIOUS
  <2>1. e[i] = (IF c[i].pc = "queued" THEN [c[i] EXCEPT !.owner = NewOwner] ELSE [c[i] EXCEPT !.abandoned = TRUE])
    BY DEF ClearLocks
  <2>2. PICK u : u = c[i] /\ u \in Task
    BY <1>2
  <2>3. CASE u.pc = "queued"
    BY <2>1, <2>2, <2>3 DEF Cleared, Task
  <2>4. CASE u.pc # "queued"
    BY <2>1, <2>2, <2>4 DEF Cleared, Task
  <2> QED
    BY <2>3, <2>4
<1>4. e \in Seq(Task) /\ Len(e) = Len(c)
  <2>1. e = [i \in 1..Len(c) |-> e[i]]
    BY DEF ClearLocks
  <2> HIDE DEF e
  <2>2. e \in [1..Len(c) -> Task]
    BY <1>3, <2>1 DEF Cleared
  <2> QED
    BY <1>1, <2>2
<1> HIDE DEF e
<1>5. \A i \in 1..Len(e) : i \in 1..Len(c) /\ Cleared(c[i], e[i])
  BY <1>3, <1>4
<1>6. ChainOK(k, e, used)
  <2>1. \A i \in 2..Len(e) : Waiting(e[i])
    <3> SUFFICES ASSUME NEW i \in 2..Len(e) PROVE Waiting(e[i])
      OBVIOUS
    <3>1. i \in 2..Len(c) /\ i \in 1..Len(e)
      BY <1>1, <1>4
    <3> QED
      BY <1>5, <3>1 DEF ChainOK, Waiting, Cleared
  <2>2. \A i \in 1..Len(e) : e[i].kind = "turn" => e[i].msg \in used \cap Of(k)
    BY <1>5 DEF ChainOK, Cleared
  <2>3. \A i, j \in 1..Len(e) : e[i].kind = "turn" /\ e[j].kind = "turn" /\ e[i].msg = e[j].msg => i = j
    BY <1>5 DEF ChainOK, Cleared
  <2> QED
    BY <1>4, <2>1, <2>2, <2>3 DEF ChainOK
<1>7. Pending(e) \subseteq Pending(c)
  <2>1. \A i \in 1..Len(e) : Unbegun(e[i]) => Unbegun(c[i]) /\ e[i].msg = c[i].msg
    BY <1>5 DEF Unbegun, Cleared
  <2> QED
    BY <1>4, <2>1 DEF Pending
<1>8. CASE c = <<>>
  <2>1. e = <<>>
    BY <1>4, <1>8
  <2> QED
    BY <1>6, <1>7, <1>8, <2>1 DEF Front, e
<1>9. CASE c # <<>>
  <2>1. Front(c) = {c[1]} /\ Front(e) = {e[1]} /\ 1 \in 1..Len(c)
    BY <1>1, <1>4, <1>9 DEF Front
  <2>2. Cleared(c[1], e[1])
    BY <1>3, <2>1
  <2>3. \A t \in Front(e) : \E u \in Front(c) : Cleared(u, t)
    BY <2>1, <2>2
  <2>4. \A u \in Front(c) : \E t \in Front(e) : Cleared(u, t)
    BY <2>1, <2>2
  <2> QED
    BY <1>6, <1>7, <2>3, <2>4 DEF e
<1> QED
  BY <1>8, <1>9

LEMMA StepLoadBegins ==
  ASSUME IInv, LoadBegins
  PROVE  IInv'
<1>1. /\ Types /\ ChainsOK /\ HeadsOK /\ Whole(db) /\ Tried(db)
  BY DEF IInv
<1>2. /\ loads < MaxLoads /\ loads' = loads + 1 /\ open' = TRUE /\ worker' = FALSE /\ owner' = NewOwner
      /\ chain' = [k \in Key |-> ClearLocks(chain[k])] /\ loading' = ActiveKeys
      /\ UNCHANGED <<memVars, ticking, stops, crashes, faultVars, used, sent, resent>>
  BY DEF LoadBegins
<1>3. PICK d : d = RecoverInFlight(db, ActiveKeys, NewOwner) /\ Commit(d, {})
  BY DEF LoadBegins
<1>4. Quiet(db, d, window)
  <2>1. PICK skip, own : skip = ActiveKeys /\ own = NewOwner
    OBVIOUS
  <2>2. Quiet(db, RecoverInFlight(db, skip, own), window)
    BY <1>1, <2>1, LoadQuiet
  <2> QED
    BY <1>3, <2>1, <2>2
<1>5. Stored(d) /\ db' = d /\ excused \subseteq excused'
  <2>1. {} \subseteq Msg
    OBVIOUS
  <2> QED
    BY <1>3, <2>1, CommitStored DEF Stored
<1>6. NewOwner \in Owner /\ NewOwner[1] = owner[1] /\ loads + 1 \in 0..MaxLoads
  BY <1>1, <1>2, NewOwnerOK
<1>7. ASSUME NEW k \in Key
      PROVE  /\ ChainOK(k, chain'[k], used) /\ Pending(chain'[k]) \subseteq Pending(chain[k])
             /\ \A t \in Front(chain'[k]) : \E u \in Front(chain[k]) : Cleared(u, t)
             /\ \A u \in Front(chain[k]) : \E t \in Front(chain'[k]) : Cleared(u, t)
  <2>1. ChainOK(k, chain[k], used) /\ chain'[k] = ClearLocks(chain[k])
    BY <1>1, <1>2 DEF ChainsOK
  <2> QED
    BY <1>6, <2>1, ClearOK
<1>8. ChainsOK'
  BY <1>2, <1>7 DEF ChainsOK
<1>9. HeadsOK'
  <2> SUFFICES ASSUME NEW k \in Key, NEW t \in Front(chain'[k]) PROVE HeadOK(k, t)'
    BY DEF HeadsOK
  <2>1. PICK u \in Front(chain[k]) : Cleared(u, t)
    BY <1>7
  <2>2. HeadOK(k, u) /\ RowKept(u, d)
    BY <1>4, <1>5, FrontHead, QuietRow DEF Stored
  <2>3. Shape(k, t)
    BY <2>1, <2>2 DEF HeadOK, Shape, Cleared
  <2>4. Carries(k, t, d)
    BY <2>1, <2>2 DEF HeadOK, Carries, RowKept, Cleared, Same
  <2>5. Ready(t, d)
    <3>1. d.consumed \cup HeldIds(d) \subseteq db.consumed \cup HeldIds(db)
      BY <1>4, QuietFacts
    <3> QED
      BY <2>1, <2>2, <3>1 DEF HeadOK, Ready, Cleared
  <2>6. Accounted(t, d)'
    <3>1. Sending(t) => Sending(u) /\ t.owner = u.owner
      BY <2>1 DEF Sending, Cleared
    <3> QED
      BY <1>2, <1>5, <2>1, <2>2, <3>1 DEF HeadOK, Accounted, RowKept, Cleared, Sending
  <2> QED
    BY <1>5, <2>3, <2>4, <2>5, <2>6 DEF HeadOK
<1>10. \A x \in Key : \A t \in Front(chain'[x]) : \A m \in t.snap : Traced(m)
  <2> SUFFICES ASSUME NEW x \in Key, NEW t \in Front(chain'[x]), NEW m \in t.snap PROVE Traced(m)
    OBVIOUS
  <2>1. PICK u \in Front(chain[x]) : Cleared(u, t)
    BY <1>7
  <2> QED
    BY <2>1 DEF Cleared, Traced
<1>11. \A x \in Key : \A s \in Live(db) : Settling(x, s) => Settling(x, s)'
  <2> SUFFICES ASSUME NEW x \in Key, NEW s \in Live(db), Settling(x, s) PROVE Settling(x, s)'
    OBVIOUS
  <2>1. PICK u \in Front(chain[x]) : u.pc = "settling" /\ u.shard = s
    BY DEF Settling
  <2>2. PICK t \in Front(chain'[x]) : Cleared(u, t)
    BY <1>7
  <2> QED
    BY <2>1, <2>2 DEF Cleared, Settling
<1>12. Types'
  <2>1. saved' \subseteq Msg /\ excused' \subseteq Msg
    BY <1>4, <1>5, StoredTypes DEF Quiet
  <2>2. chain' \in [Key -> Seq(Task)]
    BY <1>2, <1>7 DEF ChainOK
  <2>3. loading' \in {NotLoading} \cup SUBSET Key
    BY <1>2 DEF ActiveKeys
  <2>4. owner' \in Owner /\ owner'[1] = owner[1] /\ loads' \in 0..MaxLoads
    BY <1>2, <1>6
  <2>5. open' \in BOOLEAN /\ worker' \in BOOLEAN
    BY <1>2
  <2> QED
    BY <1>1, <1>2, <2>1, <2>2, <2>3, <2>4, <2>5 DEF Types, memVars, faultVars
<1>13. \A x \in Key : Pending(chain'[x]) \subseteq Pending(chain[x]) \cup {}
  BY <1>7
<1>14. window' \subseteq window \cup d.active
  BY <1>2 DEF memVars
<1> QED
  BY <1>2, <1>4, <1>5, <1>8, <1>9, <1>10, <1>11, <1>12, <1>13, <1>14, QuietStep

LEMMA StepCrash ==
  ASSUME IInv, Crash
  PROVE  IInv'
<1> DEFINE causes == UNION {Head(chain[k]).snap : k \in {j \in Key : At(j, "settling")}}
<1>1. /\ Types /\ ChainsOK /\ Whole(db) /\ Tried(db)
  BY DEF IInv
<1>2. /\ crashes < MaxCrashes /\ crashes' = crashes + 1 /\ window' = {} /\ version' = [k \in Key |-> 0]
      /\ flushes' = {} /\ chain' = [k \in Key |-> <<>>] /\ owner' = <<owner[1] + 1, 0>>
      /\ worker' = FALSE /\ ticking' = FALSE /\ open' = FALSE /\ loading' = NotLoading
      /\ UNCHANGED <<loads, stops, faultVars, used, sent, resent>>
  BY DEF Crash
<1>3. \A k \in Key : At(k, "settling") => Front(chain[k]) = {Head(chain[k])} /\ Head(chain[k]) \in Task
  BY <1>1, FrontOf DEF At
<1>4. causes \subseteq Msg
  BY <1>3 DEF Task
<1>5. Commit(db, causes)
  BY DEF Crash
<1>6. \A k \in Key : \A t \in Front(chain[k]) : t.pc = "settling" => t.snap \subseteq causes
  <2> SUFFICES ASSUME NEW k \in Key, NEW t \in Front(chain[k]), t.pc = "settling" PROVE t.snap \subseteq causes
    OBVIOUS
  <2>1. t = Head(chain[k]) /\ At(k, "settling")
    BY FrontHead DEF At
  <2> QED
    BY <2>1
<1> HIDE DEF causes
<1>7. Stored(db) /\ causes \subseteq excused'
  BY <1>4, <1>5, CommitStored
<1>8. Quiet(db, db, window)
  BY <1>1, QuietSame
<1>9. \A k \in Key : chain'[k] = <<>> /\ Front(chain'[k]) = {} /\ Pending(chain'[k]) = {}
  <2>1. \A k \in Key : chain'[k] = <<>>
    BY <1>2
  <2>2. Front(<<>>) = {} /\ Pending(<<>>) = {}
    BY DEF Front, Pending
  <2> QED
    BY <2>1, <2>2
<1>10. ChainsOK'
  <2>1. \A k \in Key : ChainOK(k, <<>>, used')
    BY DEF ChainOK
  <2> QED
    BY <1>9, <2>1 DEF ChainsOK
<1>11. HeadsOK' /\ \A x \in Key : \A t \in Front(chain'[x]) : \A m \in t.snap : Traced(m)
  BY <1>9 DEF HeadsOK
<1>12. ASSUME NEW k \in Key, NEW s \in Live(db), Settling(k, s) PROVE db.shards[s].ids \subseteq excused'
  <2>1. PICK t \in Front(chain[k]) : t.pc = "settling" /\ t.shard = s
    BY <1>12 DEF Settling
  <2>2. s # 0 /\ Carries(k, t, db)
    BY FrontHead, HistoryAssumption DEF Live, HeadOK
  <2>3. db.shards[s].ids = t.snap
    BY <1>1, <2>1, <2>2 DEF Carries, Whole
  <2> QED
    BY <1>6, <1>7, <2>1, <2>3
<1>13. Types'
  <2>1. saved' \subseteq Msg /\ excused' \subseteq Msg
    BY <1>1, <1>7, StoredTypes
  <2>2. crashes' \in 0..MaxCrashes /\ owner[1] + 1 = crashes' + 1 /\ owner[1] + 1 \in Bridge /\ 0 \in 0..MaxLoads
    <3>1. owner[1] = crashes + 1 /\ crashes \in 0..MaxCrashes
      BY <1>1 DEF Types
    <3>2. MaxCrashes \in Nat /\ MaxLoads \in Nat
      BY HistoryAssumption
    <3> QED
      BY <1>2, <3>1, <3>2 DEF Bridge
  <2>3. owner' \in Owner /\ owner'[1] = crashes' + 1
    BY <1>2, <2>2 DEF Owner
  <2>4. chain' \in [Key -> Seq(Task)] /\ version' \in [Key -> Nat]
    BY <1>2
  <2> QED
    BY <1>1, <1>2, <2>1, <2>2, <2>3, <2>4 DEF Types, faultVars
<1>14. \A x \in Key : Pending(chain'[x]) \subseteq Pending(chain[x]) \cup {}
  BY <1>9
<1> QED
  BY <1>2, <1>7, <1>8, <1>10, <1>11, <1>12, <1>13, <1>14, QuietStep

-----------------------------------------------------------------------------
(* The invariant, and what follows from it.                                *)

LEMMA StartOK ==
  ASSUME Init
  PROVE  IInv
<1>1. db = [active |-> {}, consumed |-> {}, shards |-> [s \in Shard |-> NoShard]]
  BY DEF Init
<1>2. Live(db) = {} /\ HeldIds(db) = {} /\ HeldRows(db) = {} /\ db.active = {} /\ db.consumed = {} /\ db \in Database
  BY <1>1 DEF Live, HeldIds, Named, HeldRows, Rows, Database
<1>3. Whole(db) /\ Tried(db)
  BY <1>2 DEF Whole, Tried
<1>4. \A k \in Key : chain[k] = <<>> /\ Front(chain[k]) = {} /\ Pending(chain[k]) = {}
  <2>1. \A k \in Key : chain[k] = <<>>
    BY DEF Init
  <2>2. Front(<<>>) = {} /\ Pending(<<>>) = {}
    BY DEF Front, Pending
  <2> QED
    BY <2>1, <2>2
<1>5. ChainsOK
  <2>1. \A k \in Key : ChainOK(k, <<>>, used)
    BY DEF ChainOK
  <2> QED
    BY <1>4, <2>1 DEF ChainsOK
<1>6. HeadsOK /\ ShardsOK
  BY <1>2, <1>4 DEF HeadsOK, ShardsOK
<1>7. WindowOK /\ UnsentOK /\ DurableUntilSent /\ SentOnce
  BY DEF Init, WindowOK, UnsentOK, DurableUntilSent, SentOnce
<1>8. TracesOK
  BY <1>2, <1>4 DEF Init, TracesOK, Traced
<1>9. Types
  <2>1. owner = <<1, 0>> /\ crashes = 0
    BY DEF Init
  <2>2. 1 \in Bridge /\ 0 \in 0..MaxLoads /\ 0 \in 0..MaxCrashes
    BY HistoryAssumption DEF Bridge
  <2>3. owner \in Owner /\ owner[1] = crashes + 1 /\ crashes \in 0..MaxCrashes
    BY <2>1, <2>2 DEF Owner
  <2>4. chain \in [Key -> Seq(Task)] /\ version \in [Key -> Nat]
    BY DEF Init
  <2> QED
    BY <2>2, <2>3, <2>4 DEF Init, Types
<1> QED
  BY <1>3, <1>5, <1>6, <1>7, <1>8, <1>9 DEF IInv

LEMMA StepStutter ==
  ASSUME IInv, UNCHANGED vars
  PROVE  IInv'
<1>1. Types /\ Whole(db) /\ Tried(db) /\ excused \subseteq Msg
  BY DEF IInv, Types
<1>2. UNCHANGED memVars /\ UNCHANGED taskVars /\ UNCHANGED lifeVars /\ UNCHANGED db /\ UNCHANGED faultVars
      /\ UNCHANGED ghostVars
  BY DEF vars
<1>3. Types'
  BY <1>1, <1>2 DEF Types, memVars, taskVars, lifeVars, faultVars, ghostVars
<1>4. Quiet(db, db, window) /\ Stored(db)
  BY <1>1, <1>2, QuietSame, SameStored DEF ghostVars
<1> QED
  BY <1>2, <1>3, <1>4, QuietStay DEF memVars, taskVars, lifeVars, ghostVars

LEMMA StepTask ==
  ASSUME IInv, NEW k \in Key, TaskStep(k)
  PROVE  IInv'
<1>1. CASE BeginAbandoned(k) \/ EndUnsent(k)
  BY <1>1, StepEnds
<1>2. CASE BeginFlush(k)
  BY <1>2, StepBeginFlush
<1>3. CASE BeginTurn(k)
  BY <1>3, StepBeginTurn
<1>4. CASE BeginShard(k)
  BY <1>4, StepBeginShard
<1>5. CASE Reconcile(k)
  BY <1>5, StepReconcile
<1>6. CASE SendWithShard(k)
  BY <1>6, StepSendWith
<1>7. CASE SendWithoutShard(k)
  BY <1>7, StepSendWithout
<1>8. CASE HostAccepts(k)
  BY <1>8, StepHostAccepts
<1>9. ASSUME NEW broken \in BOOLEAN, Settle(k, broken) PROVE IInv'
  BY <1>9, StepSettle
<1> QED
  BY <1>1, <1>2, <1>3, <1>4, <1>5, <1>6, <1>7, <1>8, <1>9 DEF TaskStep

LEMMA StepOK ==
  ASSUME IInv, [Next]_vars
  PROVE  IInv'
<1>1. ASSUME NEW f \in flushes, QueueFlush(f) PROVE IInv'
  BY <1>1, StepQueueFlush
<1>2. ASSUME NEW k \in Key, TaskStep(k) \/ UploadFails(k) PROVE IInv'
  BY <1>2, StepTask, StepFails
<1>3. ASSUME NEW due \in SUBSET Failed(db), WorkerClaims(due) PROVE IInv'
  BY <1>3, StepClaims
<1>4. CASE WorkerRests
  BY <1>4, StepRest
<1>5. ASSUME NEW s \in Shard, Renew(s) \/ LeaseExpires(s) PROVE IInv'
  BY <1>5, StepRenew, StepExpire
<1>6. CASE FlushState
  BY <1>6, StepFlush
<1>7. CASE LoadEnds
  BY <1>7, StepLoadEnds
<1>8. ASSUME NEW m \in Msg, BotReply(m) PROVE IInv'
  BY <1>8, StepBotReply
<1>9. ASSUME NEW m \in Msg, NEW send \in BOOLEAN, Inbound(m, send) PROVE IInv'
  BY <1>9, StepInbound
<1>10. CASE Stop
  BY <1>10, StepStop
<1>11. CASE LoadBegins
  BY <1>11, StepLoadBegins
<1>12. CASE Crash
  BY <1>12, StepCrash
<1>13. CASE UNCHANGED vars
  BY <1>13, StepStutter
<1> QED
  BY <1>1, <1>2, <1>3, <1>4, <1>5, <1>6, <1>7, <1>8, <1>9, <1>10, <1>11, <1>12, <1>13 DEF Next, System, Environment

LEMMA Always ==
  Spec => []IInv
<1>1. Init => IInv
  BY StartOK
<1>2. IInv /\ [Next]_vars => IInv'
  BY StepOK
<1> QED
  BY <1>1, <1>2, PTL DEF Spec

(* Whatever starts, stops, crashes and failures come, the window, the      *)
(* serial chains, the rows and the shards stay what their code expects.    *)
THEOREM HistoryTypeOK == Spec => []TypeOK
<1>1. IInv => TypeOK
  <2> SUFFICES ASSUME IInv PROVE TypeOK
    OBVIOUS
  <2>1. Types /\ Whole(db) /\ db \in Database
    BY DEF IInv, Whole
  <2>2. DOMAIN db = {"active", "consumed", "shards"} /\ DOMAIN db.shards = Shard
        /\ db.active \subseteq Msg /\ db.consumed \subseteq Msg
    BY <2>1 DEF Database
  <2>3. \A s \in Live(db) : db.shards[s] \in ShardRow
    BY <2>1, LiveRow
  <2>4. {loads, stops, crashes, fails, stalls, dbErrors} \subseteq Nat
    BY <2>1, HistoryAssumption DEF Types
  <2>5. {worker, ticking, open} \subseteq BOOLEAN
    BY <2>1 DEF Types
  <2> QED
    BY <2>1, <2>2, <2>3, <2>4, <2>5 DEF Types, TypeOK
<1> QED
  BY <1>1, Always, PTL

(* A message that reached the database is active, held by a shard or       *)
(* accepted by the host, through saves, claims, failures, restarts and     *)
(* crashes; or else Limit - 1 newer messages of its conversation are.      *)
THEOREM HistoryDurable == Spec => []DurableUntilSent
<1>1. IInv => DurableUntilSent
  BY DEF IInv
<1> QED
  BY <1>1, Always, PTL

(* No message is uploaded to the host twice but for a cause that the shard *)
(* records could not exclude (an upload without a shard, one that threw    *)
(* late, one that ended while the store was closed, a lease that ran out). *)
THEOREM HistorySentOnce == Spec => []SentOnce
<1>1. IInv => SentOnce
  BY DEF IInv
<1> QED
  BY <1>1, Always, PTL

(* A consumed message is in no window, no active row and no shard: neither *)
(* a save, nor a restart, nor a reused shard id brings it back.            *)
THEOREM HistoryConsumed == Spec => []ConsumedStaysConsumed
<1>1. IInv => ConsumedStaysConsumed
  <2> SUFFICES ASSUME IInv PROVE ConsumedStaysConsumed
    OBVIOUS
  <2>1. Whole(db) /\ WindowOK
    BY DEF IInv
  <2>2. HeldRows(db) \subseteq HeldIds(db) /\ HeldIds(db) \cap db.consumed = {} /\ db.active \cap db.consumed = {}
    BY <2>1, RowsHold DEF Whole, HeldIds, Named
  <2> QED
    BY <2>1, <2>2 DEF WindowOK, ConsumedStaysConsumed
<1> QED
  BY <1>1, Always, PTL

LEMMA RestartSpares ==
  ASSUME IInv, LoadBegins, NEW k \in Key, Uploading(k), Head(chain[k]).shard # 0
  PROVE  db'.shards[Head(chain[k]).shard] = db.shards[Head(chain[k]).shard]
<1>1. Types /\ ChainsOK /\ Whole(db) /\ Busy(k)
  BY DEF IInv, Uploading, At
<1>2. PICK h, s : h = Head(chain[k]) /\ s = h.shard /\ s # 0
  OBVIOUS
<1>3. h \in Front(chain[k])
  BY <1>1, <1>2, FrontOf
<1>4. s \in Live(db) /\ db.shards[s].key = k
  BY <1>2, <1>3, FrontHead DEF HeadOK, Carries
<1>5. PICK back, none, d : /\ back = InFlightShards(db, ActiveKeys, NewOwner) /\ none = {}
                           /\ d = Sweep(db, back, none, none) /\ db' = d
  BY DEF LoadBegins, Commit, RecoverInFlight
<1>6. back \in SUBSET Live(db) /\ none \in SUBSET Live(db) /\ s \notin back /\ none \cap none = {}
  BY <1>1, <1>4, <1>5 DEF InFlightShards, ActiveKeys, Busy
<1>7. Swept(db, Sweep(db, back, none, none), back, none, none)
  BY <1>1, <1>6, SweepOK
<1>8. Swept(db, d, back, none, none)
  BY <1>5, <1>7
<1>9. d.shards[s] = db.shards[s]
  BY <1>4, <1>5, <1>6, <1>8 DEF Swept
<1> QED
  BY <1>2, <1>5, <1>9

(* A hot restart leaves alone the shard of an upload that still runs in    *)
(* this process: recoverInFlight skips the conversations with tasks.       *)
THEOREM HistoryRestart == Spec => RestartSparesUploads
<1>1. IInv => (LoadBegins => \A k \in Key : (Uploading(k) /\ Head(chain[k]).shard # 0) =>
                 db'.shards[Head(chain[k]).shard] = db.shards[Head(chain[k]).shard])
  BY RestartSpares
<1> QED
  BY <1>1, Always, PTL DEF RestartSparesUploads
=============================================================================
