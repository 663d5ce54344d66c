------------------------------- MODULE History -------------------------------
(***************************************************************************)
(* The conversation history of one bridge: the window of messages kept in  *)
(* memory for the next turn, its rows in SQLite, the shards that carry a   *)
(* snapshot of the window to the host, the serial chain that lets one turn *)
(* per conversation run at a time, the worker that retries shards, and the *)
(* stops, hot restarts and crashes between all of these.                   *)
(*                                                                         *)
(* An action is the code between two awaits.  A message id stands for its  *)
(* history row and, for a reply of the bot, its replay row under the same  *)
(* id: the two are recorded, claimed, consumed and removed together.  Ids  *)
(* grow with time: their order stands for the order of the time stamps and *)
(* for that of the places in a bucket.  Clocks are abstracted: a lease may *)
(* expire, and the backoff of a failed shard may have passed, at any       *)
(* moment.                                                                 *)
(***************************************************************************)
EXTENDS Naturals, FiniteSets, Sequences

CONSTANTS
  Key,          \* history keys, one per conversation
  Msg,          \* message ids, numbered in the order they arrive
  KeyOf,        \* KeyOf[m]: the conversation of m
  Shard,        \* row ids of history_shards
  Limit,        \* the historyLimit of the scenes
  Cap,          \* the rows a save keeps of a conversation: max(50, 1.2 * Limit)
  MaxAttempts,  \* HISTORY_SHARD_MAX_ATTEMPTS
  MaxLoads, MaxStops, MaxCrashes,    \* bounds: starts, stops, crashes
  MaxTroubles,                       \* bound: all of the following together
  MaxFails, MaxStalls, MaxDbErrors,  \* bounds: uploads that throw, leases that
                                     \* expire under an upload, failed creates
  NoShard, NoOwner, NotLoading

ASSUME HistoryAssumption ==
  /\ Msg \subseteq Nat /\ IsFiniteSet(Msg)
  /\ KeyOf \in [Msg -> Key]
  /\ Shard \subseteq Nat \ {0} /\ IsFiniteSet(Shard)
  /\ MaxAttempts # 0
  /\ 2 <= Limit /\ Limit <= Cap
  /\ {Limit, Cap, MaxAttempts, MaxLoads, MaxStops, MaxCrashes, MaxTroubles,
     MaxFails, MaxStalls, MaxDbErrors} \subseteq Nat

VARIABLES
  window,    \* conversationHistories and outboundReplayCache: pending messages
  version,   \* conversationHistoryVersions
  chain,     \* bncrConversationHistoryChains: the tasks of each conversation
  owner,     \* bncrConversationHistorySerialOwner: <<bridge, generation>>
  worker,    \* the shard worker's timer runs
  ticking,   \* historyShardWorkerRunning
  open,      \* the SQLite lifecycle is open
  loading,   \* the skip list of a loadState under way, or NotLoading
  flushes,   \* forced flushes not yet in their chain: the conversation, the
             \* version and the reply that asked for each
  db,        \* SQLite: the rows no shard holds (active), the tombstones
             \* (consumed) and the shards with the rows they hold
  loads, stops, crashes, fails, stalls, dbErrors,  \* for the bounds
  \* History, read by no action: the messages seen, those that ever had a
  \* row, those the host accepted once and again, and those whose second
  \* upload has a cause outside the queue's promise.
  used, saved, sent, resent, excused

memVars == <<window, version, flushes>>
taskVars == <<chain, owner, worker, ticking>>
lifeVars == <<open, loading, loads, stops, crashes>>
faultVars == <<fails, stalls, dbErrors>>
ghostVars == <<used, saved, sent, resent, excused>>
vars == <<memVars, taskVars, lifeVars, db, faultVars, ghostVars>>

(* Bound of the model: another start, stop, crash or failure may come.     *)
Calm == loads + stops + crashes + fails + stalls + dbErrors < MaxTroubles

Bridge == 1..(MaxCrashes + 1)
Owner == Bridge \X (0..MaxLoads)
InFlight == {"claimed", "processing"}

ShardRow == [key : Key, ids : SUBSET Msg,
             status : {"queued", "claimed", "processing", "failed", "completed"},
             owner : Owner \cup {NoOwner}, attempts : 0..MaxAttempts,
             stale : BOOLEAN,    \* its lease has expired
             reply : Msg \cup {0},  \* the reply whose flush made it
             rows : SUBSET Msg]  \* the message rows that carry its id

(* pc: "queued" behind another task, "running" (slot taken, not begun),    *)
(* "reconcile" and "context" (awaits of a turn), "upload" (the host runs   *)
(* the turn), "settling" (the host is done, the dispatch still waits).     *)
(* msg is the message of a turn, the reply of a flush, or of the flush     *)
(* whose shard a worker uploads.                                           *)
Task == [kind : {"turn", "flush", "worker"},
         pc : {"queued", "running", "reconcile", "context", "upload", "settling"},
         msg : Msg \cup {0}, send : BOOLEAN, version : Nat,
         owner : Owner, abandoned : BOOLEAN,
         shard : Shard \cup {0}, snap : SUBSET Msg]

ASSUME ShardAssumption == NoShard \notin ShardRow

ActiveKeys == {k \in Key : chain[k] # <<>>}
Of(k) == {m \in Msg : KeyOf[m] = k}
Smallest(S) == CHOOSE x \in S : \A y \in S : x <= y
Newer(S, m) == {x \in S : KeyOf[x] = KeyOf[m] /\ x > m}
Live(d) == {s \in Shard : d.shards[s] # NoShard}
Rows(d, S) == UNION {d.shards[s].rows : s \in S}
HeldRows(d) == Rows(d, Live(d))

TypeOK ==
  /\ window \subseteq Msg
  /\ version \in [Key -> Nat]
  /\ chain \in [Key -> Seq(Task)]
  /\ owner \in Owner
  /\ {worker, ticking, open} \subseteq BOOLEAN
  /\ loading \in {NotLoading} \cup SUBSET Key
  /\ flushes \subseteq Key \X Nat \X Msg
  /\ DOMAIN db = {"active", "consumed", "shards"}
  /\ db.active \subseteq Msg /\ db.consumed \subseteq Msg
  /\ DOMAIN db.shards = Shard
  /\ \A s \in Live(db) : db.shards[s] \in ShardRow
  /\ {loads, stops, crashes, fails, stalls, dbErrors} \subseteq Nat
  /\ used \subseteq Msg /\ saved \subseteq Msg
  /\ sent \subseteq Msg /\ resent \subseteq sent /\ excused \subseteq Msg

Init ==
  /\ window = {}
  /\ version = [k \in Key |-> 0]
  /\ chain = [k \in Key |-> <<>>]
  /\ owner = <<1, 0>>
  /\ worker = FALSE /\ ticking = FALSE
  /\ open = FALSE /\ loading = NotLoading
  /\ flushes = {}
  /\ db = [active |-> {}, consumed |-> {},
           shards |-> [s \in Shard |-> NoShard]]
  /\ loads = 0 /\ stops = 0 /\ crashes = 0
  /\ fails = 0 /\ stalls = 0 /\ dbErrors = 0
  /\ used = {} /\ saved = {} /\ sent = {} /\ resent = {} /\ excused = {}

-----------------------------------------------------------------------------
(* SQLite: what each transaction makes of the database.                    *)

(* The owner condition: shards of this bridge, of the legacy node, of none *)
Recoverable(o, own) == o = NoOwner \/ o[1] = own[1]

InFlightShards(d, skip, own) ==
  {s \in Live(d) : /\ d.shards[s].status \in InFlight
                   /\ d.shards[s].key \notin skip
                   /\ Recoverable(d.shards[s].owner, own)}

(* Mutant of StaleShards: a lease that has not run out is not respected. *)
LeaseIgnored(d, skip, own) == InFlightShards(d, skip, own)

StaleShards(d, skip, own) ==
  {s \in InFlightShards(d, skip, own) : d.shards[s].stale}

Completed(d) == {s \in Live(d) : d.shards[s].status = "completed"}

Terminal(d) == {s \in Live(d) : /\ d.shards[s].status = "failed"
                                /\ d.shards[s].attempts >= MaxAttempts}

(* The rows and the listed ids of shards: what their tombstones name.      *)
ConsumedBy(d, S) == UNION {d.shards[s].ids \cup d.shards[s].rows : s \in S}

Restored(d) == Rows(d, Terminal(d)) \ d.consumed

(* Mutant of Sweep: the rows of a completed shard lose their shard id and  *)
(* stay behind as active ones.                                             *)
RowsReleased(d, back, done, terminal) ==
  LET gone == d.consumed \cup ConsumedBy(d, done) IN
    [consumed |-> gone,
     active |-> d.active
                  \cup Rows(d, done \cup terminal),
     shards |-> [s \in Shard |->
       IF s \in done \cup terminal THEN NoShard
       ELSE IF s \in back
            THEN [d.shards[s] EXCEPT !.status = "queued", !.owner = NoOwner,
                                     !.stale = FALSE]
            ELSE d.shards[s]]]

(* Return the shards of back to the queue, replace those of done by        *)
(* tombstones and give the rows of terminal shards back to the window.     *)
Sweep(d, back, done, terminal) ==
  LET gone == d.consumed \cup ConsumedBy(d, done) IN
    [consumed |-> gone,
     active |-> (d.active \ ConsumedBy(d, done))
                  \cup (Rows(d, terminal) \ gone),
     shards |-> [s \in Shard |->
       IF s \in done \cup terminal THEN NoShard
       ELSE IF s \in back
            THEN [d.shards[s] EXCEPT !.status = "queued", !.owner = NoOwner,
                                     !.stale = FALSE]
            ELSE d.shards[s]]]

(* Mutant of RecoverInFlight: the conversations with tasks are not spared. *)
SkipDropped(d, skip, own) == Sweep(d, InFlightShards(d, {}, own), {}, {})

RecoverInFlight(d, skip, own) == Sweep(d, InFlightShards(d, skip, own), {}, {})

RestoreTerminal(d) == Sweep(d, {}, {}, Terminal(d))

LoadHistory(d, skip, own) ==
  Sweep(d, StaleShards(d, skip, own), Completed(d), Terminal(d))

(* replaceHistoryMessages: neither a row a shard holds nor a consumed one  *)
ReplaceMessages(d, messages) ==
  [d EXCEPT !.active = (messages \ d.consumed) \ HeldRows(d)]

(* The newest n messages of each conversation.                             *)
Latest(S, n) == {m \in S : Cardinality(Newer(S, m)) < n}

(* What is read from, merged into or written to a bucket keeps Cap rows.   *)
Capped(S) == Latest(S, Cap)

(* The optimistic revision cannot conflict inside one process.  The active *)
(* rows are replaced by the capped merge: an older row is gone.            *)
SaveMerged(d, skip, own) ==
  LET c == LoadHistory(d, skip, own) IN
    ReplaceMessages(c, Capped(c.active \cup window))

(* SQLite gives out the largest rowid plus one, so the id of a deleted     *)
(* last shard comes back.                                                  *)
NextShardId(d) == IF Live(d) = {} THEN 1
                  ELSE 1 + CHOOSE x \in Live(d) : \A y \in Live(d) : y <= x

ShardFor(d, k, ids) ==
  LET same == {s \in Live(d) : d.shards[s].key = k /\ d.shards[s].ids = ids}
  IN  IF same # {} THEN Smallest(same) ELSE NextShardId(d)

(* The shard of this snapshot, new or again, takes the active rows over.   *)
CreateShard(d, k, ids, s, reply) ==
  LET claimed == d.active \cap ids \cap Of(k) IN
    [active |-> d.active \ claimed,
     consumed |-> d.consumed,
     shards |-> [x \in Shard |->
       IF x # s THEN d.shards[x]
       ELSE IF s \in Live(d)
            THEN [d.shards[s] EXCEPT !.rows = @ \cup claimed]
            ELSE [key |-> k, ids |-> ids, status |-> "queued",
                  owner |-> NoOwner, attempts |-> 0, stale |-> FALSE,
                  reply |-> reply, rows |-> claimed]]]

MayProcess(d, s, own) ==
  /\ s \in Live(d)
  /\ d.shards[s].status \in {"queued", "failed", "claimed"}
  /\ \/ d.shards[s].owner \in {NoOwner, own}
     \/ d.shards[s].status \in {"queued", "failed"}

MarkProcessing(d, s, own) ==
  IF MayProcess(d, s, own)
  THEN [d EXCEPT !.shards[s].status = "processing", !.shards[s].owner = own,
                 !.shards[s].stale = FALSE]
  ELSE d

OwnedBy(d, s, own) == s \in Live(d) /\ d.shards[s].owner \in {NoOwner, own}

MarkFailed(d, s, own) ==
  IF OwnedBy(d, s, own) /\ d.shards[s].status \in InFlight \cup {"queued"}
  THEN [d EXCEPT !.shards[s].status = "failed", !.shards[s].owner = NoOwner,
                 !.shards[s].stale = FALSE, !.shards[s].attempts = @ + 1]
  ELSE d

MarkCompleted(d, s, own) ==
  IF OwnedBy(d, s, own) /\ d.shards[s].status = "processing"
  THEN [d EXCEPT !.shards[s].status = "completed", !.shards[s].owner = NoOwner,
                 !.shards[s].stale = FALSE]
  ELSE d

(* completeHistoryShard persists 'completed' before it deletes the shard.  *)
CompleteShard(d, s, own) ==
  LET c == MarkCompleted(d, s, own) IN
    IF OwnedBy(c, s, own) /\ c.shards[s].status \in {"processing", "completed"}
    THEN Sweep(c, {}, {s}, {})
    ELSE c

RenewLease(d, s, own) ==
  IF OwnedBy(d, s, own) /\ d.shards[s].status \in InFlight
  THEN [d EXCEPT !.shards[s].stale = FALSE]
  ELSE d

-----------------------------------------------------------------------------
(* The window and the serial chain.                                        *)

(* createChannelHistoryWindow().record keeps the latest Limit entries.     *)
Record(w, m) ==
  (w \ Of(KeyOf[m])) \cup Latest((w \cap Of(KeyOf[m])) \cup {m}, Limit)

(* What a turn settles: the whole window of its conversation.              *)
Snapshot(w, k) == w \cap Of(k)

(* Mutant of Entries: the oldest entries are kept instead of the newest. *)
OldestKept(snap, reply) ==
  {m \in snap : Cardinality({x \in snap : x < m}) < Limit}

(* What it carries to the host: the newest Limit messages of the snapshot; *)
(* the reply that asked for a flush takes the place of the oldest of them  *)
(* when others came while the flush waited.                                *)
Entries(snap, reply) ==
  IF reply \in snap \ Latest(snap, Limit)
  THEN Latest(snap, Limit - 1) \cup {reply}
  ELSE Latest(snap, Limit)

Reply(t) == IF t.kind = "turn" THEN 0 ELSE t.msg

(* The messages of a snapshot leave the window.                            *)
Forget(w, snap) == w \ snap

(* The window read back from the active rows.                              *)
FromRows(d) == Capped(d.active)

Overflows(w, k) == Cardinality(w \cap Of(k)) >= Limit

Busy(k) == chain[k] # <<>>
At(k, pc) == Busy(k) /\ Head(chain[k]).pc = pc
Uploading(k) == At(k, "upload") \/ At(k, "settling")

(* isAbandoned: cleared by a restart, or owned by an earlier start.        *)
Abandoned(k) == Head(chain[k]).abandoned \/ Head(chain[k]).owner # owner

NewTask(kind, k, m, send, v) ==
  [kind |-> kind, pc |-> IF Busy(k) THEN "queued" ELSE "running",
   msg |-> m, send |-> send, version |-> v, owner |-> owner,
   abandoned |-> FALSE, shard |-> 0, snap |-> {}]

Enqueue(k, t) == chain' = [chain EXCEPT ![k] = Append(@, t)]
SetHead(k, t) == chain' = [chain EXCEPT ![k] = <<t>> \o Tail(@)]
Release(k) == chain' = [chain EXCEPT ![k] = Tail(@)]

(* Commit d; note the messages it makes durable, and the uploads under way *)
(* in this process whose expired lease it returns to the queue.            *)
Commit(d, causes) ==
  LET lost == {s \in Live(db) : /\ db.shards[s].status \in InFlight
                                /\ db.shards[s].stale
                                /\ s \in Live(d)
                                /\ d.shards[s].status = "queued"}
      mine == {k \in Key : Uploading(k) /\ Head(chain[k]).shard \in lost}
  IN  /\ db' = d
      /\ saved' = saved \cup d.active \cup HeldRows(d)
      /\ excused' = excused \cup causes \cup UNION {Head(chain[k]).snap : k \in mine}

-----------------------------------------------------------------------------
(* Messages and turns.                                                     *)

(* Messages arrive in the order of their numbers.                          *)
Arrives(m) == m \notin used /\ \A x \in Msg : x < m => x \in used

(* An accepted inbound message; send: the turn may be answered.            *)
Inbound(m, send) ==
  /\ Arrives(m)
  /\ used' = used \cup {m}
  /\ Enqueue(KeyOf[m], NewTask("turn", KeyOf[m], m, send, 0))
  /\ UNCHANGED <<memVars, owner, worker, ticking, lifeVars, db, faultVars,
                 saved, sent, resent, excused>>

(* A reply of the bot, pushed or acknowledged, enters the window; a full   *)
(* window asks for a forced flush of what it holds at this version.        *)
BotReply(m) ==
  LET k == KeyOf[m] IN
    /\ Arrives(m)
    /\ used' = used \cup {m}
    /\ window' = Record(window, m)
    /\ version' = [version EXCEPT ![k] = @ + 1]
    /\ flushes' = IF Overflows(window', k)
                  THEN flushes \cup {<<k, version'[k], m>>} ELSE flushes
    /\ UNCHANGED <<taskVars, lifeVars, db, faultVars, saved, sent, resent,
                   excused>>

(* The asynchronous flush reaches the serial chain.                        *)
QueueFlush(f) ==
  /\ f \in flushes
  /\ flushes' = flushes \ {f}
  /\ Enqueue(f[1], NewTask("flush", f[1], f[3], TRUE, f[2]))
  /\ UNCHANGED <<window, version, owner, worker, ticking, lifeVars, db,
                 faultVars, ghostVars>>

MayBegin(k) == At(k, "queued") \/ At(k, "running")

(* The slot of an entry abandoned before it began passes to the next one:  *)
(* the work is not done.  The worker's call returns as if it were.         *)
BeginAbandoned(k) ==
  /\ MayBegin(k)
  /\ Head(chain[k]).abandoned
  /\ Release(k)
  /\ UNCHANGED <<memVars, owner, worker, ticking, lifeVars, db, faultVars,
                 ghostVars>>

(* A flush asked for at an older version of the window is dropped.         *)
BeginFlush(k) ==
  LET t == Head(chain[k]) IN
    /\ MayBegin(k)
    /\ t.kind = "flush" /\ ~t.abandoned
    /\ IF t.version # version[k] THEN Release(k)
       ELSE SetHead(k, [t EXCEPT !.pc = "reconcile"])
    /\ UNCHANGED <<memVars, owner, worker, ticking, lifeVars, db, faultVars,
                   ghostVars>>

(* A turn records its message first; a full window turns a turn that is    *)
(* not to be answered into a silent flush.                                 *)
BeginTurn(k) ==
  LET t == Head(chain[k]) IN
    /\ MayBegin(k)
    /\ t.kind = "turn" /\ ~t.abandoned
    /\ window' = Record(window, t.msg)
    /\ version' = [version EXCEPT ![k] = @ + 1]
    /\ SetHead(k, [t EXCEPT !.pc = "reconcile",
                            !.send = @ \/ Overflows(window', k)])
    /\ UNCHANGED <<flushes, owner, worker, ticking, lifeVars, db, faultVars,
                   ghostVars>>

(* reconcileHistoryMemoryWithSqlite saves the windows and replaces them by *)
(* the active rows, then the turn takes its snapshot; a forced flush that  *)
(* finds nothing ends.  Without an open database there is nothing to do.   *)
Reconcile(k) ==
  LET t == Head(chain[k]) IN
    /\ At(k, "reconcile")
    /\ \E d \in {IF open THEN SaveMerged(db, {k}, owner) ELSE db} :
         /\ Commit(d, {})
         /\ window' = IF open THEN FromRows(d) ELSE window
    /\ IF t.kind = "flush" /\ Snapshot(window', k) = {} THEN Release(k)
       ELSE SetHead(k, [t EXCEPT !.pc = "context",
                          !.snap = IF t.send THEN Snapshot(window', k) ELSE {}])
    /\ UNCHANGED <<version, flushes, owner, worker, ticking, lifeVars,
                   faultVars, used, sent, resent>>

(* After the turn context is built: an abandoned turn ends unanswered, and *)
(* a turn that is not to be answered is only recorded with the session.    *)
EndUnsent(k) ==
  /\ At(k, "context")
  /\ Abandoned(k) \/ ~Head(chain[k]).send
  /\ Release(k)
  /\ UNCHANGED <<memVars, owner, worker, ticking, lifeVars, db, faultVars,
                 ghostVars>>

(* The shard takes the snapshot over from the window and the turn uploads  *)
(* it itself; a turn that cannot activate the shard leaves it to the       *)
(* worker and throws.                                                      *)
SendWithShard(k) ==
  LET t == Head(chain[k]) IN
    /\ At(k, "context")
    /\ ~Abandoned(k) /\ t.send /\ open
    /\ \E c \in {SaveMerged(db, {k}, owner)} :
         \E s \in {ShardFor(c, k, t.snap)} \cap Shard :
           \E d \in {CreateShard(c, k, t.snap, s, Reply(t))} :
             /\ Commit(MarkProcessing(d, s, t.owner), {})
             /\ IF MayProcess(d, s, t.owner)
                THEN SetHead(k, [t EXCEPT !.pc = "upload", !.shard = s])
                ELSE Release(k)
    /\ window' = Forget(window, t.snap)
    /\ UNCHANGED <<version, flushes, owner, worker, ticking, lifeVars,
                   faultVars, used, sent, resent>>

(* No shard: the database is closed, or the creation throws.  The snapshot *)
(* is uploaded all the same and its rows stay active.                      *)
SendWithoutShard(k) ==
  LET t == Head(chain[k]) IN
    /\ At(k, "context")
    /\ ~Abandoned(k) /\ t.send
    /\ open => Calm /\ dbErrors < MaxDbErrors
    /\ dbErrors' = IF open THEN dbErrors + 1 ELSE dbErrors
    /\ SetHead(k, [t EXCEPT !.pc = "upload"])
    /\ excused' = excused \cup t.snap
    /\ UNCHANGED <<memVars, owner, worker, ticking, lifeVars, db, fails,
                   stalls, used, saved, sent, resent>>

(* The host has taken the turn with the entries of its snapshot; the       *)
(* dispatch waits for the session to settle before it returns.             *)
HostAccepts(k) ==
  LET t == Head(chain[k]) IN
    /\ At(k, "upload")
    /\ sent' = sent \cup Entries(t.snap, Reply(t))
    /\ resent' = resent \cup (sent \cap Entries(t.snap, Reply(t)))
    /\ SetHead(k, [t EXCEPT !.pc = "settling"])
    /\ UNCHANGED <<memVars, owner, worker, ticking, lifeVars, db, faultVars,
                   used, saved, excused>>

(* The upload has ended well: the snapshot leaves the window, the shard    *)
(* and its rows are consumed.  broken: the cleanup transaction fails after *)
(* the shard was marked completed, or the process is killed between them.  *)
Settle(k, broken) ==
  LET t == Head(chain[k])
      d == IF t.shard = 0 \/ ~open THEN db
           ELSE IF broken THEN MarkCompleted(db, t.shard, t.owner)
           ELSE CompleteShard(MarkCompleted(db, t.shard, t.owner), t.shard,
                              t.owner)
  IN
    /\ At(k, "settling")
    /\ broken => Calm /\ dbErrors < MaxDbErrors
    /\ dbErrors' = IF broken THEN dbErrors + 1 ELSE dbErrors
    /\ Commit(d, IF open THEN {} ELSE t.snap)
    /\ window' = Forget(window, t.snap)
    /\ Release(k)
    /\ UNCHANGED <<version, flushes, owner, worker, ticking, lifeVars, fails,
                   stalls, used, sent, resent>>

(* The dispatch throws, before or after the host took the turn.  A shard   *)
(* out of attempts gives its messages back to the window.                  *)
UploadFails(k) ==
  LET t == Head(chain[k])
      marked == IF t.shard = 0 \/ ~open THEN db
                ELSE MarkFailed(db, t.shard, t.owner)
  IN
    /\ Uploading(k)
    /\ Calm /\ fails < MaxFails
    /\ fails' = fails + 1
    /\ Commit(RestoreTerminal(marked),
              IF t.pc = "settling" THEN t.snap ELSE {})
    /\ window' = Capped(window \cup Restored(marked))
    /\ ticking' = (ticking /\ t.kind # "worker")
    /\ Release(k)
    /\ UNCHANGED <<version, flushes, owner, worker, lifeVars, stalls,
                   dbErrors, used, sent, resent>>

-----------------------------------------------------------------------------
(* The shard worker.                                                       *)

WorkerTask == \E k \in Key : \E i \in 1..Len(chain[k]) :
                chain[k][i].kind = "worker"

(* Mutant of Claimable: a failed shard is never tried again. *)
NoRetry(d, due) ==
  {s \in Live(d) : /\ d.shards[s].key \notin ActiveKeys
                   /\ d.shards[s].status = "queued"}

(* due: the failed shards whose backoff has passed.                        *)
Claimable(d, due) ==
  {s \in Live(d) :
     /\ d.shards[s].key \notin ActiveKeys
     /\ d.shards[s].attempts < MaxAttempts
     /\ \/ d.shards[s].status = "queued"
        \/ d.shards[s].status = "failed" /\ s \in due}

Failed(d) == {s \in Live(d) : d.shards[s].status = "failed"}

TickDb == Sweep(db, StaleShards(db, ActiveKeys, owner), Completed(db), {})

(* The next iteration of a tick: a new one, or the loop of a running one.  *)
MayClaim == open /\ IF ticking THEN ~WorkerTask ELSE worker

(* Claim the oldest shard of an idle conversation and take its slot in the *)
(* serial chain, in one go.                                                *)
WorkerClaims(due) ==
  LET c == TickDb
      s == Smallest(Claimable(c, due))
      k == c.shards[s].key
  IN
    /\ MayClaim
    /\ Claimable(c, due) # {}
    /\ Commit([c EXCEPT !.shards[s].status = "claimed",
                        !.shards[s].owner = owner,
                        !.shards[s].stale = FALSE], {})
    /\ Enqueue(k, [NewTask("worker", k, c.shards[s].reply, TRUE, 0) EXCEPT
                     !.shard = s, !.snap = c.shards[s].ids])
    /\ ticking' = TRUE
    /\ UNCHANGED <<memVars, owner, worker, lifeVars, faultVars, used, sent,
                   resent>>

(* Nothing to claim, or the batch limit: the tick ends.                    *)
WorkerRests ==
  /\ ~WorkerTask
  /\ \/ MayClaim /\ Commit(TickDb, {})
     \/ ticking /\ Commit(db, {})
  /\ ticking' = FALSE
  /\ UNCHANGED <<memVars, chain, owner, worker, lifeVars, faultVars, used,
                 sent, resent>>

(* In its slot the worker activates the shard; when it has lost it, the    *)
(* call throws and the tick ends.                                          *)
BeginShard(k) ==
  LET t == Head(chain[k])
      mine == open /\ MayProcess(db, t.shard, t.owner)
  IN
    /\ MayBegin(k)
    /\ t.kind = "worker" /\ ~t.abandoned
    /\ IF mine
       THEN /\ Commit(MarkProcessing(db, t.shard, t.owner), {})
            /\ SetHead(k, [t EXCEPT !.pc = "upload"])
            /\ UNCHANGED ticking
       ELSE /\ Commit(db, {})
            /\ Release(k)
            /\ ticking' = FALSE
    /\ UNCHANGED <<memVars, owner, worker, lifeVars, faultVars, used, sent,
                   resent>>

(* The task that runs shard s renews its lease every minute.               *)
RunBy(s) == {k \in Key : /\ Busy(k) /\ Head(chain[k]).shard = s
                         /\ \/ Uploading(k)
                            \/ Head(chain[k]).kind = "worker"}

Renew(s) ==
  /\ open /\ s \in Live(db) /\ db.shards[s].stale
  /\ \E k \in RunBy(s) : Commit(RenewLease(db, s, Head(chain[k]).owner), {})
  /\ UNCHANGED <<memVars, taskVars, lifeVars, faultVars, used, sent, resent>>

(* A lease runs out: nobody renews it, or the process is suspended longer  *)
(* than the lease lasts.                                                   *)
LeaseExpires(s) ==
  /\ s \in Live(db)
  /\ db.shards[s].status \in InFlight /\ ~db.shards[s].stale
  /\ RunBy(s) # {} => Calm /\ stalls < MaxStalls
  /\ stalls' = IF RunBy(s) # {} THEN stalls + 1 ELSE stalls
  /\ Commit([db EXCEPT !.shards[s].stale = TRUE], {})
  /\ UNCHANGED <<memVars, taskVars, lifeVars, fails, dbErrors, used, sent,
                 resent>>

-----------------------------------------------------------------------------
(* Saves, starts, stops and crashes.                                       *)

(* The debounced save.                                                     *)
FlushState ==
  /\ open
  /\ Commit(SaveMerged(db, ActiveKeys, owner), {})
  /\ UNCHANGED <<memVars, taskVars, lifeVars, faultVars, used, sent, resent>>

(* stopService: the worker's timer stops, the state is flushed and the     *)
(* database closed.  Tasks that run go on.                                 *)
Stop ==
  /\ Calm /\ stops < MaxStops /\ open /\ loading = NotLoading
  /\ stops' = stops + 1
  /\ worker' = FALSE
  /\ open' = FALSE
  /\ Commit(SaveMerged(db, ActiveKeys, owner), {})
  /\ UNCHANGED <<memVars, chain, owner, ticking, loading, loads, crashes,
                 faultVars, used, sent, resent>>

(* A start, also of a running service.  The new owner takes over the tasks *)
(* that wait; those that have begun are abandoned but keep their place.    *)
(* The shards in flight whose conversation has no task go back to the      *)
(* queue.                                                                  *)
NewOwner == <<owner[1], loads + 1>>

ClearLocks(c) ==
  [i \in 1..Len(c) |-> IF c[i].pc = "queued"
                       THEN [c[i] EXCEPT !.owner = NewOwner]
                       ELSE [c[i] EXCEPT !.abandoned = TRUE]]

LoadBegins ==
  /\ Calm /\ loads < MaxLoads /\ loading = NotLoading
  /\ loads' = loads + 1
  /\ open' = TRUE
  /\ worker' = FALSE
  /\ owner' = NewOwner
  /\ chain' = [k \in Key |-> ClearLocks(chain[k])]
  /\ loading' = ActiveKeys
  /\ Commit(RecoverInFlight(db, ActiveKeys, NewOwner), {})
  /\ UNCHANGED <<memVars, ticking, stops, crashes, faultVars, used, sent,
                 resent>>

(* After the files are read: the window becomes what the database holds.   *)
LoadEnds ==
  LET d == LoadHistory(db, loading, owner) IN
    /\ loading # NotLoading
    /\ loading' = NotLoading
    /\ worker' = TRUE
    /\ Commit(d, {})
    /\ window' = FromRows(d)
    /\ version' = [k \in Key |-> 0]
    /\ UNCHANGED <<flushes, chain, owner, ticking, open, loads, stops,
                   crashes, faultVars, used, sent, resent>>

(* The process dies; the next one is a new bridge.                         *)
Crash ==
  /\ Calm /\ crashes < MaxCrashes
  /\ crashes' = crashes + 1
  /\ window' = {} /\ version' = [k \in Key |-> 0] /\ flushes' = {}
  /\ chain' = [k \in Key |-> <<>>]
  /\ owner' = <<owner[1] + 1, 0>>
  /\ worker' = FALSE /\ ticking' = FALSE
  /\ open' = FALSE /\ loading' = NotLoading
  /\ Commit(db, UNION {Head(chain[k]).snap : k \in {j \in Key : At(j, "settling")}})
  /\ UNCHANGED <<loads, stops, faultVars, used, sent, resent>>

(* What the task at the head of a chain does next, short of failing.       *)
TaskStep(k) ==
  \/ BeginAbandoned(k) \/ BeginFlush(k) \/ BeginTurn(k) \/ BeginShard(k)
  \/ Reconcile(k) \/ EndUnsent(k)
  \/ SendWithShard(k) \/ SendWithoutShard(k)
  \/ HostAccepts(k)
  \/ \E broken \in BOOLEAN : Settle(k, broken)

System ==
  \/ \E f \in flushes : QueueFlush(f)
  \/ \E k \in Key : TaskStep(k) \/ UploadFails(k)
  \/ \E due \in SUBSET Failed(db) : WorkerClaims(due)
  \/ WorkerRests
  \/ \E s \in Shard : Renew(s) \/ LeaseExpires(s)
  \/ FlushState
  \/ LoadEnds

Environment ==
  \/ \E m \in Msg : BotReply(m) \/ \E send \in BOOLEAN : Inbound(m, send)
  \/ Stop \/ LoadBegins \/ Crash

Next == System \/ Environment

Spec == Init /\ [][Next]_vars

(* A task always gets on, the host always answers an upload in the end,    *)
(* the worker's timer fires, a lease nobody renews runs out and a start    *)
(* comes to its end.  Nothing makes a message, a stop or a start happen.   *)
Fairness ==
  /\ \A k \in Key : WF_vars(TaskStep(k))
  /\ WF_vars(\E due \in SUBSET Failed(db) : WorkerClaims(due))
  /\ WF_vars(WorkerRests)
  /\ \A s \in Shard : WF_vars(LeaseExpires(s))
  /\ WF_vars(LoadEnds)

FairSpec == Spec /\ Fairness

-----------------------------------------------------------------------------
(* Properties.                                                             *)

(* What the database still has, or the host got.                           *)
Kept == db.active \cup HeldRows(db) \cup sent

(* A message that reached the database is never lost, whatever fails: it   *)
(* is active, held by a shard, or the host has accepted an upload with it. *)
(* The exception is the code's: a turn carries Limit messages of its       *)
(* snapshot but consumes the whole, and a save keeps Cap rows.  What they  *)
(* leave behind is old: of a message that is gone unsent, Limit - 1 newer  *)
(* ones of its conversation are kept (the place of one more may go to the  *)
(* reply that asked for the flush, which may be older).                    *)
DurableUntilSent ==
  \A m \in saved : m \in Kept \/ Cardinality(Newer(Kept, m)) >= Limit - 1

(* A message is uploaded to the host a second time only for a reason that  *)
(* no record in the database could exclude: an upload without a shard, one *)
(* that threw after the host took it, one that ended while the store was   *)
(* closed or the process died, or a lease that ran out under the upload.   *)
SentOnce == resent \subseteq excused

(* What was consumed stays consumed: it is in no window, no active row and *)
(* no shard, so that no later turn or restart can send it again.           *)
ConsumedStaysConsumed ==
  db.consumed \cap (window \cup db.active \cup HeldRows(db)) = {}

(* A hot restart must not return a shard to the queue whose old task is    *)
(* still uploading in this process.                                        *)
RestartSparesUploads ==
  [][LoadBegins => \A k \in Key : (Uploading(k) /\ Head(chain[k]).shard # 0) =>
        db'.shards[Head(chain[k]).shard] = db.shards[Head(chain[k]).shard]]_vars

(* With the worker running, a shard settles: it is uploaded or its         *)
(* messages return to the window.  Excluded: shards a dead process owned.  *)
Orphaned(s) == ~Recoverable(db.shards[s].owner, owner)
ShardSettles ==
  \A s \in Shard : (s \in Live(db)) ~> \/ s \notin Live(db)
                                       \/ ~worker \/ Orphaned(s)

(* channel.ts: "Normal process restarts have no active keys and therefore  *)
(* recover every in-flight shard."                                         *)
RestartRecoversAll ==
  [][LoadBegins /\ ActiveKeys = {} =>
       \A s \in Live(db') : db'.shards[s].status \notin InFlight]_vars
=============================================================================
