---------------------------- MODULE GlobalStorage ----------------------------
(***************************************************************************)
(* packages/ui/storage/global-storage.ts: the key-value store of the UI    *)
(* server, one key of it (keys do not interact).  A row in SQLite, in      *)
(* front of it a cache entry in Redis or, without Redis, in the process.   *)
(* SQLite is called synchronously; a command to Redis is awaited, so calls *)
(* interleave at those awaits only.  Redis answers one connection in the   *)
(* order of its commands.                                                  *)
(*                                                                         *)
(* A value is named by the call that set it.  The disaster backup and the  *)
(* runtime logs are written by these calls and read by none: left out.     *)
(***************************************************************************)
EXTENDS Integers, Sequences

CONSTANTS Setters, Getters,  \* calls of setKv and of getKv
          Ttl,               \* ttlSec, in ticks of the clock
          Delay,             \* ticks within which Redis answers or fails
          Horizon,           \* bound on the clock
          MaxUpsets          \* bound on pings, evictions and restarts together

ASSUME StorageAssumption ==
    /\ Setters \cap Getters = {} /\ "none" \notin Setters
    /\ "status" \notin Setters \cup Getters
    /\ {Ttl, Delay} \subseteq Nat \ {0}
    /\ {Horizon, MaxUpsets} \subseteq Nat

VARIABLES
    clock,
    connecting,  \* initRedis is under way
    cacheMode,   \* "redis" or "memory"
    open,        \* SQLite could be opened
    row,         \* the row of the key
    memory,      \* the entry of memoryCache
    redis,       \* the entry in Redis
    wire,        \* commands Redis has not executed yet, in order
    replies,     \* its replies this process has not seen yet, in order
    pc,          \* per call: the await it has reached
    began,       \* per getKv: when it began
    answer,      \* per getKv: its result
    replaced,    \* per value: when it stopped being current
    upsets       \* pings, evictions and restarts so far

store  == <<row, memory, redis>>
vars   == <<clock, connecting, cacheMode, open, store, wire, replies, pc, began,
            answer, replaced, upsets>>

Calls  == Setters \cup Getters
Values == Setters \cup {"none"}
Times  == 0..Horizon
Never  == -1

Entry(v, t) == [value |-> v, expiresAt |-> t]
NoEntry     == Entry("none", 0)
Entries     == [value : Values, expiresAt : 0..(Horizon + Ttl)]
Commands    == [op : {"set", "get", "ping"}, call : Calls \cup {"status"},
                value : Values, at : Times]
Replies     == [op : {"set", "get", "ping"}, call : Calls \cup {"status"},
                value : Values, at : Times, ok : BOOLEAN]

TypeOK ==
    /\ clock \in Times
    /\ connecting \in BOOLEAN /\ cacheMode \in {"redis", "memory"} /\ open \in BOOLEAN
    /\ row \in Values /\ memory \in Entries /\ redis \in Entries
    /\ wire \in Seq(Commands) /\ replies \in Seq(Replies)
    /\ pc \in [Calls -> {"idle", "setting", "getting", "filling", "done"}]
    /\ \A s \in Setters : pc[s] \notin {"getting", "filling"}
    /\ \A g \in Getters : pc[g] # "setting"
    /\ began \in [Getters -> Times]
    /\ answer \in [Getters -> Values]
    /\ replaced \in [Setters -> Times \cup {Never}]
    /\ upsets \in 0..MaxUpsets

(* init: SQLite opens or not, Redis is configured or not.                  *)
Init ==
    /\ clock = 0
    /\ connecting \in BOOLEAN /\ cacheMode = "memory" /\ open \in BOOLEAN
    /\ row = "none" /\ memory = NoEntry /\ redis = NoEntry
    /\ wire = <<>> /\ replies = <<>>
    /\ pc = [c \in Calls |-> "idle"]
    /\ began = [g \in Getters |-> 0]
    /\ answer = [g \in Getters |-> "none"]
    /\ replaced = [s \in Setters |-> Never]
    /\ upsets = 0
-----------------------------------------------------------------------------
(* One upset more, within the bound.                                       *)
Upset == upsets < MaxUpsets /\ upsets' = upsets + 1

Goes(c, p) == pc' = [pc EXCEPT ![c] = p]

(* What cleanMemoryCache leaves of the entry; the slip never cleans.       *)
Kept == memory.value
Live == IF memory.expiresAt > clock THEN memory.value ELSE "none"

(* An entry written now.                                                   *)
Fresh(v) == Entry(v, clock + Ttl)

(* A command to Redis; nothing else happens before its reply.              *)
Sends(op, c, v) ==
    /\ cacheMode = "redis"
    /\ wire' = Append(wire, [op |-> op, call |-> c, value |-> v, at |-> clock])
    /\ UNCHANGED <<row, memory>>

(* The end of setKv: the row is written, if the database is open.  An      *)
(* error of the statement is logged and the call succeeds all the same.    *)
WriteRow(s) ==
    /\ Goes(s, "done")
    /\ (open /\ row' = s) \/ UNCHANGED row

(* setKv, up to the reply of Redis; without Redis up to its end.           *)
SetKv(s) ==
    /\ pc[s] = "idle"
    /\ \/ Sends("set", s, s) /\ Goes(s, "setting")
       \/ cacheMode = "memory" /\ memory' = Fresh(s) /\ WriteRow(s) /\ UNCHANGED wire
    /\ UNCHANGED <<clock, connecting, cacheMode, open, redis, replies, began, answer, upsets>>

Answers(g, v) == Goes(g, "done") /\ answer' = [answer EXCEPT ![g] = v]

(* getKv has the row it fills the cache with, and awaits that.             *)
Fill(g) ==
    \/ Sends("set", g, row) /\ Goes(g, "filling") /\ UNCHANGED answer
    \/ cacheMode = "memory" /\ memory' = Fresh(row) /\ Answers(g, row) /\ UNCHANGED <<row, wire>>

(* getKv goes on without Redis: the entry in memory, else the row.  A      *)
(* statement that throws is answered null.  The slip prolongs the entry    *)
(* it has found.                                                           *)
HitProlongs(g) == /\ Live # "none" /\ Answers(g, Live)
                  /\ memory' = Fresh(Live) /\ UNCHANGED <<row, wire>>
Hit(g)  == /\ Live # "none" /\ Answers(g, Live)
           /\ UNCHANGED <<row, memory, wire>>
Miss(g) == /\ Live = "none"
           /\ \/ open /\ row # "none" /\ Fill(g)
              \/ Answers(g, "none") /\ UNCHANGED <<row, memory, wire>>
FromMemory(g) == Hit(g) \/ Miss(g)

GetKv(g) ==
    /\ pc[g] = "idle"
    /\ began' = [began EXCEPT ![g] = clock]
    /\ \/ Sends("get", g, "none") /\ Goes(g, "getting") /\ UNCHANGED answer
       \/ cacheMode = "memory" /\ FromMemory(g)
    /\ UNCHANGED <<clock, connecting, cacheMode, open, redis, replies, upsets>>

(* getStatus pings Redis.                                                  *)
GetStatus ==
    /\ Upset
    /\ Sends("ping", "status", "none")
    /\ UNCHANGED <<clock, connecting, cacheMode, open, redis, replies, pc,
                   began, answer>>
-----------------------------------------------------------------------------
(* The reply to a SET.  A failed one puts the value into memory; then      *)
(* setKv writes the row, and getKv answers with what it had read.          *)
SetReturns(r) ==
    /\ r.op = "set"
    /\ memory' = IF r.ok THEN memory ELSE Fresh(r.value)
    /\ \/ pc[r.call] = "setting" /\ WriteRow(r.call) /\ UNCHANGED answer
       \/ pc[r.call] = "filling" /\ Answers(r.call, r.value) /\ UNCHANGED row
    /\ UNCHANGED <<cacheMode, wire>>

(* The reply to a GET: a failed one, or none found, falls back on memory.  *)
GetReturns(r) ==
    /\ r.op = "get"
    /\ \/ r.ok /\ r.value # "none" /\ Answers(r.call, r.value)
          /\ UNCHANGED <<row, memory, wire>>
       \/ (r.ok => r.value = "none") /\ FromMemory(r.call)
    /\ UNCHANGED cacheMode

(* checkRedisStatus: a failed ping gives Redis up for good.                *)
PingReturns(r) ==
    /\ r.op = "ping"
    /\ cacheMode' = IF r.ok THEN cacheMode ELSE "memory"
    /\ UNCHANGED <<row, memory, wire, pc, answer>>

Reply ==
    /\ replies # <<>> /\ replies' = Tail(replies)
    /\ SetReturns(Head(replies)) \/ GetReturns(Head(replies)) \/ PingReturns(Head(replies))
    /\ UNCHANGED <<clock, connecting, open, redis, began, upsets>>

(* initRedis ends: connected, or given up after its timeout.               *)
InitRedis(mode) ==
    /\ connecting /\ connecting' = FALSE
    /\ cacheMode' = mode
    /\ UNCHANGED <<clock, open, store, wire, replies, pc, began, answer, upsets>>

(* What Redis makes of a command; the slip forgets EX, the time to live.   *)
ExecutedForGood(cmd) == IF cmd.op = "set" THEN Entry(cmd.value, Horizon + Ttl + 1) ELSE redis
Executed(cmd) == IF cmd.op = "set" THEN Fresh(cmd.value) ELSE redis
ReplyTo(cmd, ok) == [op |-> cmd.op, call |-> cmd.call, at |-> cmd.at, ok |-> ok,
                     value |-> IF cmd.op = "get" THEN redis.value ELSE cmd.value]

(* Redis executes the next command, or fails it before or after that.      *)
RedisAnswers(ok) ==
    /\ wire # <<>> /\ wire' = Tail(wire)
    /\ redis' = Executed(Head(wire)) \/ (~ok /\ UNCHANGED redis)
    /\ replies' = Append(replies, ReplyTo(Head(wire), ok))
    /\ UNCHANGED <<clock, connecting, cacheMode, open, row, memory, pc, began, answer, upsets>>

(* Redis evicts the entry, or loses it with its own process.               *)
RedisEvicts ==
    /\ Upset
    /\ redis # NoEntry /\ redis' = NoEntry
    /\ UNCHANGED <<clock, connecting, cacheMode, open, row, memory, wire, replies,
                   pc, began, answer>>

(* The server is restarted: the memory and the calls under way are gone,   *)
(* Redis still executes some of the commands sent to it.                   *)
Restart ==
    /\ Upset
    /\ \/ UNCHANGED redis
       \/ \E i \in DOMAIN wire : wire[i].op = "set" /\ redis' = Fresh(wire[i].value)
    /\ memory' = NoEntry /\ wire' = <<>> /\ replies' = <<>>
    /\ connecting' \in BOOLEAN /\ cacheMode' = "memory" /\ open' \in BOOLEAN
    /\ pc' = [c \in Calls |-> IF pc[c] = "idle" THEN "idle" ELSE "done"]
    /\ UNCHANGED <<clock, row, began, answer>>

(* No command waits longer than Delay; Redis drops an expired entry.       *)
Prompt(queue) == \A i \in DOMAIN queue : clock < queue[i].at + Delay
Tick ==
    /\ clock < Horizon /\ clock' = clock + 1
    /\ Prompt(wire) /\ Prompt(replies)
    /\ redis' = IF redis.expiresAt > clock' THEN redis ELSE NoEntry
    /\ UNCHANGED <<connecting, cacheMode, open, row, memory, wire, replies, pc,
                   began, answer, upsets>>

(* A value is current while the call that sets it is under way and as long *)
(* as it is the row; its history is kept for the properties.               *)
Current(s) == row = s \/ pc[s] = "setting"
History ==
    replaced' = [s \in Setters |->
        IF Current(s)' THEN Never
        ELSE IF Current(s) \/ (pc[s] = "idle" /\ pc'[s] # "idle") THEN clock
        ELSE replaced[s]]

Next == /\ \/ \E s \in Setters : SetKv(s)
           \/ \E g \in Getters : GetKv(g)
           \/ \E mode \in {"redis", "memory"} : InitRedis(mode)
           \/ \E ok \in BOOLEAN : RedisAnswers(ok)
           \/ GetStatus \/ Reply \/ RedisEvicts \/ Restart \/ Tick
        /\ History

Spec == Init /\ [][Next]_vars
-----------------------------------------------------------------------------
(* A value that has been replaced is gone from both caches once its time   *)
(* to live, and the delay of a command that was on its way, have passed:   *)
(* however a fill of getKv crosses a setKv, Redis fails, or the server     *)
(* falls back on its memory, nothing renews what the row no longer holds.  *)
Expired(v) == v # "none" /\ replaced[v] # Never /\ clock >= replaced[v] + Ttl + Delay
CacheExpires == ~Expired(Live) /\ ~Expired(redis.value)

(* So no getKv answers with a value that was replaced that long before the *)
(* call began.                                                             *)
AnswersRecent ==
    \A g \in Getters :
        (answer[g] # "none" /\ replaced[answer[g]] # Never) =>
            began[g] < replaced[answer[g]] + Ttl + Delay
=============================================================================
