----------------------- MODULE ProactiveDaemonHistory -----------------------
(***************************************************************************)
(* ProactiveDaemon with the history of its overlaps.  Cron, the watcher    *)
(* and the command line start ticks without a lock, and a tick that runs   *)
(* beside others may repeat what they say and overwrite what they saved.   *)
(* How far such damage goes is said here: whom each tick ran beside, and   *)
(* whether the state file was ever open in two ticks at once, or open in   *)
(* one that ended with its process.                                        *)
(***************************************************************************)
EXTENDS ProactiveDaemon

VARIABLES
    met,      \* per tick: the ticks that were under way together with it
    clashed   \* the file was opened beside a writer, or a writer cut off

history == <<met, clashed>>
hvars   == <<vars, met, clashed>>

HistoryTypeOK == met \in [Ticks -> SUBSET Ticks] /\ clashed \in BOOLEAN

HInit == Init /\ met = [t \in Ticks |-> {}] /\ clashed = FALSE

Writing == {t \in Ticks : pc[t] = "writing"}

(* What a step of the engine makes of the history.                         *)
Records ==
    /\ met' = [t \in Ticks |->
                 IF t \in Active' THEN met[t] \cup (Active' \ {t}) ELSE met[t]]
    /\ clashed' = (\/ clashed
                   \/ \E t, u \in Writing' : t # u
                   \/ \E t \in Writing : pc'[t] = "dead")

HNext == Next /\ Records

HSpec == HInit /\ [][HNext]_hvars
-----------------------------------------------------------------------------
(* A tick that ran beside no other, and one that ran beside none of a later *)
(* date: for it, no state of another date replaces that of its own.        *)
Alone(t)     == met[t] = {}
NoneLater(t) == \A u \in met[t] : DateKey(now[u]) <= DateKey(now[t])

(* The ticks whose message was delivered and not lost, and their order.    *)
Charged      == {t \in Delivered : ~Lost(t)}
Before(a, b) == \E i, j \in DOMAIN sent : i < j /\ sent[i] = a /\ sent[j] = b

(* The limit of a date is exceeded by messages that were lost, and by those*)
(* of ticks that ran beside others: whatever overlapped, crashed or        *)
(* restarted before, a tick speaks only while fewer than MaxDaily messages *)
(* of its date came from ticks that ran alone.                             *)
LimitHeld ==
    \A b \in Charged : NoneLater(b) =>
        Cardinality({a \in Charged : Alone(a) /\ Before(a, b) /\ DateKey(now[a]) = DateKey(now[b])})
          < MaxDaily

(* The state file parses unless a tick is writing it: an exit for a failed *)
(* dispatch leaves it whole, and the next process can go on.  It takes two *)
(* ticks with the file open at once, or the end of a process that has it   *)
(* open, to leave it otherwise.                                            *)
WholeUnlessClashed ==
    ~clashed /\ Writing = {} => file.form \in {"missing", "ok"}

(* After a tick that ran beside no other has pinged the idle user, no tick *)
(* of that date pings again within the threshold, though ticks overlap.    *)
IdleSpaced ==
    \A a, b \in Charged :
        (/\ Before(a, b) /\ kind[a] = "idle_check" /\ kind[b] = "idle_check"
         /\ Alone(a) /\ NoneLater(b) /\ DateKey(now[a]) = DateKey(now[b]))
        => now[b] - now[a] >= IdleThreshold

(* A dry run leaves its subject in the state, without a word to the user;  *)
(* it may have done so after a and before b read the state.                *)
RehearsedSince(a, b) ==
    \E t \in Ticks : /\ owner[t] = "dry-run" /\ kind[t] = kind[a] /\ now[t] >= now[a]
                     /\ now[t] <= now[b] \/ t \in met[b]

(* What a tick that ran beside no other followed up is not followed up     *)
(* again right after: a topic not even across a change of date, a calendar *)
(* window within its date.  Dry runs in between aside.                     *)
FollowUpsNew ==
    \A a, b \in Charged :
        (/\ Before(a, b) /\ kind[a] = kind[b] /\ kind[a] \in {"calendar_event", "topic_followup"}
         /\ \A c \in Charged : Before(a, c) /\ Before(c, b) => kind[c] # kind[a]
         /\ kind[a] = "calendar_event" => DateKey(now[a]) = DateKey(now[b]) /\ NoneLater(b)
         /\ Alone(a) /\ ~RehearsedSince(a, b))
        => subj[a] # subj[b]
=============================================================================
