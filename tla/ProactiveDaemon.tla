--------------------------- MODULE ProactiveDaemon ---------------------------
(***************************************************************************)
(* scripts/runtime/proactive_daemon.mjs: the engine that sends messages to *)
(* the user unasked.  A cron job, a change in the watched workspace or the *)
(* command line starts a tick; a tick reads the state file, decides, has   *)
(* proactive_dispatcher.mjs send the message in a process of its own, and  *)
(* rewrites the state file.  Nothing keeps ticks apart: their awaits       *)
(* interleave, and a tick whose dispatcher failed ends the whole process.  *)
(*                                                                         *)
(* Time is counted in slots, DayLen of them to a day of UTC.  The clock    *)
(* that getHours() reads is HostOffset slots ahead of UTC, that of the     *)
(* user UserOffset slots.                                                  *)
(***************************************************************************)
EXTENDS Naturals, Sequences, FiniteSets

CONSTANTS Ticks,          \* tick identifiers, however many
          Owners,         \* who may start one: "daemon", "cli", "dry-run"
          Kinds,          \* the triggers that may start one
          Subjects,       \* calendar windows and topics, besides "none"
          DayLen, HostOffset, UserOffset,
          QuietStart, QuietEnd,   \* limits.quiet_hours_start and _end
          IdleThreshold,  \* limits.idle_threshold_hours
          MaxDaily,       \* limits.max_daily_messages
          MaxInFlight,    \* ticks that may be under way at once
          Horizon,        \* bound on the clock
          MaxCrashes,     \* bound on deaths of the daemon from outside
          MaxLies         \* bound on dispatchers that deliver and exit with 1

ASSUME DaemonAssumption ==
    /\ IsFiniteSet(Ticks)
    /\ DayLen \in Nat \ {0} /\ {HostOffset, UserOffset, QuietStart, QuietEnd} \subseteq Nat
    /\ IdleThreshold \in Nat /\ MaxDaily \in Nat \ {0} /\ MaxInFlight \in Nat \ {0}
    /\ {Horizon, MaxCrashes, MaxLies} \subseteq Nat
    /\ Owners \subseteq {"daemon", "cli", "dry-run"}
    /\ "none" \notin Subjects

ASSUME KindsAssumption ==
    Kinds \subseteq {"scheduled", "observed", "idle_check", "calendar_event", "topic_followup"}

VARIABLES
    clock,   \* the present, in slots of UTC
    up,      \* the daemon runs
    file,    \* the state file
    pc,      \* per tick: the await it has reached
    owner, kind,  \* per tick: who started it, for which trigger
    now,     \* per tick: the time it took for the present
    mem,     \* per tick: its copy of the state
    subj,    \* per tick: the calendar window or topic it saw
    child,   \* per tick: its dispatcher process
    sent,    \* the ticks whose message was delivered, in that order
    crashes, lies

input == <<owner, kind, now>>
vars  == <<clock, up, file, pc, owner, kind, now, mem, subj, child, sent, crashes, lies>>

Never == 0   \* null, for a time; the clock starts at 1
Times == 0..Horizon

State == [date : Nat, count : Nat, interaction : Times, ping : Times,
          calendar : Subjects \cup {"none"}, topic : Subjects \cup {"none"}]

UnderWay == {"loading", "evaluating", "dispatching", "saving", "writing", "written"}
Active   == {t \in Ticks : pc[t] \in UnderWay}

(* defaultState, for a date key.                                           *)
DefaultState(d) == [date |-> d, count |-> 0, interaction |-> Never, ping |-> Never,
                    calendar |-> "none", topic |-> "none"]

(* An absent file, a truncated one, one with mixed-up text, or a state.    *)
NoFile    == [form |-> "missing", state |-> DefaultState(0)]
EmptyFile == [form |-> "empty", state |-> DefaultState(0)]
TornFile  == [form |-> "torn", state |-> DefaultState(0)]
Holds(s)  == [form |-> "ok", state |-> s]

(* The date key is the day of UTC: toISOString().slice(0, 10).             *)
DateKey(time) == time \div DayLen

TypeOK ==
    /\ clock \in 1..Horizon
    /\ up \in BOOLEAN
    /\ file.form \in {"missing", "empty", "torn", "ok"} /\ file.state \in State
    /\ pc \in [Ticks -> UnderWay \cup {"idle", "done", "failed", "dead"}]
    /\ owner \in [Ticks -> Owners \cup {"none"}]
    /\ kind \in [Ticks -> Kinds \cup {"none"}]
    /\ now \in [Ticks -> Times]
    /\ mem \in [Ticks -> State]
    /\ subj \in [Ticks -> Subjects \cup {"none"}]
    /\ child \in [Ticks -> {"none", "running", "delivered", "exit0", "exit1"}]
    /\ sent \in Seq(Ticks)
    /\ crashes \in 0..MaxCrashes /\ lies \in 0..MaxLies

(* The file may be there already, with the last interaction recorded.      *)
Init ==
    /\ clock \in 1..DayLen /\ clock <= Horizon
    /\ up = TRUE
    /\ file \in {NoFile, Holds([DefaultState(DateKey(clock)) EXCEPT !.interaction = clock])}
    /\ pc = [t \in Ticks |-> "idle"]
    /\ owner = [t \in Ticks |-> "none"] /\ kind = [t \in Ticks |-> "none"]
    /\ now = [t \in Ticks |-> Never]
    /\ mem = [t \in Ticks |-> DefaultState(0)]
    /\ subj = [t \in Ticks |-> "none"]
    /\ child = [t \in Ticks |-> "none"]
    /\ sent = <<>>
    /\ crashes = 0 /\ lies = 0
-----------------------------------------------------------------------------
(* isQuietHours: the interval may span midnight.                           *)
IsQuietHours(time, start, end) ==
    IF start <= end THEN time >= start /\ time < end
                    ELSE time >= start \/ time < end

Quiet(time, offset) == IsQuietHours((time + offset) % DayLen, QuietStart, QuietEnd)

(* What survives a change of date: the last interaction and the topic, not *)
(* the count, the idle ping and the calendar window.  The slip drops the   *)
(* topic.                                                                  *)
CarryInteraction(s, d) == [DefaultState(d) EXCEPT !.interaction = s.interaction]
CarryOver(s, d) == [DefaultState(d) EXCEPT !.interaction = s.interaction,
                                           !.topic = s.topic]

(* loadState.                                                              *)
Loaded(d) == CASE file.form = "missing"                       -> DefaultState(d)
               [] file.form = "ok" /\ file.state.date # d -> CarryOver(file.state, d)
               [] OTHER                                       -> file.state

(* The user has been silent long enough, and so has the engine.            *)
UserIdle(t) == mem[t].interaction # Never /\ now[t] - mem[t].interaction >= IdleThreshold
IdleReady(t) == /\ UserIdle(t)
                /\ mem[t].ping # Never => now[t] - mem[t].ping >= IdleThreshold

(* evaluateNamedTrigger, for what the tick saw of calendar or memory (s).  *)
(* "scheduled" stands for the four timed triggers and file_change, which   *)
(* are always due; "observed" for weather_change and emotion_support, due  *)
(* or not as the world outside has it.  A tick started with trigger auto   *)
(* is one with the trigger it ends up choosing.                            *)
Due(t, s) ==
    CASE kind[t] = "scheduled"      -> TRUE
      [] kind[t] = "observed"       -> TRUE
      [] kind[t] = "idle_check"     -> IdleReady(t)
      [] kind[t] = "calendar_event" -> s \notin {"none", mem[t].calendar}
      [] kind[t] = "topic_followup" -> s \notin {"none", mem[t].topic}

(* The rate limit; the slip is off by one.                                 *)
BeyondQuota(t) == mem[t].count <= MaxDaily
WithinQuota(t) == mem[t].count < MaxDaily

(* What a successful dispatch leaves in the state.  The slip of Charge     *)
(* charges a failed dispatch too.                                          *)
Remember(t) ==
    [mem[t] EXCEPT !.count = @ + 1,
                   !.ping = IF kind[t] = "idle_check" THEN now[t] ELSE @,
                   !.calendar = IF kind[t] = "calendar_event" THEN subj[t] ELSE @,
                   !.topic = IF kind[t] = "topic_followup" THEN subj[t] ELSE @]
ChargeAlways(t) == Remember(t)
Charge(t) == IF child[t] = "exit0" THEN Remember(t) ELSE mem[t]
-----------------------------------------------------------------------------
Goes(t, p) == pc' = [pc EXCEPT ![t] = p]

(* A tick starts: by cron or the watcher, or in a process of its own.  It  *)
(* has loaded its configuration and takes the time.                        *)
StartTick(t, o, k) ==
    /\ pc[t] = "idle" /\ (o = "daemon" => up)
    /\ Cardinality(Active) < MaxInFlight
    /\ owner' = [owner EXCEPT ![t] = o] /\ kind' = [kind EXCEPT ![t] = k]
    /\ now' = [now EXCEPT ![t] = clock]
    /\ Goes(t, "loading")
    /\ UNCHANGED <<clock, up, file, mem, subj, child, sent, crashes, lies>>

(* The state file is read.  Text that does not parse ends the tick.        *)
LoadState(t) ==
    /\ pc[t] = "loading"
    /\ \/ /\ file.form \in {"missing", "ok"}
          /\ mem' = [mem EXCEPT ![t] = Loaded(DateKey(now[t]))]
          /\ Goes(t, "evaluating")
       \/ /\ file.form \in {"empty", "torn"}
          /\ Goes(t, "failed") /\ UNCHANGED mem
    /\ UNCHANGED <<clock, up, file, input, subj, child, sent, crashes, lies>>

(* The triggers have been evaluated: the dispatcher is spawned, or the     *)
(* tick goes on to save the state as it loaded it.                         *)
Decide(t, s) ==
    /\ pc[t] = "evaluating"
    /\ s # "none" => kind[t] \in {"calendar_event", "topic_followup"}
    /\ subj' = [subj EXCEPT ![t] = s]
    /\ \/ /\ Due(t, s) /\ ~Quiet(now[t], HostOffset) /\ WithinQuota(t)
          /\ child' = [child EXCEPT ![t] = "running"]
          /\ Goes(t, "dispatching")
       \/ /\ \/ kind[t] = "observed" \/ ~Due(t, s)
             \/ Quiet(now[t], HostOffset) \/ ~WithinQuota(t)
          /\ Goes(t, "saving") /\ UNCHANGED child
    /\ UNCHANGED <<clock, up, file, input, mem, sent, crashes, lies>>

(* The dispatcher delivers the message.  It is a process of its own, which *)
(* outlives the tick that spawned it.                                      *)
Deliver(t) ==
    /\ child[t] = "running" /\ owner[t] # "dry-run"
    /\ child' = [child EXCEPT ![t] = "delivered"]
    /\ sent' = Append(sent, t)
    /\ UNCHANGED <<clock, up, file, pc, input, mem, subj, crashes, lies>>

(* The dispatcher exits with code 1 when it could not deliver, or when it  *)
(* failed after that (writing its log, say).  A dry run delivers nothing.  *)
ChildExits(t, code) ==
    /\ \/ code = "exit0" /\ child[t] = "delivered" /\ UNCHANGED lies
       \/ code = "exit0" /\ child[t] = "running" /\ owner[t] = "dry-run" /\ UNCHANGED lies
       \/ code = "exit1" /\ child[t] = "running" /\ UNCHANGED lies
       \/ code = "exit1" /\ child[t] = "delivered" /\ lies < MaxLies /\ lies' = lies + 1
    /\ child' = [child EXCEPT ![t] = code]
    /\ UNCHANGED <<clock, up, file, pc, input, mem, subj, sent, crashes>>

(* The tick hears of it.                                                   *)
DispatchEnds(t) ==
    /\ pc[t] = "dispatching" /\ child[t] \in {"exit0", "exit1"}
    /\ mem' = [mem EXCEPT ![t] = Charge(t)]
    /\ Goes(t, "saving")
    /\ UNCHANGED <<clock, up, file, input, subj, child, sent, crashes, lies>>

(* saveJson opens the file, which empties it, ...                          *)
OpenState(t) ==
    /\ pc[t] = "saving"
    /\ file' = EmptyFile
    /\ Goes(t, "writing")
    /\ UNCHANGED <<clock, up, input, mem, subj, child, sent, crashes, lies>>

(* ... and writes.  If another tick has written since, its text shows      *)
(* behind this one where it was longer.                                    *)
WriteState(t) ==
    /\ pc[t] = "writing"
    /\ \/ file' = Holds(mem[t])
       \/ file.form # "empty" /\ file.state # mem[t] /\ file' = TornFile
    /\ mem' = [mem EXCEPT ![t] = DefaultState(0)]   \* not used any more
    /\ Goes(t, "written")
    /\ UNCHANGED <<clock, up, input, subj, child, sent, crashes, lies>>

(* The ticks of the daemon that are under way when its process ends.  A    *)
(* state already written stays written.                                    *)
Die == pc' = [t \in Ticks |-> IF t \in Active /\ owner[t] = "daemon"
                              THEN IF pc[t] = "written" THEN "done" ELSE "dead"
                              ELSE pc[t]]

(* The await after which the tick reports; the slip does not await the     *)
(* save.                                                                   *)
ReportsEarly(t) == pc[t] \in {"writing", "written"}
Reports(t) == pc[t] = "written"

(* The tick reports, and exits its process if the dispatcher failed: that  *)
(* of the command line or, in the daemon, that of all the ticks.           *)
Finish(t) ==
    /\ Reports(t)
    /\ \/ (child[t] = "exit1" /\ owner[t] = "daemon") /\ up' = FALSE /\ Die
       \/ ~(child[t] = "exit1" /\ owner[t] = "daemon") /\ Goes(t, "done") /\ UNCHANGED up
    /\ UNCHANGED <<clock, file, input, mem, subj, child, sent, crashes, lies>>

(* The daemon is stopped from outside: a signal, or a lost machine.        *)
Crash ==
    /\ up /\ crashes < MaxCrashes
    /\ up' = FALSE /\ Die /\ crashes' = crashes + 1
    /\ UNCHANGED <<clock, file, input, mem, subj, child, sent, lies>>

(* Its container is set to restart it.                                     *)
Restart ==
    /\ ~up /\ up' = TRUE
    /\ UNCHANGED <<clock, file, pc, input, mem, subj, child, sent, crashes, lies>>

TimePasses ==
    /\ clock < Horizon /\ clock' = clock + 1
    /\ UNCHANGED <<up, file, pc, input, mem, subj, child, sent, crashes, lies>>

Next == \/ \E t \in Ticks, o \in Owners, k \in Kinds : StartTick(t, o, k)
        \/ \E t \in Ticks, s \in Subjects \cup {"none"} : Decide(t, s)
        \/ \E t \in Ticks, code \in {"exit0", "exit1"} : ChildExits(t, code)
        \/ \E t \in Ticks : \/ LoadState(t) \/ Deliver(t) \/ DispatchEnds(t)
                            \/ OpenState(t) \/ WriteState(t) \/ Finish(t)
        \/ Crash \/ Restart \/ TimePasses

Spec == Init /\ [][Next]_vars
-----------------------------------------------------------------------------
Delivered == {sent[i] : i \in DOMAIN sent}

(* Messages the engine never charged: the dispatcher delivered and failed, *)
(* or nobody was left to hear that it had delivered.                       *)
Lost(t) == child[t] = "exit1" \/ pc[t] = "dead"

(* The state file never charges a date with more messages than dispatchers *)
(* reported for it: however ticks overlap, die or overwrite one another,   *)
(* the engine does not fall silent for messages nobody received (or that   *)
(* were dry runs).                                                         *)
CountBacked ==
    file.form = "ok" =>
        file.state.count <=
            Cardinality({t \in Ticks : child[t] = "exit0" /\ DateKey(now[t]) = file.state.date})

(* The skill's rule: no message is decided on in the quiet hours of the    *)
(* user's clock, by which the cron jobs are scheduled; the engine may      *)
(* speak in the slots from QuietEnd up to QuietStart.                      *)
AwakeSlots == {(QuietEnd + k) % DayLen :
                 k \in 0..((QuietStart + DayLen - QuietEnd - 1) % DayLen)}
QuietRespected == \A t \in Delivered : (now[t] + UserOffset) % DayLen \in AwakeSlots

(* What the engine keeps of it: the same by the clock of its host.         *)
QuietByHost == \A t \in Delivered : (now[t] + HostOffset) % DayLen \in AwakeSlots

(* The skill's rule: no more than MaxDaily messages on a day of the user.  *)
DailyLimit ==
    \A d \in 0..(Horizon + UserOffset) :
        Cardinality({t \in Delivered : (now[t] + UserOffset) \div DayLen = d}) <= MaxDaily
=============================================================================
