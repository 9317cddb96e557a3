-------------------------------- MODULE Cron --------------------------------
(***************************************************************************)
(* The cron plugin: one job table shared by the scheduling loop, the tools *)
(* and the commands (channel.py, tools.py, commands.py), its due rules     *)
(* (schedule.py, job.py) and its file (store.py), through crashes, failed  *)
(* writes, slow consumers and callers that are cancelled while they wait.  *)
(*                                                                         *)
(* Moments are naturals from 1 on, Never is no schedule.  Time stands      *)
(* still while the sleeping loop has a reason to wake: it sleeps exactly.  *)
(***************************************************************************)
EXTENDS Naturals, FiniteSets, FiniteSetsExt, Functions, TLC

CONSTANTS
    Schedule,       \* job -> [kind: "at" | "every" | "cron", when: a set of moments, or {interval}]
    Origin,         \* job -> the session it was made in
    Sessions,       \* the sessions whose turns and commands call in
    MaxJobs,        \* max_jobs
    MinInterval,    \* min_interval_ms
    Grace,          \* the larger of catch_up_window_ms and the due tolerance
    Ceiling,        \* tick_ceiling_ms
    MaxTime,        \* bound of the model: the last moment
    MaxCrashes,     \* bound of the model: restarts of the process
    MaxCalls        \* bound of the model: tool and command calls

Jobs == DOMAIN Schedule
LoopStates == {"down", "reading", "loading", "ready", "saving", "yielded", "asleep", "failed", "ended"}
ASSUME CronAssumption ==
    /\ \A j \in Jobs :
          /\ Schedule[j].kind \in {"at", "every", "cron"} /\ Schedule[j].when \subseteq Nat \ {0}
          /\ Schedule[j].kind # "cron" => \E moment \in Schedule[j].when : Schedule[j].when = {moment}
    /\ Jobs \intersect (LoopStates \union {"none", "corrupt"}) = {}
    /\ {MaxJobs, MinInterval, Grace, Ceiling, MaxTime, MaxCrashes, MaxCalls} \subseteq Nat
Never == 0
Corrupt == [j \in {"corrupt"} |-> 0]     \* no table: what does not parse

VARIABLES
    now, cronCrashes, calls,
    disk,           \* jobs.json: a table, or Corrupt
    jobs,           \* the table in memory: job -> [on, next, last]
    loop,           \* where the scheduling loop is (LoopStates); a job: its message waits for the write
    stamp,          \* the moment that message carries
    until, wake,    \* how long it sleeps, and the event that ends it earlier
    lock,           \* who holds the table's lock: "loop", "call" or "none"
    writes,         \* the tables on their way to the disk: [by, table]
    degraded, stopped,
    call,           \* the tool or command under way
    sent,           \* history: job -> the moment of its last message to the kernel
    asked,          \* history: the jobs an operator ran or resumed by hand
    untidy,         \* history: a write of this process "failed", a call came too "early" for
                    \* it, a write ever was "left" behind
    refused         \* history: the schedule calls answered with an error
cronVars == <<now, cronCrashes, calls, disk, jobs, loop, stamp, until, wake, lock, writes, degraded, stopped,
          call, sent, asked, untidy, refused>>
cronFile == <<disk, writes>>
history == <<sent, asked, untidy, refused>>

Empty == [j \in {} |-> 0]
NoCall == [op |-> "none", job |-> "none", at |-> "none"]
Job(on, next, last) == [on |-> on, next |-> next, last |-> last]
NextRunAfter(j, t) ==
    LET later == {m \in Schedule[j].when : m > t}
    IN  IF Schedule[j].kind = "every" THEN t + Min(Schedule[j].when)
        ELSE IF later = {} THEN Never ELSE Min(later)
CronInit ==
    /\ now = 1 /\ cronCrashes = 0 /\ calls = 0
    /\ \/ disk = Corrupt        \* or the table an earlier process left
       \/ \E kept \in SUBSET Jobs : disk = [j \in kept |-> Job(TRUE, NextRunAfter(j, 0), "none")]
    /\ jobs = Empty
    /\ loop = "down" /\ stamp = 0 /\ until = 0 /\ wake = FALSE
    /\ lock = "none" /\ writes = {}
    /\ degraded = FALSE /\ stopped = FALSE /\ call = NoCall
    /\ sent = [j \in Jobs |-> 0] /\ asked = {} /\ untidy = {} /\ refused = {}
---------------------------------------------------------------------------
(* When a job runs next, and what becomes of one whose moment has passed.  *)

ValidSchedule(j, t) ==
    CASE Schedule[j].kind = "at"    -> Min(Schedule[j].when) > t
      [] Schedule[j].kind = "every" -> Min(Schedule[j].when) >= MinInterval
      [] OTHER                      -> TRUE
DueDecision(next, t) ==
    IF next = Never THEN "stale" ELSE IF next > t THEN "pending"
    ELSE IF t - next <= Grace THEN "due" ELSE "stale"

(* Mutant: the next moment is not written with the run. *)
WithRunUnmoved(job, status, next) == [job EXCEPT !.last = status]
WithRun(job, status, next) == [on |-> job.on /\ next # Never, next |-> next, last |-> status]
Lapsed(job, t) == job.on /\ (job.next = Never \/ DueDecision(job.next, t) = "stale")
Reconcile(table, t) ==
    [j \in DOMAIN table |->
        LET job == table[j]
        IN  IF ~Lapsed(job, t) THEN job
            ELSE IF job.next = Never THEN [job EXCEPT !.next = NextRunAfter(j, t)]
            ELSE IF Schedule[j].kind = "at" THEN WithRun(job, "missed", Never)
            ELSE WithRun(job, "skipped", NextRunAfter(j, t))]
Changed(table, t) == \E j \in DOMAIN table : Lapsed(table[j], t)
Due(table, t) == {j \in DOMAIN table : table[j].on /\ DueDecision(table[j].next, t) = "due"}
Earliest(table, t) == {j \in Due(table, t) : \A i \in Due(table, t) : table[j].next <= table[i].next}

Upcoming(table) == {table[j].next : j \in {i \in DOMAIN table : table[i].on}} \ {Never}
Delay(table, t) == Min({t + Ceiling} \union Upcoming(table))
---------------------------------------------------------------------------
(* The file.  Every write goes through the same temporary name.            *)

Write(by, table) == writes' = writes \union {[by |-> by, table |-> table]}
Mine(by) == {w \in writes : w.by = by}
(* What a finished write leaves depends on who else was writing.           *)
Lands(w) ==
    /\ writes' = writes \ {w}
    /\ \/ disk' = w.table
       \/ writes # {w} /\ disk' \in {v.table : v \in writes} \union {Corrupt}
Stray ==        \* the thread of a cancelled caller ends, either way
    /\ \E w \in Mine("nobody") :
          \/ Lands(w)
          \/ writes' = writes \ {w} /\ disk' = disk
    /\ UNCHANGED <<now, cronCrashes, calls, stamp, jobs, loop, until, wake, lock, degraded, stopped, call, history>>
---------------------------------------------------------------------------
(* The scheduling loop: CronChannel.start, receive, stop.                  *)

Start ==        \* load() reads in a thread; nothing holds callers off meanwhile
    /\ loop = "down" /\ loop' = "reading"
    /\ UNCHANGED <<now, cronCrashes, calls, stamp, cronFile, jobs, until, wake, lock, degraded, stopped, call, history>>
Load ==
    /\ loop = "reading"
    /\ IF disk = Corrupt
       THEN /\ degraded' = TRUE /\ jobs' = Empty /\ loop' = "ready"
            /\ disk' \in {Corrupt, Empty}       \* moved aside as *.corrupt-<stamp>, or not
            /\ UNCHANGED writes
       ELSE /\ jobs' = Reconcile(disk, now) /\ UNCHANGED <<disk, degraded>>
            /\ IF Changed(disk, now) THEN Write("load", jobs') /\ loop' = "loading"
                                     ELSE loop' = "ready" /\ UNCHANGED writes
    /\ UNCHANGED <<now, cronCrashes, calls, stamp, until, wake, lock, stopped, call, history>>
Loaded ==       \* load() writes without the lock
    /\ loop = "loading"
    /\ \E w \in Mine("load") :
          \/ Lands(w) /\ loop' = "ready" /\ UNCHANGED untidy
          \/ writes' = writes \ {w} /\ disk' = disk /\ loop' = "failed" /\ untidy' = untidy \union {"failed"}
    /\ UNCHANGED <<now, cronCrashes, calls, stamp, jobs, until, wake, lock, degraded, stopped, call, sent, asked, refused>>

NextDue ==      \* next_due() ends at once when degraded or stopped
    /\ loop = "ready" /\ (degraded \/ stopped)
    /\ loop' = "ended"
    /\ UNCHANGED <<now, cronCrashes, calls, stamp, cronFile, jobs, until, wake, lock, degraded, stopped, call, history>>
Sleep(table) == /\ loop' = "asleep" /\ until' = Delay(table, now) /\ wake' = FALSE
TakeDue ==
    /\ loop = "ready" /\ ~degraded /\ ~stopped /\ lock = "none"
    /\ LET table == Reconcile(jobs, now)
       IN  IF Due(table, now) = {}
           THEN /\ jobs' = table
                /\ IF Changed(jobs, now)
                   THEN /\ lock' = "loop" /\ loop' = "saving" /\ Write("loop", table)
                        /\ UNCHANGED <<until, wake>>
                   ELSE Sleep(table) /\ UNCHANGED <<lock, writes>>
                /\ UNCHANGED stamp
           ELSE /\ \E j \in Earliest(table, now) :
                      /\ jobs' = [table EXCEPT ![j] = WithRun(@, "dispatched", NextRunAfter(j, now))]
                      /\ loop' = j /\ stamp' = now
                /\ lock' = "loop" /\ Write("loop", jobs')
                /\ UNCHANGED <<until, wake>>
    /\ UNCHANGED <<now, cronCrashes, calls, disk, degraded, stopped, call, history>>
Saved ==        \* the message leaves only when the advanced table is on the disk
    /\ loop \in Jobs \union {"saving"} /\ lock = "loop"
    /\ \E w \in Mine("loop") : Lands(w)
    /\ lock' = "none"
    /\ IF loop \in Jobs THEN /\ sent' = [sent EXCEPT ![loop] = stamp]
                             /\ loop' = "yielded" /\ UNCHANGED <<until, wake>>
                        ELSE Sleep(jobs) /\ UNCHANGED sent
    /\ UNCHANGED <<now, cronCrashes, calls, stamp, jobs, degraded, stopped, call, asked, untidy, refused>>
SaveFails ==    \* the error leaves receive(): the pump of this channel is over
    /\ loop \in Jobs \union {"saving"} /\ lock = "loop"
    /\ writes' = writes \ Mine("loop") /\ lock' = "none" /\ loop' = "failed" /\ untidy' = untidy \union {"failed"}
    /\ UNCHANGED <<now, cronCrashes, calls, stamp, disk, jobs, until, wake, degraded, stopped, call, sent, asked, refused>>
(* Mutant: the sleep has no timeout. *)
WakeByEvent ==
    /\ loop = "asleep" /\ wake /\ loop' = "ready"
    /\ UNCHANGED <<now, cronCrashes, calls, stamp, cronFile, jobs, until, wake, lock, degraded, stopped, call, history>>
Wake ==
    /\ loop = "asleep" /\ (wake \/ now >= until) /\ loop' = "ready"
    /\ UNCHANGED <<now, cronCrashes, calls, stamp, cronFile, jobs, until, wake, lock, degraded, stopped, call, history>>
Consumed ==     \* the kernel has admitted the message and asks for the next one
    /\ loop = "yielded" /\ loop' = "ready"
    /\ UNCHANGED <<now, cronCrashes, calls, stamp, cronFile, jobs, until, wake, lock, degraded, stopped, call, history>>
Stop ==
    /\ loop # "down" /\ ~stopped /\ stopped' = TRUE /\ wake' = TRUE
    /\ UNCHANGED <<now, cronCrashes, calls, stamp, cronFile, jobs, loop, until, lock, degraded, call, history>>
---------------------------------------------------------------------------
(* The tools and commands of a session: only its own jobs.                 *)

Call(s, op, j) ==
    /\ loop # "down" /\ call = NoCall /\ Origin[j] = s
    /\ op # "schedule" => j \in DOMAIN jobs
    /\ op = "schedule" => j \notin DOMAIN jobs \union refused /\ sent[j] = 0 /\ ValidSchedule(j, now)
    /\ ~degraded
    /\ call' = [op |-> op, job |-> j, at |-> "lock"]
    /\ calls < MaxCalls /\ calls' = calls + 1
    /\ UNCHANGED <<now, cronCrashes, stamp, cronFile, jobs, loop, until, wake, lock, degraded, stopped, history>>

Refuse ==       \* the table is full, or the job is gone since it was looked up
    /\ call.at = "lock" /\ lock = "none"
    /\ IF call.op = "schedule" THEN Cardinality(DOMAIN jobs) >= MaxJobs
                               ELSE call.job \notin DOMAIN jobs
    /\ call' = NoCall
    /\ refused' = IF call.op = "schedule" THEN refused \union {call.job} ELSE refused
    /\ UNCHANGED <<now, cronCrashes, calls, stamp, cronFile, jobs, loop, until, wake, lock, degraded, stopped, sent, asked, untidy>>
Apply ==        \* add, remove, set_enabled, run_now: change the table, then write it
    /\ call.at = "lock" /\ lock = "none"
    /\ LET j == call.job
       IN  IF call.op = "schedule"
           THEN /\ Cardinality(DOMAIN jobs) < MaxJobs
                /\ jobs' = [i \in DOMAIN jobs \union {j} |->
                            IF i = j THEN Job(TRUE, NextRunAfter(j, now), "none") ELSE jobs[i]]
           ELSE /\ j \in DOMAIN jobs
                /\ jobs' = CASE call.op = "rm"     -> Restrict(jobs, DOMAIN jobs \ {j})
                             [] call.op = "pause"  -> [jobs EXCEPT ![j] = Job(FALSE, Never, @.last)]
                             [] call.op = "resume" -> [jobs EXCEPT ![j] =
                                                        Job(TRUE, NextRunAfter(j, now), @.last)]
                             [] call.op = "run"    -> [jobs EXCEPT ![j] = Job(TRUE, now, @.last)]
    /\ asked' = IF call.op \in {"run", "resume"} THEN asked \union {call.job} ELSE asked
    /\ lock' = "call" /\ Write("call", jobs') /\ call' = [call EXCEPT !.at = "disk"]
    /\ untidy' = IF loop \in {"reading", "loading"} THEN untidy \union {"early"} ELSE untidy
    /\ UNCHANGED <<now, cronCrashes, calls, stamp, disk, loop, until, wake, degraded, stopped, sent, refused>>
(* Mutant: the loop is not woken. *)
AnswerWithoutWake ==
    /\ call.at = "disk"
    /\ \E w \in Mine("call") : Lands(w)
    /\ lock' = "none" /\ call' = NoCall
    /\ UNCHANGED <<now, cronCrashes, calls, stamp, jobs, loop, until, wake, degraded, stopped, history>>
Answer ==
    /\ call.at = "disk"
    /\ \E w \in Mine("call") : Lands(w)
    /\ lock' = "none" /\ wake' = TRUE /\ call' = NoCall
    /\ UNCHANGED <<now, cronCrashes, calls, stamp, jobs, loop, until, degraded, stopped, history>>
Fail ==         \* the write failed: an error, no wake(), and the table stays changed
    /\ call.at = "disk"
    /\ writes' = writes \ Mine("call") /\ lock' = "none" /\ untidy' = untidy \union {"failed"} /\ call' = NoCall
    /\ refused' = IF call.op = "schedule" THEN refused \union {call.job} ELSE refused
    /\ UNCHANGED <<now, cronCrashes, calls, stamp, disk, jobs, loop, until, wake, degraded, stopped, sent, asked>>
Cancel ==       \* the caller is cancelled: the lock is free, the writing thread goes on
    /\ call.at = "disk"
    /\ writes' = (writes \ Mine("call")) \union {[by |-> "nobody", table |-> w.table] : w \in Mine("call")}
    /\ lock' = "none" /\ untidy' = untidy \union {"left"} /\ call' = NoCall
    /\ UNCHANGED <<now, cronCrashes, calls, stamp, disk, jobs, loop, until, wake, degraded, stopped, sent, asked, refused>>
---------------------------------------------------------------------------
Tick ==
    /\ now < MaxTime /\ now' = now + 1
    /\ ~(loop = "asleep" /\ (wake \/ now >= until))
    /\ UNCHANGED <<cronCrashes, calls, stamp, cronFile, jobs, loop, until, wake, lock, degraded, stopped, call, history>>
Crash ==        \* the table and every write under way are gone
    /\ cronCrashes < MaxCrashes /\ cronCrashes' = cronCrashes + 1
    /\ loop # "down"
    /\ jobs' = Empty /\ loop' = "down" /\ until' = 0 /\ wake' = FALSE
    /\ lock' = "none" /\ writes' = {} /\ degraded' = FALSE /\ stopped' = FALSE /\ call' = NoCall
    /\ untidy' = untidy \ {"failed", "early"}
    /\ UNCHANGED <<now, calls, stamp, disk, sent, asked, refused>>

LoopStep == Start \/ Load \/ Loaded \/ NextDue \/ TakeDue \/ Saved \/ SaveFails \/ Wake \/ Consumed
Calls == \/ \E s \in Sessions, j \in Jobs, op \in {"schedule", "pause", "resume", "run", "rm"} :
               Call(s, op, j)
         \/ Refuse \/ Apply \/ Answer \/ Fail \/ Cancel
CronNext == LoopStep \/ Calls \/ Stray \/ Stop \/ Tick \/ Crash
(* The loop, the caller at work and time go on; asyncio.Lock is first come *)
(* first served, so callers cannot keep the loop from the table for good.  *)
CronFairness ==
    /\ WF_cronVars(LoopStep) /\ SF_cronVars(TakeDue)
    /\ WF_cronVars(Refuse \/ Apply \/ Answer) /\ WF_cronVars(Tick)
CronSpec == CronInit /\ [][CronNext]_cronVars /\ CronFairness

---------------------------------------------------------------------------
(* Properties                                                              *)

(* channel.py: having run and running next are written together, so a run  *)
(* is not repeated: through crashes, slow consumers and failed writes, two *)
(* messages of an interval job are an interval apart and a one-shot job    *)
(* sends one, unless somebody ran the job by hand or a cancelled caller    *)
(* left a write behind.                                                    *)
RunsOnce ==
    [][\A j \in Jobs \ asked :
          loop = j /\ loop' = "yielded" /\ sent[j] # 0 /\ "left" \notin untidy =>
            /\ Schedule[j].kind # "at"
            /\ Schedule[j].kind = "every" => stamp - sent[j] >= Min(Schedule[j].when)
            /\ Schedule[j].kind = "cron" => \E m \in Schedule[j].when : sent[j] < m /\ m <= stamp]_cronVars

(* The lock covers the change and its write: whenever it is free, a crash  *)
(* loses nothing; and while the loop sleeps, no enabled job is due before  *)
(* it wakes, however the table changed meanwhile.                          *)
TableIsDurable ==
    untidy = {} /\ lock = "none" /\ ~degraded =>
        /\ loop \notin {"down", "reading", "loading"} => disk = jobs
        /\ loop = "asleep" => wake \/ \A m \in Upcoming(jobs) : until <= m

(* Every enabled job whose moment has come is dispatched, or recorded as   *)
(* skipped or missed, while the channel runs (and time is not at its       *)
(* bound), even if the call that made it was cancelled before its wake().  *)
Overdue(j) == /\ j \in DOMAIN jobs /\ jobs[j].on
              /\ jobs[j].next \in 1..now /\ jobs[j].next + Ceiling <= MaxTime
DueIsHandled ==
    \A j \in Jobs : Overdue(j) ~> (~Overdue(j) \/ stopped \/ loop \in {"failed", "ended", "down"})
=============================================================================
