----------------------------- MODULE RateLimiter -----------------------------
(***************************************************************************)
(* The per-IP quota enforcer of src/rate_limiter.py (class RateLimiter).   *)
(*                                                                         *)
(* Each public method runs entirely under self.lock, so each is one atomic *)
(* action.  The dictionaries are defaultdicts: reading a missing key       *)
(* inserts it.  They are modelled as functions whose DOMAIN is the set of  *)
(* keys present.  last_seen is a plain dict whose key order (insertion     *)
(* order) decides the order in which cleanup_inactive_ips deletes.         *)
(*                                                                         *)
(* Time is discrete: Minute, Hour and Retention are the 60 s, 3600 s and   *)
(* cleanup_after_hours * 3600 s windows, scaled down to ticks.             *)
(*                                                                         *)
(* The ingress that calls the limiter is not in the repository; it is      *)
(* modelled by the protocol the spec describes: can_submit_job admits a    *)
(* job, register_job_start when it starts, register_job_end when it ends.  *)
(***************************************************************************)
EXTENDS Integers, FiniteSets, Sequences, SequencesExt, TLC

CONSTANTS
  Ips,            \* caller addresses
  Jobs,           \* job ids the ingress registers
  CpuCosts,       \* cpu_seconds a finished job may report
  CpuPerMinute,   \* cpu_seconds_per_minute
  MaxConcurrent,  \* max_concurrent_jobs
  MaxPerHour,     \* max_jobs_per_hour
  Minute,         \* 60 s window, in ticks
  Hour,           \* 3600 s window, in ticks
  Retention,      \* cleanup_after_hours * 3600, in ticks
  MaxTime,        \* last tick explored
  NoIp            \* model value: a job not yet admitted for any caller

ASSUME /\ 0 < Minute /\ Minute <= Hour /\ Hour <= Retention
       /\ CpuPerMinute > 0 /\ MaxConcurrent > 0 /\ MaxPerHour > 0

VARIABLES
  now,          \* time.time()
  cpuUsage,     \* self.cpu_usage: ip -> deque of <<time, cpu_seconds>>
  activeJobs,   \* self.active_jobs: ip -> set of job ids
  jobHistory,   \* self.job_history: ip -> deque of submission times
  lastSeen,     \* self.last_seen: ip -> time
  seenOrder,    \* the keys of self.last_seen in insertion order
  jobState,     \* the ingress's view of each job: new/admitted/started/ended
  jobIp,        \* the caller each job was admitted for
  decision,     \* the latest can_submit_job result, and its expected value
  allStarts,    \* history: every register_job_start time, per ip, never pruned
  allCpu,       \* history: every register_job_end sample, per ip, never pruned
  sweptBefore   \* cutoff of the latest cleanup_inactive_ips call

vars == <<now, cpuUsage, activeJobs, jobHistory, lastSeen, seenOrder, jobState,
          jobIp, decision, allStarts, allCpu, sweptBefore>>

Reasons == {"none", "concurrent", "hourly", "cpu"}

-----------------------------------------------------------------------------
(* Dictionaries.                                                           *)

\* d[k] on a defaultdict: inserts k with the default value if missing.
Touch(d, k, default) == IF k \in DOMAIN d THEN d ELSE d @@ (k :> default)

\* d[k] = v on a dict.
Put(d, k, v) == [x \in DOMAIN d \cup {k} |-> IF x = k THEN v ELSE d[x]]

\* del d[k]
Del(d, k) == [x \in DOMAIN d \ {k} |-> d[x]]

\* self.last_seen[ip] = now: a new key goes to the end of the key order.
SeeIp(ip) ==
  /\ lastSeen' = Put(lastSeen, ip, now)
  /\ seenOrder' = IF ip \in DOMAIN lastSeen THEN seenOrder ELSE Append(seenOrder, ip)

\* while dq and dq[0] < cutoff: dq.popleft()   (ts gives each entry's time):
\* drops the longest prefix of entries older than cutoff.
PopOlder(dq, ts, cutoff) ==
  LET k == CHOOSE k \in 0..Len(dq) :
             /\ \A i \in 1..k : ts[i] < cutoff
             /\ (k = Len(dq) \/ ~(ts[k + 1] < cutoff))
  IN SubSeq(dq, k + 1, Len(dq))

\* The time of each cpu_usage entry (t, cpu_seconds).
SampleTimes(dq) == [i \in 1..Len(dq) |-> dq[i][1]]

\* Mutation: job_history pruned against the one-minute window.
PruneHistoryByMinute(dq, t) == PopOlder(dq, dq, t - Minute)

\* _cleanup_old_entries, the job_history half.
PruneHistory(dq, t) == PopOlder(dq, dq, t - Hour)

\* _cleanup_old_entries, the cpu_usage half.
PruneCpu(dq, t) == PopOlder(dq, SampleTimes(dq), t - Minute)

\* Submissions of a history later than hour_ago.
RecentStarts(dq, t) == Len(SelectSeq(dq, LAMBDA s : s > t - Hour))

\* sum(cpu for t, cpu in dq if t > minute_ago)
RecentCpu(dq, t) ==
  FoldLeft(LAMBDA acc, e : acc + e[2], 0, SelectSeq(dq, LAMBDA e : e[1] > t - Minute))

-----------------------------------------------------------------------------
Init ==
  /\ now = 0
  /\ cpuUsage = << >> /\ activeJobs = << >> /\ jobHistory = << >>
  /\ lastSeen = << >> /\ seenOrder = << >>
  /\ jobState = [j \in Jobs |-> "new"]
  /\ jobIp = [j \in Jobs |-> NoIp]
  /\ decision = [ip |-> NoIp, ok |-> FALSE, reason |-> "none", wait |-> 0,
                 expect |-> "none"]
  /\ allStarts = [ip \in Ips |-> << >>]
  /\ allCpu = [ip \in Ips |-> << >>]
  /\ sweptBefore = -Retention

\* Time passes.
Tick ==
  /\ now < MaxTime
  /\ now' = now + 1
  /\ UNCHANGED <<cpuUsage, activeJobs, jobHistory, lastSeen, seenOrder,
                 jobState, jobIp, decision, allStarts, allCpu, sweptBefore>>

\* What the spec's admission policy (section 4.2) says for ip at time now,
\* read from the unpruned histories: the first failing check wins.
Expected(ip, act) ==
  IF Cardinality(act) >= MaxConcurrent THEN "concurrent"
  ELSE IF RecentStarts(allStarts[ip], now) >= MaxPerHour THEN "hourly"
  ELSE IF RecentCpu(allCpu[ip], now) >= CpuPerMinute THEN "cpu"
  ELSE "none"

\* can_submit_job(ip), for a job j the ingress wants to admit.  last_seen is
\* set first; the concurrency check reads active_jobs[ip]; only past it
\* are both deques pruned; the CPU rejection reports
\* wait = 60 - (now - cpu_usage[ip][0][0]).
CanSubmitJob(j, ip) ==
  LET act  == Touch(activeJobs, ip, {})
      cpu  == Touch(cpuUsage, ip, << >>)
      hist == Touch(jobHistory, ip, << >>)
      cpu2 == [cpu EXCEPT ![ip] = PruneCpu(@, now)]
      hist2 == [hist EXCEPT ![ip] = PruneHistory(@, now)]
      full == Cardinality(act[ip]) >= MaxConcurrent
      hourly == RecentStarts(hist2[ip], now) >= MaxPerHour
      overCpu == RecentCpu(cpu2[ip], now) >= CpuPerMinute
      reason == IF full THEN "concurrent" ELSE IF hourly THEN "hourly"
                ELSE IF overCpu THEN "cpu" ELSE "none"
  IN
  /\ jobState[j] = "new"
  /\ SeeIp(ip)
  /\ activeJobs' = act
  /\ cpuUsage' = IF full THEN cpuUsage ELSE cpu2
  /\ jobHistory' = IF full THEN jobHistory ELSE hist2
  /\ decision' = [ip |-> ip, ok |-> reason = "none", reason |-> reason,
                  wait |-> IF reason = "cpu" THEN Minute - (now - cpu2[ip][1][1]) ELSE 0,
                  expect |-> Expected(ip, act[ip])]
  /\ IF reason = "none"
       THEN jobState' = [jobState EXCEPT ![j] = "admitted"] /\ jobIp' = [jobIp EXCEPT ![j] = ip]
       ELSE UNCHANGED <<jobState, jobIp>>
  /\ UNCHANGED <<now, allStarts, allCpu, sweptBefore>>

\* register_job_start(ip, job_id): add to active_jobs, append to
\* job_history, set last_seen.
RegisterJobStart(j) ==
  LET ip == jobIp[j] IN
  /\ jobState[j] = "admitted"
  /\ jobState' = [jobState EXCEPT ![j] = "started"]
  /\ activeJobs' = LET a == Touch(activeJobs, ip, {}) IN [a EXCEPT ![ip] = @ \cup {j}]
  /\ jobHistory' = LET h == Touch(jobHistory, ip, << >>) IN [h EXCEPT ![ip] = Append(@, now)]
  /\ SeeIp(ip)
  /\ allStarts' = [allStarts EXCEPT ![ip] = Append(@, now)]
  /\ UNCHANGED <<now, cpuUsage, jobIp, decision, allCpu, sweptBefore>>

\* Mutation: the CPU sample is appended as (cpu_seconds, now).
RegisterJobEndSwapped(j, c) ==
  LET ip == jobIp[j]
      a == Touch(activeJobs, ip, {})
      cpu == Touch(cpuUsage, ip, << >>)
      hist == Touch(jobHistory, ip, << >>)
  IN
  /\ jobState[j] = "started"
  /\ jobState' = [jobState EXCEPT ![j] = "ended"]
  /\ activeJobs' = [a EXCEPT ![ip] = @ \ {j}]
  /\ cpuUsage' = [cpu EXCEPT ![ip] = PruneCpu(Append(@, <<c, now>>), now)]
  /\ jobHistory' = [hist EXCEPT ![ip] = PruneHistory(@, now)]
  /\ SeeIp(ip)
  /\ allCpu' = [allCpu EXCEPT ![ip] = Append(@, <<now, c>>)]
  /\ UNCHANGED <<now, jobIp, decision, allStarts, sweptBefore>>

\* register_job_end(ip, job_id, cpu_seconds): discard from active_jobs,
\* append the CPU sample, set last_seen, prune both deques.
RegisterJobEnd(j, c) ==
  LET ip == jobIp[j]
      a == Touch(activeJobs, ip, {})
      cpu == Touch(cpuUsage, ip, << >>)
      hist == Touch(jobHistory, ip, << >>)
  IN
  /\ jobState[j] = "started"
  /\ jobState' = [jobState EXCEPT ![j] = "ended"]
  /\ activeJobs' = [a EXCEPT ![ip] = @ \ {j}]
  /\ cpuUsage' = [cpu EXCEPT ![ip] = PruneCpu(Append(@, <<now, c>>), now)]
  /\ jobHistory' = [hist EXCEPT ![ip] = PruneHistory(@, now)]
  /\ SeeIp(ip)
  /\ allCpu' = [allCpu EXCEPT ![ip] = Append(@, <<now, c>>)]
  /\ UNCHANGED <<now, jobIp, decision, allStarts, sweptBefore>>

\* get_available_cpu_seconds(ip): a read, except that self.cpu_usage[ip]
\* on the defaultdict inserts the key.
GetAvailableCpuSeconds(ip) ==
  /\ ip \notin DOMAIN cpuUsage
  /\ cpuUsage' = Touch(cpuUsage, ip, << >>)
  /\ UNCHANGED <<now, activeJobs, jobHistory, lastSeen, seenOrder, jobState,
                 jobIp, decision, allStarts, allCpu, sweptBefore>>

\* The four deletions for one inactive ip, in order; a missing key raises
\* KeyError, which ends the whole sweep after the deletions already made.
RECURSIVE SweepIps(_, _)
SweepIps(st, ips) ==
  IF ips = << >> THEN st
  ELSE LET ip == Head(ips) IN
       IF ip \notin DOMAIN st.cpu THEN st
       ELSE LET s1 == [st EXCEPT !.cpu = Del(@, ip)] IN
       IF ip \notin DOMAIN s1.act THEN s1
       ELSE LET s2 == [s1 EXCEPT !.act = Del(@, ip)] IN
       IF ip \notin DOMAIN s2.hist THEN s2
       ELSE LET s3 == [s2 EXCEPT !.hist = Del(@, ip), !.seen = Del(@, ip),
                                 !.order = SelectSeq(@, LAMBDA x : x # ip)]
            IN SweepIps(s3, Tail(ips))

\* cleanup_inactive_ips(): every ip whose last_seen is older than the
\* retention horizon, in last_seen order, loses all its state.
CleanupInactiveIps ==
  LET cutoff == now - Retention
      inactive == SelectSeq(seenOrder, LAMBDA ip : lastSeen[ip] < cutoff)
      st == SweepIps([cpu |-> cpuUsage, act |-> activeJobs, hist |-> jobHistory,
                      seen |-> lastSeen, order |-> seenOrder], inactive)
  IN
  /\ inactive # << >>
  /\ cpuUsage' = st.cpu /\ activeJobs' = st.act /\ jobHistory' = st.hist
  /\ lastSeen' = st.seen /\ seenOrder' = st.order
  /\ sweptBefore' = cutoff
  /\ UNCHANGED <<now, jobState, jobIp, decision, allStarts, allCpu>>

-----------------------------------------------------------------------------
Next ==
  \/ Tick
  \/ \E j \in Jobs, ip \in Ips : CanSubmitJob(j, ip)
  \/ \E j \in Jobs : RegisterJobStart(j)
  \/ \E j \in Jobs, c \in CpuCosts : RegisterJobEnd(j, c)
  \/ \E ip \in Ips : GetAvailableCpuSeconds(ip)
  \/ CleanupInactiveIps

Spec == Init /\ [][Next]_vars

-----------------------------------------------------------------------------
(* Properties.                                                             *)

TypeOK ==
  /\ now \in 0..MaxTime
  /\ DOMAIN cpuUsage \subseteq Ips /\ DOMAIN activeJobs \subseteq Ips
  /\ DOMAIN jobHistory \subseteq Ips /\ DOMAIN lastSeen \subseteq Ips
  /\ \A ip \in DOMAIN activeJobs : activeJobs[ip] \subseteq Jobs
  /\ \A ip \in DOMAIN cpuUsage : cpuUsage[ip] \in Seq((0..MaxTime) \X CpuCosts)
  /\ \A ip \in DOMAIN lastSeen : lastSeen[ip] \in 0..MaxTime
  /\ ToSet(seenOrder) = DOMAIN lastSeen
  /\ jobState \in [Jobs -> {"new", "admitted", "started", "ended"}]
  /\ decision.reason \in Reasons

\* The verdict of can_submit_job, read from pruned deques that the sweep
\* may have cut, is the verdict of the policy over the callers' whole
\* history: pruning in can_submit_job and register_job_end, and the sweep,
\* never drop a sample that is still inside its window.
DecisionMatchesHistory ==
  decision.reason = decision.expect

\* The callers the limiter holds any state for.
Tracked ==
  DOMAIN cpuUsage \cup DOMAIN activeJobs \cup DOMAIN jobHistory \cup DOMAIN lastSeen

\* Every caller the limiter holds state for is one cleanup_inactive_ips can
\* reach (it iterates last_seen), and after a sweep none last seen before
\* its cutoff is left (the privacy requirement of spec section 4.2: forget
\* a caller after its inactivity period).
SweepForgetsInactive ==
  \A ip \in Tracked : ip \in DOMAIN lastSeen /\ lastSeen[ip] >= sweptBefore

=============================================================================
