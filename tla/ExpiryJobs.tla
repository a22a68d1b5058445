----------------------------- MODULE ExpiryJobs -----------------------------
(***************************************************************************)
(* The queue expired-travel (QueueService, ExpiredTravelProcessor): once a *)
(* day cleanup-expired-travels deactivates the travels whose end date has  *)
(* passed, and notify-expiring-travels announces those that end within     *)
(* three days.  BullMQ hands a job to a worker of one replica and hands it *)
(* out again when the worker dies or seems to (at least once); a job that  *)
(* throws is tried three times.  An end date is far, soon (within three    *)
(* days) or past; the rows a job works on are the copies it found before.  *)
(***************************************************************************)
EXTENDS Naturals, FiniteSets

CONSTANTS
  Travels,
  Workers,        \* the processor of each replica, concurrency 1
  NoTravel,       \* the worker is at no travel
  Batch,          \* take: 100
  Attempts,       \* attempts: 3
  MaxExtensions,  \* bound: how often administrators move an end date
  MaxFaults       \* bound: crashes, stalls and failed calls

ASSUME ExpiryAssumption ==
  /\ IsFiniteSet(Travels)
  /\ NoTravel \notin Travels
  /\ Batch \in Nat \ {0}
  /\ Attempts \in Nat \ {0}
  /\ MaxExtensions \in Nat
  /\ MaxFaults \in Nat

Jobs == {"cleanup", "notify"}
Dates == {"far", "soon", "past"}

VARIABLES
  status,      \* travels.status
  ends,        \* travels.endDate, as seen from now
  waiting,     \* attempts left of the job waiting in the queue, 0 if none is
  job,         \* the job each worker runs, "none" if it is free
  at,          \* what the worker does next in that job
  left,        \* the travels the job found and has not handled
  current,     \* the travel it handles
  tries,       \* attempts left of the job, this one included
  marker,      \* travels with travel:expiring:notified:{id} in Redis
  notified,    \* travels whose TRAVEL_EXPIRED notice was queued
  window,      \* TRAVEL_EXPIRING notices queued since the marker last expired
  stale,       \* history: travels changed since the worker's job found them
  doubtful,    \* history: travels a fault left in doubt, per kind of notice
  extensions,  \* end dates moved so far
  faults       \* faults so far

travelRows == <<status, ends>>
workerVars == <<job, at, left, current, tries>>
noticeVars == <<marker, notified, window>>
historyVars == <<stale, doubtful, extensions, faults>>
expiryVars == <<status, ends, waiting, job, at, left, current, tries, marker,
                notified, window, stale, doubtful, extensions, faults>>

Places == {"idle", "find", "next", "push", "announce", "mark"}

ExpiryTypeOK ==
  /\ status \in [Travels -> {"active", "inactive"}]
  /\ ends \in [Travels -> Dates]
  /\ waiting \in [Jobs -> 0 .. Attempts]
  /\ job \in [Workers -> Jobs \cup {"none"}]
  /\ at \in [Workers -> Places]
  /\ left \in [Workers -> SUBSET Travels]
  /\ current \in [Workers -> Travels \cup {NoTravel}]
  /\ tries \in [Workers -> 0 .. Attempts]
  /\ marker \subseteq Travels
  /\ notified \subseteq Travels
  /\ window \in [Travels -> 0 .. 2]
  /\ stale \in [Workers -> SUBSET Travels]
  /\ doubtful \in [Jobs -> SUBSET Travels]
  /\ extensions \in 0 .. MaxExtensions
  /\ faults \in 0 .. MaxFaults

ExpiryInit ==
  /\ status = [t \in Travels |-> "active"]
  /\ ends = [t \in Travels |-> "far"]
  /\ waiting = [j \in Jobs |-> 0]
  /\ job = [w \in Workers |-> "none"]
  /\ at = [w \in Workers |-> "idle"]
  /\ left = [w \in Workers |-> {}]
  /\ current = [w \in Workers |-> NoTravel]
  /\ tries = [w \in Workers |-> 0]
  /\ marker = {} /\ notified = {}
  /\ window = [t \in Travels |-> 0]
  /\ stale = [w \in Workers |-> {}]
  /\ doubtful = [j \in Jobs |-> {}]
  /\ extensions = 0 /\ faults = 0

-----------------------------------------------------------------------------
(* Outside the jobs: time, administrators, the repeat of the jobs            *)

TimePasses(t) ==
  /\ ends[t] # "past"
  /\ ends' = [ends EXCEPT ![t] = IF @ = "far" THEN "soon" ELSE "past"]
  /\ UNCHANGED <<status, waiting, workerVars, noticeVars, historyVars>>

\* An administrator moves the end date and has the travel active.
Extend(t) ==
  /\ extensions < MaxExtensions
  /\ extensions' = extensions + 1
  /\ status' = [status EXCEPT ![t] = "active"]
  /\ ends' = [ends EXCEPT ![t] = "far"]
  /\ notified' = notified \ {t}
  /\ doubtful' = [doubtful EXCEPT !["cleanup"] = @ \ {t}]
  /\ stale' = [w \in Workers |-> IF at[w] \in {"idle", "find"} THEN {} ELSE stale[w] \cup {t}]
  /\ UNCHANGED <<waiting, workerVars, marker, window, faults>>

\* Worker w has looked up the marker of t and not set it yet.
Announces(w, t) == at[w] \in {"announce", "mark"} /\ current[w] = t

\* The 24 hours of a notice, and of its marker, are over; no worker takes that
\* long from the notice to its marker.  Two workers that have both looked up
\* the marker and are still to announce stay in doubt.
DayPasses(t) ==
  /\ t \in marker \/ window[t] > 0
  /\ \A w \in Workers : ~(at[w] = "mark" /\ current[w] = t)
  /\ marker' = marker \ {t}
  /\ window' = [window EXCEPT ![t] = 0]
  /\ doubtful' = [doubtful EXCEPT !["notify"] =
                    IF \E v, w \in Workers : v # w /\ Announces(v, t) /\ Announces(w, t)
                    THEN @ ELSE @ \ {t}]
  /\ UNCHANGED <<travelRows, waiting, workerVars, notified, stale, extensions, faults>>

\* The job of the day; the one of the day before has ended.
Schedule(j) ==
  /\ waiting[j] = 0 /\ \A w \in Workers : job[w] # j
  /\ waiting' = [waiting EXCEPT ![j] = Attempts]
  /\ UNCHANGED <<travelRows, workerVars, noticeVars, historyVars>>

-----------------------------------------------------------------------------
(* A run of a job                                                            *)

GoTo(w, place) == at' = [at EXCEPT ![w] = place]

\* The worker is at travel t of its job; it goes on to the next one.
Handle(w, t, place) == GoTo(w, place) /\ current' = [current EXCEPT ![w] = t]
NextTravel(w) == Handle(w, NoTravel, "next")

Fault == faults < MaxFaults /\ faults' = faults + 1

Take(w, j) ==
  /\ job[w] = "none" /\ waiting[j] > 0
  /\ job' = [job EXCEPT ![w] = j]
  /\ tries' = [tries EXCEPT ![w] = waiting[j]]
  /\ waiting' = [waiting EXCEPT ![j] = 0]
  /\ GoTo(w, "find")
  /\ UNCHANGED <<travelRows, left, current, noticeVars, historyVars>>

\* Variant: the clean-up finds the travels that end within three days.
WantsSoon(j) == {t \in Travels : status[t] = "active" /\ ends[t] = "soon"}

Wanted(j) ==
  {t \in Travels : status[t] = "active"
                     /\ ends[t] = IF j = "cleanup" THEN "past" ELSE "soon"}

\* The SELECT, with its limit and without an order.
Find(w) ==
  /\ at[w] = "find"
  /\ \E found \in SUBSET Wanted(job[w]) :
       /\ Cardinality(found) <= Batch
       /\ found = Wanted(job[w]) \/ Cardinality(found) = Batch
       /\ left' = [left EXCEPT ![w] = found]
  /\ GoTo(w, "next")
  /\ UNCHANGED <<travelRows, waiting, job, current, tries, noticeVars, historyVars>>

\* The loop comes to travel t.
Reach(w, j, t) ==
  /\ at[w] = "next" /\ job[w] = j /\ t \in left[w]
  /\ left' = [left EXCEPT ![w] = @ \ {t}]

\* expire() and save(), which writes back every column of the copy that is not
\* what the row holds: also the end date it had when it was found.
SaveExpired(w, t) ==
  /\ Reach(w, "cleanup", t)
  /\ status' = [status EXCEPT ![t] = "inactive"]
  /\ ends' = [ends EXCEPT ![t] = "past"]
  /\ Handle(w, t, "push")
  /\ UNCHANGED <<waiting, job, tries, noticeVars, historyVars>>

\* The loop catches the error and goes on.
SaveFails(w, t) ==
  /\ Reach(w, "cleanup", t)
  /\ Fault
  /\ UNCHANGED <<travelRows, waiting, job, at, current, tries, noticeVars, stale,
                 doubtful, extensions>>

\* setExpiredNotification, the cache invalidated before it.
PushExpired(w) ==
  /\ at[w] = "push"
  /\ notified' = notified \cup {current[w]}
  /\ NextTravel(w)
  /\ UNCHANGED <<travelRows, waiting, job, left, tries, marker, window,
                 historyVars>>

\* The LPUSH fails; setExpiredNotification swallows the error.
PushExpiredFails(w) ==
  /\ at[w] = "push"
  /\ Fault
  /\ doubtful' = [doubtful EXCEPT !["cleanup"] = @ \cup {current[w]}]
  /\ NextTravel(w)
  /\ UNCHANGED <<travelRows, waiting, job, left, tries, noticeVars, stale,
                 extensions>>

\* Variant: the marker is not looked up.
AnnounceUnchecked(w, t) ==
  /\ Reach(w, "notify", t)
  /\ Handle(w, t, "announce")
  /\ UNCHANGED <<travelRows, waiting, job, tries, noticeVars, historyVars>>

\* A GET that fails, or finds Redis not connected, answers null: as if there were
\* no marker.
GetMarker(w, t) ==
  /\ Reach(w, "notify", t)
  /\ \/ t \in marker /\ UNCHANGED <<at, current, doubtful, faults>>
     \/ /\ t \notin marker
        /\ Handle(w, t, "announce")
        /\ doubtful' = [doubtful EXCEPT !["notify"] =
                          IF \E v \in Workers \ {w} : Announces(v, t)
                            THEN @ \cup {t} ELSE @]
        /\ UNCHANGED faults
     \/ /\ t \in marker /\ Fault
        /\ Handle(w, t, "announce")
        /\ doubtful' = [doubtful EXCEPT !["notify"] = @ \cup {t}]
  /\ UNCHANGED <<travelRows, waiting, job, tries, noticeVars, stale, extensions>>

\* setExpiringNotification: a failed LPUSH looks like one that succeeded.
Announce(w) ==
  /\ at[w] = "announce"
  /\ GoTo(w, "mark")
  /\ \/ /\ window' = [window EXCEPT ![current[w]] = IF @ = 2 THEN 2 ELSE @ + 1]
        /\ UNCHANGED <<faults, doubtful>>
     \/ /\ Fault
        /\ doubtful' = [doubtful EXCEPT !["notify"] = @ \cup {current[w]}]
        /\ UNCHANGED window
  /\ UNCHANGED <<travelRows, waiting, job, left, current, tries, marker, notified,
                 stale, extensions>>

SetMarker(w) ==
  /\ at[w] = "mark"
  /\ NextTravel(w)
  /\ \/ marker' = marker \cup {current[w]} /\ UNCHANGED <<faults, doubtful>>
     \/ /\ Fault
        /\ doubtful' = [doubtful EXCEPT !["notify"] = @ \cup {current[w]}]
        /\ UNCHANGED marker
  /\ UNCHANGED <<travelRows, waiting, job, left, tries, notified, window,
                 stale, extensions>>

-----------------------------------------------------------------------------
(* The end of a run                                                          *)

\* The worker is free, and the job goes back to the queue if tries are left.
EndRun(w, again) ==
  /\ job' = [job EXCEPT ![w] = "none"]
  /\ left' = [left EXCEPT ![w] = {}]
  /\ Handle(w, NoTravel, "idle")
  /\ tries' = [tries EXCEPT ![w] = 0]
  /\ stale' = [stale EXCEPT ![w] = {}]
  /\ waiting' = [waiting EXCEPT ![job[w]] = IF @ > again THEN @ ELSE again]

AtEnd(w) == at[w] = "next" /\ left[w] = {}

\* The statistics are stored and the job is completed.
Finish(w) ==
  /\ AtEnd(w)
  /\ EndRun(w, 0)
  /\ UNCHANGED <<travelRows, noticeVars, doubtful, extensions, faults>>

\* The query or a report of progress fails: process throws.
Throw(w) ==
  /\ at[w] = "find" \/ AtEnd(w)
  /\ Fault
  /\ EndRun(w, tries[w] - 1)
  /\ UNCHANGED <<travelRows, noticeVars, doubtful, extensions>>

\* The replica dies; the job is found stalled and handed out again.
Crash(w) ==
  /\ job[w] # "none"
  /\ Fault
  /\ doubtful' =
       [j \in Jobs |->
          IF j = job[w] /\ at[w] \in {"push", "mark"} THEN doubtful[j] \cup {current[w]}
          ELSE doubtful[j]]
  /\ EndRun(w, tries[w])
  /\ UNCHANGED <<travelRows, noticeVars, extensions>>

\* The worker is slow to renew its lock: the job is handed out while it goes on.
Stall(w) ==
  /\ job[w] # "none"
  /\ Fault
  /\ waiting' = [waiting EXCEPT ![job[w]] = tries[w]]
  /\ UNCHANGED <<travelRows, workerVars, noticeVars, stale, doubtful, extensions>>

WorkerStep(w) ==
  \/ Find(w) \/ PushExpired(w) \/ PushExpiredFails(w) \/ Announce(w) \/ SetMarker(w)
  \/ Finish(w)
  \/ \E t \in Travels : SaveExpired(w, t) \/ SaveFails(w, t) \/ GetMarker(w, t)

ExpiryNext ==
  \/ \E t \in Travels : TimePasses(t) \/ Extend(t) \/ DayPasses(t)
  \/ \E j \in Jobs : Schedule(j)
  \/ \E w \in Workers :
       \/ \E j \in Jobs : Take(w, j)
       \/ WorkerStep(w) \/ Throw(w) \/ Crash(w) \/ Stall(w)

\* Redis repeats the jobs, and BullMQ hands them to the workers, which run
\* them.  Nothing is assumed of administrators, of time or of faults.
ExpiryFairness ==
  /\ \A j \in Jobs : WF_expiryVars(Schedule(j))
  /\ \A j \in Jobs : WF_expiryVars(\E w \in Workers : Take(w, j))
  /\ \A w \in Workers : WF_expiryVars(WorkerStep(w))

-----------------------------------------------------------------------------
(* Properties                                                                *)

\* A travel that goes on is deactivated only by a job that found it before an
\* administrator moved its end date: the job then also takes the new end date
\* back (no version is checked when it saves).
OngoingEndsOnlyByRace ==
  [][\A t \in Travels :
       status[t] = "active" /\ ends[t] # "past" /\ status'[t] = "inactive" =>
         \E w \in Workers : t \in stale[w]]_expiryVars

\* Every travel a job deactivated has its notice in the queue or is about to;
\* no travel is announced twice in a day, and no marker stands for a notice
\* that is not in the queue: except if a call failed (the look-up of the marker,
\* which then seems absent, or the write of a notice or marker), or a worker died
\* between the two steps, or two workers had the same job.
NoticesExplained ==
  /\ \A t \in Travels :
       status[t] = "inactive" =>
         \/ t \in notified \cup doubtful["cleanup"]
         \/ \E w \in Workers : at[w] = "push" /\ current[w] = t
  /\ \A t \in Travels :
       window[t] > 1 \/ (t \in marker /\ window[t] = 0) => t \in doubtful["notify"]

\* A travel whose end date has passed is deactivated, unless the end date is
\* moved first: crashes and failed calls only delay it to a later run.
ExpiredIsDeactivated ==
  \A t \in Travels :
    (status[t] = "active" /\ ends[t] = "past")
      ~> (status[t] = "inactive" \/ ends[t] # "past")
=============================================================================
