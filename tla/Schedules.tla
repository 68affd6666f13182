------------------------------ MODULE Schedules ------------------------------
(* The schedules of both job runtimes: a due schedule submits the execution  *)
(* of its planned instant and moves on.  The durable runtime does it in a    *)
(* transaction that holds the schedule's row, the in-memory one under its    *)
(* lock.  Schedules are numbered in the order in which they were added.      *)
EXTENDS Integers, Sequences, FiniteSets, FiniteSetsExt

CONSTANTS
    Loops,         \* scheduler loops of the durable runtime
    MaxSchedules,  \* bound of the schedules added
    Interval,      \* interval_seconds of a fixed_interval schedule, in ticks
    MaxTime        \* bound of the clock

ASSUME SchedulesAssumption ==
    /\ MaxSchedules \in Nat
    /\ Interval \in Nat \ {0}
    /\ MaxTime \in Nat

(* The identity schedule:<schedule_id>:<planned_at_utc>. *)
Slots == (1..MaxSchedules) \X (0..MaxTime)

VARIABLES
    runtime,   \* which runtime is composed: "durable" or "memory"
    now,       \* the clock
    schedules, \* the schedules, in the order they were added
    held       \* per loop: the schedules whose rows its transaction holds

schedvars == <<runtime, now, schedules, held>>

SchedInit ==
    /\ runtime \in {"durable", "memory"}
    /\ now = 0
    /\ schedules = <<>>
    /\ held = [l \in Loops |-> {}]

(* add_schedule: next_run_at may be in the past. *)
AddSchedule(kind, first) ==
    /\ Len(schedules) < MaxSchedules
    /\ schedules' = Append(schedules,
           [kind |-> kind, first |-> first, next |-> first, enabled |-> TRUE])
    /\ UNCHANGED <<runtime, now, held>>

Due(i) == schedules[i].enabled /\ schedules[i].next <= now

AdvanceToNow(i) ==
    schedules' = [schedules EXCEPT
        ![i] = IF @.kind = "one_shot" THEN [@ EXCEPT !.enabled = FALSE]
               ELSE [@ EXCEPT !.next = now + Interval]]

(* advance_schedule: a schedule that is behind keeps every missed instant. *)
Advance(i) ==
    schedules' = [schedules EXCEPT
        ![i] = IF @.kind = "one_shot" THEN [@ EXCEPT !.enabled = FALSE]
               ELSE [@ EXCEPT !.next = schedules[i].next + Interval]]

(* claim_due_schedule: the query has no LIMIT, so it locks every due row that *)
(* nobody holds; the first of them is taken.                                  *)
ClaimDue(l) ==
    LET free == {i \in DOMAIN schedules :
                    Due(i) /\ \A k \in Loops : i \notin held[k]}
    IN  /\ runtime = "durable"
        /\ held[l] = {}
        /\ free # {}
        /\ held' = [held EXCEPT ![l] = free]
        /\ UNCHANGED <<runtime, now, schedules>>

Earliest(S) == {i \in S : \A k \in S : schedules[i].next <= schedules[k].next}

(* The execution is created and the schedule advanced in one commit. *)
CommitTick(l, i) ==
    /\ i \in Earliest(held[l])
    /\ Advance(i)
    /\ held' = [held EXCEPT ![l] = {}]
    /\ UNCHANGED <<runtime, now>>

(* The loop dies, or its transaction is rolled back. *)
TickLost(l) ==
    /\ held[l] # {}
    /\ held' = [held EXCEPT ![l] = {}]
    /\ UNCHANGED <<runtime, now, schedules>>

(* schedule_tick of the in-memory runtime: the first due schedule. *)
TickFirst(i) ==
    /\ runtime = "memory"
    /\ i = Min({k \in DOMAIN schedules : Due(k)})
    /\ Advance(i)
    /\ UNCHANGED <<runtime, now, held>>

Tick ==
    /\ now < MaxTime
    /\ now' = now + 1
    /\ UNCHANGED <<runtime, schedules, held>>

-----------------------------------------------------------------------------
(* Which instants a schedule has been through. *)
Planned(i) ==
    IF schedules[i].kind = "one_shot"
    THEN {t \in {schedules[i].first} : ~schedules[i].enabled}
    ELSE {t \in schedules[i].first..MaxTime :
             t < schedules[i].next /\ (t - schedules[i].first) % Interval = 0}
=============================================================================
