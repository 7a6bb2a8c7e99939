----------------------------- MODULE AuditTrail -----------------------------
(***************************************************************************)
(* The durable trail of what was done: the audit_events table, its keyset  *)
(* pages and its retention sweep (internal/auditlog and                    *)
(* server/audit_retention.go).                                             *)
(*                                                                         *)
(* An id stands for one event from its emission to its row.  publicid.New  *)
(* draws ids at random, so their order says nothing about time: any unused *)
(* id may be the next.  A client walks the pages of one workspace while    *)
(* events are written, transactions stay open, rows expire and the process *)
(* dies, stays down for any time and comes back.  Time is counted in ticks.*)
(***************************************************************************)
EXTENDS Integers, FiniteSets

CONSTANTS
    Ids,            \* event ids, ordered as PostgreSQL orders the uuids
    Ours,           \* the events of the workspace that is read
    Limit,          \* the page size asked for
    Retention,      \* cfg.AuditRetention()
    Period,         \* auditSweepInterval
    Delay,          \* auditSweepStartupDelay
    MaxLag,         \* a statement is over within this many ticks (writeTimeout)
    MaxFailures,    \* bound: how many sweeps of a process fail in a row
    MaxTime         \* bound: how long the trail is watched

ASSUME TrailAssumption ==
    /\ Ids \subseteq Nat /\ Ours \subseteq Ids
    /\ Limit \in Nat \ {0} /\ Period \in Nat \ {0} /\ Delay \in Nat
    /\ Retention \in Nat \ {0} /\ MaxTime \in Nat /\ MaxFailures \in Nat /\ MaxLag \in 0 .. Retention

VARIABLES
    now,
    stage,          \* how far the emission of each event is
    at,             \* occurred_at
    rows,           \* audit_events, as committed
    alive,          \* the process is up
    due,            \* ticks until its retention sweep runs next
    walk,           \* the client: its cursor and what the pages gave it
    kept,           \* history: the events whose row was committed
    uptime,         \* history: how long the process has been up
    failed          \* history: sweeps of the process that failed in a row

process == <<alive, due, uptime, failed>>
trailVars == <<now, stage, at, rows, walk, kept, process>>

None == -1

\* "open": its row is written in a transaction that has not committed.
Stages == {"none", "stamped", "open", "done"}

\* got: how often each event was returned.  began: what there was to read at the
\* start.
NoWalk == [on |-> FALSE, over |-> FALSE, after |-> None, got |-> [i \in Ids |-> 0],
           began |-> {}]

TrailInit ==
    /\ now = 0 /\ stage = [i \in Ids |-> "none"] /\ at = [i \in Ids |-> 0]
    /\ rows = {} /\ kept = {} /\ walk = NoWalk
    /\ alive = TRUE /\ due = Delay /\ uptime = 0 /\ failed = 0

-----------------------------------------------------------------------------
Reaches(i, s) == stage' = [stage EXCEPT ![i] = s]

\* audit.Record gives the event its timestamp; RecordTx does so inside the transaction.
Stamp(i) ==
    /\ alive /\ stage[i] = "none"
    /\ Reaches(i, "stamped") \/ Reaches(i, "open")
    /\ at' = [at EXCEPT ![i] = now]
    /\ UNCHANGED <<now, rows, walk, kept, process>>

\* Recorder.Record: the row, or an error that is logged and counted.
Persist(i) ==
    /\ stage[i] = "stamped" /\ Reaches(i, "done")
    /\ \/ rows' = rows \cup {i} /\ kept' = kept \cup {i}
       \/ UNCHANGED <<rows, kept>>
    /\ UNCHANGED <<now, at, walk, process>>

\* The transaction of a control-plane mutation commits, with the row; the emission
\* that follows skips the table.
Commit(i) ==
    /\ stage[i] = "open" /\ Reaches(i, "done")
    /\ rows' = rows \cup {i} /\ kept' = kept \cup {i}
    /\ UNCHANGED <<now, at, walk, process>>

Rollback(i) ==
    /\ stage[i] = "open" /\ Reaches(i, "done")
    /\ UNCHANGED <<now, at, rows, walk, kept, process>>

-----------------------------------------------------------------------------
\* ORDER BY occurred_at DESC, id DESC
Newer(i, j) == at[i] > at[j] \/ (at[i] = at[j] /\ i > j)

\* Mutant: the cursor has no tie part.
BelowByTime(c) == {i \in rows \cap Ours : c = None \/ at[i] < at[c]}

\* listQuery: the workspace, then the cursor's range and tie parts.
Below(c) ==
    {i \in rows \cap Ours :
        c = None \/ (at[i] <= at[c] /\ (at[i] < at[c] \/ i < c))}

\* ORDER BY and LIMIT: the n newest of a set of rows.
Newest(found, n) == {i \in found : Cardinality({j \in found : Newer(j, i)}) < n}

\* LIMIT n + 1: more history shows in the extra row, which is not part of the page.
HasMore(found) == Cardinality(Newest(found, Limit + 1)) > Limit

\* The cursor is the last row of the page.
NextCursor(page) == CHOOSE i \in page : \A j \in page : i = j \/ Newer(j, i)

StartWalk ==
    /\ ~walk.on
    /\ walk' = [NoWalk EXCEPT !.on = TRUE, !.began = rows \cap Ours]
    /\ UNCHANGED <<now, stage, at, rows, kept, process>>

\* Repository.List: one statement, one snapshot of the table.
Page ==
    LET found == Below(walk.after)
        page == Newest(found, Limit)
    IN
    /\ alive /\ walk.on /\ ~walk.over
    /\ walk' = [walk EXCEPT !.over = ~HasMore(found),
                            !.after = IF HasMore(found) THEN NextCursor(page) ELSE @,
                            !.got = [i \in Ids |-> IF i \in page THEN @[i] + 1 ELSE @[i]]]
    /\ UNCHANGED <<now, stage, at, rows, kept, process>>

EndWalk ==
    /\ walk.over /\ walk' = NoWalk
    /\ UNCHANGED <<now, stage, at, rows, kept, process>>

-----------------------------------------------------------------------------
\* occurred_at < cutoff
Expired(i) == at[i] < now - Retention

\* sweepAudit, Delay after the boot and then daily.  A failure waits for the next one.
Purge ==
    /\ alive /\ due = 0 /\ due' = Period
    /\ \/ rows' = {i \in rows : ~Expired(i)} /\ failed' = 0
       \/ failed < MaxFailures /\ UNCHANGED rows /\ failed' = failed + 1
    /\ UNCHANGED <<now, stage, at, walk, kept, alive, uptime>>

\* The emissions under way die with the process, and so do its open transactions.
Crash ==
    /\ alive /\ alive' = FALSE
    /\ stage' = [i \in Ids |-> IF stage[i] = "none" THEN "none" ELSE "done"]
    /\ due' = 0 /\ uptime' = 0 /\ failed' = 0
    /\ UNCHANGED <<now, at, rows, walk, kept>>

\* The process is up again; its first sweep is d ticks away.
Comes(d) ==
    /\ ~alive /\ alive' = TRUE /\ due' = d
    /\ UNCHANGED <<now, stage, at, rows, walk, kept, uptime, failed>>

\* Mutant: the first sweep waits for the ticker.
BootUnswept == Comes(Period)

\* StartAuditRetention
Boot == Comes(Delay)

\* Time passes, for a process that is down as for one that is up.
Elapse ==
    /\ now < MaxTime /\ now' = now + 1
    /\ \A i \in Ids : stage[i] \in {"stamped", "open"} => now - at[i] < MaxLag
    /\ \/ alive /\ due > 0 /\ due' = due - 1 /\ uptime' = uptime + 1
       \/ ~alive /\ UNCHANGED <<due, uptime>>
    /\ UNCHANGED <<stage, at, rows, walk, kept, alive, failed>>

TrailNext ==
    \/ \E i \in Ids : Stamp(i) \/ Persist(i) \/ Commit(i) \/ Rollback(i)
    \/ StartWalk \/ Page \/ EndWalk
    \/ Purge \/ Crash \/ Boot \/ Elapse

TrailSpec == TrailInit /\ [][TrailNext]_trailVars

-----------------------------------------------------------------------------
\* A walk of the pages returns no event twice and none of another workspace, and when
\* it is over it has returned every event that was there at its start and still is,
\* whatever was committed late, purged or written at the same instant meanwhile
\* (auditlog/repository.go:158 List).
PagesAreExact ==
    /\ \A i \in Ids : walk.got[i] <= 1 /\ (walk.got[i] = 1 => i \in Ours)
    /\ walk.over => \A i \in walk.began \cap rows : walk.got[i] = 1

\* A committed event stays readable for the whole retention window, through crashes and
\* any time the process is down, and rows committed with an earlier timestamp.  A
\* process that is past its first sweep, and past those that failed since, holds no
\* row that is older than the window by more than these failures and one interval,
\* however long the installation was down (auditlog/service.go Purge,
\* server/audit_retention.go:31,82).
WindowIsKept ==
    /\ \A i \in kept : now - at[i] <= Retention => i \in rows
    /\ alive /\ uptime > Delay + failed * Period =>
          \A i \in rows : now - at[i] <= Retention + (failed + 1) * Period

=============================================================================
