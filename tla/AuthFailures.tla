---------------------------- MODULE AuthFailures ----------------------------
(***************************************************************************)
(* The limiter of auth-failure audit rows (state.rs tick_auth_failure,     *)
(* auth.rs fail_auth): a sliding window per presented credential and one   *)
(* for all of them.  A window holds the times of rows it let through, here *)
(* the rows themselves, by their place in the log.                         *)
(*                                                                         *)
(* A failure reads the wall clock before it takes the mutex.  The clock of *)
(* the model is what the next one to take it has read: it steps back when  *)
(* the wall clock is set back, and when a failure overtakes an earlier     *)
(* one.  Then saturating_sub makes an entry look new.                      *)
(***************************************************************************)
EXTENDS Naturals, Sequences, FiniteSets

CONSTANTS Credentials,
          Window, PerKeyLimit, GlobalRowCap,
          MaxClock, MaxRows     \* bounds

VARIABLES clock,
          buckets,      \* buckets[k]: rows of k in its window
          rowWindow,    \* rows in the window of all
          rows,         \* history: the rows granted, [key, at]
          stepped       \* history: the clock stepped back

vars == <<clock, buckets, rowWindow, rows, stepped>>

(* What the proofs assume of the constants.                                *)
FailuresAssumption ==
    /\ Window \in Nat /\ PerKeyLimit \in Nat /\ GlobalRowCap \in Nat
    /\ MaxClock \in Nat /\ MaxRows \in Nat

TypeOK ==
    /\ clock \in 0..MaxClock
    /\ buckets \in [Credentials -> SUBSET DOMAIN rows]
    /\ rowWindow \subseteq DOMAIN rows
    /\ rows \in Seq([key: Credentials, at: 0..MaxClock])
    /\ stepped \in BOOLEAN

Init ==
    /\ clock = 0
    /\ buckets = [k \in Credentials |-> {}]
    /\ rowWindow = {}
    /\ rows = <<>>
    /\ stepped = FALSE

Fresh(window) ==
    {i \in window: (IF clock > rows[i].at THEN clock - rows[i].at ELSE 0) < Window}

(* tick_auth_failure: the windows are cut, and the failure gets a row only *)
(* when neither is full                                                    *)
HasBudgetOfKey(bucket, window) == Cardinality(bucket) < PerKeyLimit
HasBudget(bucket, window) ==
    Cardinality(bucket) < PerKeyLimit /\ Cardinality(window) < GlobalRowCap

TickAuthFailure(k) ==
    LET bucket == Fresh(buckets[k])
        window == Fresh(rowWindow)
        rowed  == HasBudget(bucket, window)
        row    == IF rowed THEN {Len(rows) + 1} ELSE {}
    IN  /\ Len(rows) < MaxRows
        /\ buckets' = [buckets EXCEPT ![k] = bucket \cup row]
        /\ rowWindow' = window \cup row
        /\ rows' = IF rowed THEN Append(rows, [key |-> k, at |-> clock]) ELSE rows
        /\ UNCHANGED <<clock, stepped>>

ClockMoves ==
    /\ clock' \in {clock + 1, clock - 1} \cap (0..MaxClock)
    /\ stepped' = (stepped \/ clock' < clock)
    /\ UNCHANGED <<buckets, rowWindow, rows>>

Next == (\E k \in Credentials: TickAuthFailure(k)) \/ ClockMoves

Spec == Init /\ [][Next]_vars

(* The rows of a window of time that begins at from.                       *)
Inside(from) == {i \in DOMAIN rows: rows[i].at >= from /\ rows[i].at < from + Window}

(* However the failures are spread over credentials and time, no window of *)
(* that length holds more audit rows than the global cap, and a credential *)
(* no more than its own limit, as long as the clock does not step back.    *)
FloodBounded ==
    ~stepped =>
        \A from \in 0..MaxClock:
            /\ Cardinality(Inside(from)) <= GlobalRowCap
            /\ \A k \in Credentials:
                  Cardinality({i \in Inside(from): rows[i].key = k}) <= PerKeyLimit
=============================================================================
