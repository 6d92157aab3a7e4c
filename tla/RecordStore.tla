---------------------------- MODULE RecordStore ----------------------------
(***************************************************************************)
(* The two record stores, success/store.go and failures/store.go, and the  *)
(* routine of main.go that ages them out.  A store maps a hash to the time *)
(* of its latest record: Pebble's Set replaces what was there.             *)
(*                                                                         *)
(* A record is stamped with time.Now() before it is marshalled and set, so *)
(* stamping and setting are two steps.  The cleaner fixes its cutoff, then *)
(* collects the old keys from an iterator, which is a snapshot, and then   *)
(* deletes key by key from the live store.                                 *)
(***************************************************************************)
EXTENDS Integers, FiniteSets

CONSTANTS
    Hash,       \* the keys: the base names of job directories
    None,       \* no record; no record underway
    MaxAge,     \* cleanupRoutine's maxAge, 30 days, in ticks of the clock
    MaxTime,    \* bound: the clock stops here
    Faulty,     \* the stores whose sweeps may fail again and again
    MaxErrors   \* bound: errors in the sweeps of the other stores

ASSUME NoneAssumption == None \notin Int
ASSUME MaxAgeAssumption == MaxAge \in Nat
ASSUME MaxTimeAssumption == MaxTime \in Nat
ASSUME FaultyAssumption == Faulty \subseteq {"success", "failures"}
ASSUME MaxErrorsAssumption == MaxErrors \in Nat

VARIABLES
    now,            \* the clock
    records,        \* store -> hash -> the timestamp of its record, or None
    writing,        \* hash -> a record that is stamped and not yet set
    cleaner,        \* where the clean-up routine is
    sweeping,       \* the store whose CleanupOldRecords it is in
    cutoff,         \* the cutoff of that call
    doomed,         \* keysToDelete, those not yet deleted
    overwritten,    \* ghost: the doomed keys that were set since the snapshot
    errors          \* the number of errors met outside Faulty

storeVars == <<now, records, writing, cleaner, sweeping, cutoff, doomed,
               overwritten, errors>>

Store == {"success", "failures"}
Time == 0..MaxTime
\* "idle" waits for the ticker; "begun" has a cutoff and no iterator yet;
\* "deleting" is in the second loop.
Cleaner == {"idle", "begun", "deleting"}

StoreTypeOK ==
    /\ now \in Time
    /\ records \in [Store -> [Hash -> Time \cup {None}]]
    /\ writing \in [Hash -> [store : Store, at : Time] \cup {None}]
    /\ cleaner \in Cleaner
    /\ sweeping \in Store
    /\ cutoff \in Int
    /\ doomed \subseteq Hash
    /\ overwritten \subseteq Hash
    /\ errors \in 0..MaxErrors

StoreInit ==
    /\ now = 0
    /\ records = [s \in Store |-> [h \in Hash |-> None]]
    /\ writing = [h \in Hash |-> None]
    /\ cleaner = "idle"
    /\ sweeping = "success"
    /\ cutoff = 0
    /\ doomed = {}
    /\ overwritten = {}
    /\ errors = 0

Tick ==
    /\ now < MaxTime
    /\ now' = now + 1
    /\ UNCHANGED <<records, writing, cleaner, sweeping, cutoff, doomed, overwritten, errors>>

-----------------------------------------------------------------------------
(* StoreSuccess and StoreFailure. *)

\* Timestamp: time.Now().  The directory of a hash lets one job at a time get
\* here.
Stamp(h, s) ==
    /\ writing[h] = None
    /\ writing' = [writing EXCEPT ![h] = [store |-> s, at |-> now]]
    /\ UNCHANGED <<now, records, cleaner, sweeping, cutoff, doomed, overwritten, errors>>

\* db.Set(key, data, pebble.Sync)
Set(h) ==
    /\ writing[h] # None
    /\ records' = [records EXCEPT ![writing[h].store][h] = writing[h].at]
    /\ writing' = [writing EXCEPT ![h] = None]
    /\ overwritten' = IF h \in doomed /\ writing[h].store = sweeping
                      THEN overwritten \cup {h} ELSE overwritten
    /\ UNCHANGED <<now, cleaner, sweeping, cutoff, doomed, errors>>

\* Set returns an error, which the callers log and drop.
SetFails(h) ==
    /\ writing[h] # None
    /\ writing' = [writing EXCEPT ![h] = None]
    /\ UNCHANGED <<now, records, cleaner, sweeping, cutoff, doomed, overwritten, errors>>

-----------------------------------------------------------------------------
(* cleanupRoutine and the two CleanupOldRecords. *)

\* Wrong variant: "younger than maxAge" for "older".
YoungInstead(s) == {h \in Hash : records[s][h] # None /\ records[s][h] >= cutoff}

\* record.Timestamp.Before(cutoff)
OldKeys(s) == {h \in Hash : records[s][h] # None /\ records[s][h] < cutoff}

BeginSweep(s) ==
    /\ cleaner' = "begun"
    /\ sweeping' = s
    /\ cutoff' = now - MaxAge
    /\ doomed' = {}
    /\ overwritten' = {}

\* Every 24 hours; the success store is swept first.
TickerFires ==
    /\ cleaner = "idle"
    /\ BeginSweep("success")
    /\ UNCHANGED <<now, records, writing, errors>>

\* The routine waits for the ticker; the locals of the call are gone.
Rest ==
    /\ cleaner' = "idle"
    /\ sweeping' = "success"
    /\ cutoff' = 0
    /\ doomed' = {}
    /\ overwritten' = {}

\* Wrong variant: the routine returns after the success store.
RestAlways == Rest

\* CleanupOldRecords returned, with an error or without: the routine logs it and
\* goes on to the failures, then waits for the ticker.
NextSweep ==
    \/ sweeping = "success" /\ BeginSweep("failures")
    \/ sweeping = "failures" /\ Rest

Snapshot ==
    /\ cleaner = "begun"
    /\ cleaner' = "deleting"
    /\ doomed' = OldKeys(sweeping)
    /\ cutoff' = 0                  \* not used any more
    /\ UNCHANGED <<now, records, writing, sweeping, overwritten, errors>>

\* An error may be met in a sweep of s; outside Faulty they are counted.
Error(s) ==
    IF s \in Faulty THEN UNCHANGED errors
    ELSE errors < MaxErrors /\ errors' = errors + 1

\* The iterator of the success store ends early: iter.Error() is not looked at,
\* and what was collected so far is deleted.
SnapshotCutShort ==
    /\ cleaner = "begun"
    /\ sweeping = "success"
    /\ Error(sweeping)
    /\ cleaner' = "deleting"
    /\ doomed' \in SUBSET OldKeys(sweeping)
    /\ cutoff' = 0
    /\ UNCHANGED <<now, records, writing, sweeping, overwritten>>

\* db.Delete(key, pebble.Sync) of one collected key.
Delete(h) ==
    /\ cleaner = "deleting"
    /\ h \in doomed
    /\ records' = [records EXCEPT ![sweeping][h] = None]
    /\ doomed' = doomed \ {h}
    /\ overwritten' = overwritten \ {h}
    /\ UNCHANGED <<now, writing, cleaner, sweeping, cutoff, errors>>

SweepDone ==
    /\ cleaner = "deleting"
    /\ doomed = {}
    /\ NextSweep
    /\ UNCHANGED <<now, records, writing, errors>>

\* NewIter or a Delete returned an error, or iter.Error() for the failures: the
\* call returns and the keys that are left stay.
SweepFails ==
    /\ cleaner \in {"begun", "deleting"}
    /\ Error(sweeping)
    /\ NextSweep
    /\ UNCHANGED <<now, records, writing>>

Sweep ==
    \/ Snapshot
    \/ SnapshotCutShort
    \/ \E h \in Hash : Delete(h)
    \/ SweepDone
    \/ SweepFails

-----------------------------------------------------------------------------
(* Properties of the ageing. *)

\* A record that a sweep deletes was older than the cutoff, unless its key was
\* set again after the sweep had collected it: that window, between the snapshot
\* and the delete, is the only way to lose a young record.
DeletedIsOld ==
    \A s \in Store, h \in Hash :
        (records[s][h] # None /\ records'[s][h] = None)
            => records[s][h] < now - MaxAge \/ (s = sweeping /\ h \in overwritten)

DeletedWasOld == [][DeletedIsOld]_storeVars

\* A record that is past its age is removed or replaced in the end, in every
\* store whose errors come to an end, even when the sweep of the other store
\* before it fails every time.
AgedIsRemoved ==
    \A s \in Store \ Faulty, h \in Hash, t \in Time :
        (records[s][h] = t /\ t < now - MaxAge) ~> (records[s][h] # t)

=============================================================================
