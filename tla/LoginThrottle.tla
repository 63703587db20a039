----------------------------- MODULE LoginThrottle -----------------------------
(***************************************************************************)
(* Failed logins and the throttle (security/throttle.py, and login in      *)
(* api/routers/auth.py).                                                   *)
(*                                                                         *)
(* A login is checked, verifies the password in a thread and only then     *)
(* counts as failed, so several of one key may be between the two.  A      *)
(* failure is its age, as far as the window can tell ages apart; Tick lets *)
(* all of them grow older.                                                 *)
(***************************************************************************)
EXTENDS Integers, FiniteSets, Selection

CONSTANTS
  Keys,         \* an email and a client address each
  Logins,       \* the logins a worker may have in flight
  MaxFailures,  \* MAX_FAILURES
  Window,       \* WINDOW_SECONDS, in ticks
  MaxKeys       \* MAX_TRACKED_KEYS

ASSUME LoginThrottleAssumption ==
  /\ IsFiniteSet(Logins)
  /\ {MaxFailures, MaxKeys} \subseteq Nat \ {0}
  /\ Window \in Nat

VARIABLES
  tracked,   \* the keys of _failures, in insertion order
  failures,  \* _failures: the ages of a key's attempts, oldest first
  login,     \* login[l]: the key whose password login l verifies, or <<>>
  actual,    \* history: the ages of the failures since the last success, or since it
             \* was due to be forgotten
  newer      \* history: the other keys that failed since this one was first tracked

throttleVars == <<tracked, failures, login, actual, newer>>

ThrottleInit ==
  /\ tracked = <<>>
  /\ failures = [k \in Keys |-> <<>>]
  /\ login = [l \in Logins |-> <<>>]
  /\ actual = [k \in Keys |-> <<>>]
  /\ newer = [k \in Keys |-> {}]

-------------------------------------------------------------------------------
\* How many attempts _recent drops: from the left, as long as the first is too old.
Stale(ages) ==
  CHOOSE n \in 0 .. Len(ages) :
    /\ \A i \in 1 .. n : ages[i] > Window
    /\ n < Len(ages) => ages[n + 1] <= Window

\* _recent: the attempt that is exactly Window old stays.
Recent(ages) == SubSeq(ages, Stale(ages) + 1, Len(ages))

\* time.monotonic moves on; beyond the window all ages are the same.
Older(ages) == [i \in 1 .. Len(ages) |-> IF ages[i] <= Window THEN ages[i] + 1 ELSE ages[i]]

Tick ==
  /\ failures' = [k \in Keys |-> Older(failures[k])]
  /\ actual' = [k \in Keys |-> Selected(Older(actual[k]), 0 .. Window)]
  /\ UNCHANGED <<tracked, login, newer>>

\* Mutant: one failure more than the limit passes.
MayTryOnceMore(k) == Len(Recent(failures[k])) <= MaxFailures

\* check.
MayTry(k) == Len(Recent(failures[k])) < MaxFailures

\* A login begins.  check prunes the key's attempts either way; a login that may not
\* try is answered at once.
CheckLogin(l, k) ==
  /\ login[l] = <<>>
  /\ login' = [login EXCEPT ![l] = IF MayTry(k) THEN <<k>> ELSE <<>>]
  /\ failures' = [failures EXCEPT ![k] = Recent(@)]
  /\ UNCHANGED <<tracked, actual, newer>>

\* Mutant: the key that failed last is dropped.
TrimmedNewest(keys) == IF Len(keys) > MaxKeys THEN SubSeq(keys, 1, Len(keys) - 1) ELSE keys

\* Mutant: there is room for one key more.
TrimmedLate(keys) == IF Len(keys) > MaxKeys + 1 THEN Tail(keys) ELSE keys

\* Past MaxKeys the longest-tracked key is forgotten.
Trimmed(keys) == IF Len(keys) > MaxKeys THEN Tail(keys) ELSE keys

IsTracked(k) == \E i \in 1 .. Len(tracked) : tracked[i] = k

\* The step forgets key j.
Dropped(j) == IsTracked(j) /\ ~\E i \in 1 .. Len(tracked') : tracked'[i] = j

\* record_failure.
RecordFailure(k) ==
  LET keys == IF IsTracked(k) THEN tracked ELSE Append(tracked, k) IN
  /\ tracked' = Trimmed(keys)
  /\ failures' = [j \in Keys |->
                    CASE ~\E i \in 1 .. Len(tracked') : tracked'[i] = j -> <<>>
                      [] j = k -> Append(Recent(failures[k]), 0)
                      [] OTHER -> failures[j]]
  /\ newer' = [j \in Keys |-> IF IsTracked(j) THEN newer[j] \union ({k} \ {j}) ELSE {}]
  /\ actual' = [j \in Keys |->
                  CASE j = k -> Append(actual[k], 0)
                    [] j # k /\ Dropped(j) /\ Cardinality(newer'[j]) >= MaxKeys -> <<>>
                    [] OTHER -> actual[j]]

\* The email is unknown or the password wrong.
LoginFails(l) ==
  /\ login[l] # <<>>
  /\ RecordFailure(login[l][1])
  /\ login' = [login EXCEPT ![l] = <<>>]

\* reset.
Reset(k) ==
  /\ tracked' = Selected(tracked, Keys \ {k})
  /\ failures' = [failures EXCEPT ![k] = <<>>]
  /\ actual' = [actual EXCEPT ![k] = <<>>]

LoginSucceeds(l) ==
  /\ login[l] # <<>>
  /\ Reset(login[l][1])
  /\ login' = [login EXCEPT ![l] = <<>>]
  /\ newer' = [newer EXCEPT ![login[l][1]] = {}]

\* The account is disabled, or the database failed: neither a failure nor a success.
LoginRefused(l) ==
  /\ login[l] # <<>>
  /\ login' = [login EXCEPT ![l] = <<>>]
  /\ UNCHANGED <<tracked, failures, actual, newer>>

ThrottleNext ==
  \/ Tick
  \/ \E l \in Logins :
       (\E k \in Keys : CheckLogin(l, k)) \/ LoginFails(l) \/ LoginSucceeds(l) \/ LoginRefused(l)

ThrottleSpec == ThrottleInit /\ [][ThrottleNext]_throttleVars

-------------------------------------------------------------------------------
(* Properties.                                                             *)

\* The values the variables take; no more keys are tracked than MaxKeys, each once,
\* and no others have attempts.
ThrottleTypeOK ==
  /\ tracked \in Seq(Keys) /\ Len(tracked) <= MaxKeys
  /\ \A i, j \in 1 .. Len(tracked) : tracked[i] = tracked[j] => i = j
  /\ failures \in [Keys -> Seq(0 .. Window + 1)]
  /\ \A k \in Keys : failures[k] # <<>> => IsTracked(k)
  /\ login \in [Logins -> {<<>>} \union {<<k>> : k \in Keys}]
  /\ actual \in [Keys -> Seq(0 .. Window)]
  /\ newer \in [Keys -> SUBSET Keys]

\* The attempts counted for a key are its failures in the window since it last
\* succeeded: none is missed, counted twice or held against it for longer, whichever
\* logins overlap.  They are forgotten before their time only if MaxKeys other keys
\* failed since the key was first tracked.
WindowIsExact == \A k \in Keys : Recent(failures[k]) = actual[k]

InFlight(k) == {l \in Logins : login[l] = <<k>>}

\* check and record_failure are a password check apart: logins that are in flight
\* together pass the limit, but by no more than their number.  The failures counted
\* in a window and those still to come stay below MaxFailures plus the logins that
\* can be in flight.
FailuresBounded ==
  \A k \in Keys :
    Len(actual[k]) + Cardinality(InFlight(k)) < MaxFailures + Cardinality(Logins)
===============================================================================
