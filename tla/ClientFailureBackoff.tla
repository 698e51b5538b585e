------------------------ MODULE ClientFailureBackoff ------------------------
(***************************************************************************)
(* The table of client addresses that failed lately (abuse.rs, and its     *)
(* copy in hysteria2.rs), one shard of it. Each operation holds the lock   *)
(* of the shard, so it is one step of its caller. Instants are kept        *)
(* relative to now: an entry has the age of its window and the time that   *)
(* is left of its block, below zero when the block is over.                *)
(***************************************************************************)
EXTENDS Integers, FiniteSets

CONSTANTS
  IpAddrs,
  Threshold, Window, BlockDuration, MaxEntries,   \* the policy, of one shard
  Absent

ASSUME BackoffAssumption ==
  /\ IsFiniteSet(IpAddrs)
  /\ {Threshold, MaxEntries, BlockDuration} \subseteq Nat \ {0}
  /\ Window \in Nat
  /\ Absent \notin Int

ClientFailureEntry ==
  [failures : 0 .. Threshold, age : 0 .. 2 * Window + 1,
   left : (-(Window + 1) .. BlockDuration) \cup {Absent}]

Tables == [IpAddrs -> ClientFailureEntry \cup {Absent}]
Empty == [ip \in IpAddrs |-> Absent]
Fresh == [failures |-> 0, age |-> 0, left |-> Absent]

Listed(entries) == {ip \in IpAddrs : entries[ip] # Absent}

is_blocked(entries, ip) ==
  entries[ip] # Absent /\ entries[ip].left # Absent /\ entries[ip].left > 0

\* What is_blocked_at leaves of the table: a block that is over is forgotten.
Checked(entries, ip) ==
  IF entries[ip] # Absent /\ entries[ip].left # Absent /\ ~is_blocked(entries, ip)
  THEN [entries EXCEPT ![ip] = Fresh]
  ELSE entries

is_expired(entry) ==
  IF entry.left # Absent THEN -entry.left > Window ELSE entry.age > 2 * Window

\* The tables a full shard may be left with: the expired entries go, and if that
\* is not enough the first one does, which may be any.
Roomy(entries) ==
  LET kept == [ip \in IpAddrs |->
                 IF entries[ip] # Absent /\ is_expired(entries[ip]) THEN Absent ELSE entries[ip]]
  IN  IF Cardinality(Listed(entries)) < MaxEntries THEN {entries}
      ELSE IF Cardinality(Listed(kept)) < MaxEntries THEN {kept}
      ELSE {[kept EXCEPT ![ip] = Absent] : ip \in Listed(kept)}

\* Failures are counted up to the threshold, which is all that is asked of them.
Counted(entry) ==
  LET failures == IF entry.failures < Threshold THEN entry.failures + 1 ELSE Threshold
  IN  [entry EXCEPT !.failures = failures,
                    !.left = IF failures = Threshold THEN BlockDuration ELSE @]

\* Mutant: the window is not looked at.
record_failure_at_any_age(entries, ip) ==
  {[room EXCEPT ![ip] = Counted(IF @ = Absent THEN Fresh ELSE @)] : room \in Roomy(entries)}

record_failure(entries, ip) ==
  {[room EXCEPT ![ip] =
      Counted(IF @ = Absent \/ @.age > Window THEN Fresh ELSE @)] : room \in Roomy(entries)}

record_success(entries, ip) == [entries EXCEPT ![ip] = Absent]

Least(a, b) == IF a < b THEN a ELSE b

\* A tick of the clock. Ages stop where nothing tells them apart any more.
Aged(entries) ==
  [ip \in IpAddrs |->
     IF entries[ip] = Absent THEN Absent
     ELSE [entries[ip] EXCEPT
             !.age = Least(@ + 1, 2 * Window + 1),
             !.left = IF @ = Absent THEN Absent ELSE -Least(1 - @, Window + 1)]]
=============================================================================
