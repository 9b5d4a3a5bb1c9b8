---------------------------- MODULE CursorStore ----------------------------
(***************************************************************************)
(* CursorStore keeps, in one file per watcher, the last block that watcher *)
(* has dealt with.  Set replaces the file with a rename, so a crash leaves *)
(* the old or the new value.  A file that does not exist is the cursor     *)
(* Unset: block 0, and nothing stored.                                     *)
(***************************************************************************)
EXTENDS Naturals

Unset == [stored |-> FALSE, block |-> 0]
Set(block) == [stored |-> TRUE, block |-> block]

(* Without the guard against a short chain. *)
SafeHeadUnguarded(head, confirmations) == head - confirmations

(* The highest block with enough confirmations. *)
SafeHead(head, confirmations) == IF head > confirmations THEN head - confirmations ELSE 0

(* Where a scan resumes.  A worker without a cursor starts lookback blocks *)
(* behind the safe head, and on a shorter chain at its first block.        *)
GetOrSeed(c, safe, lookback) ==
  IF c.stored \/ safe <= lookback THEN c ELSE Set(safe - lookback)

Fresh(c, safe, lookback) == ~c.stored /\ safe > lookback
=============================================================================
