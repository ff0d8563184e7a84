----------------------------- MODULE ReleaseLock -----------------------------
(***************************************************************************)
(* The lock that keeps two runs of one release workflow apart              *)
(* (release/workflowFileLock.ts): a directory, the receipt of its owner,   *)
(* and the reclaiming of a lock whose owner is dead, which a marker file   *)
(* inside the directory is meant to serialize.                             *)
(*                                                                         *)
(* Every step is one call to the file system, except that a receipt is     *)
(* written and renamed, and a directory removed with what is in it, in one *)
(* step; the steps of different processes interleave.  A process acquires  *)
(* the lock once, so its name also stands for its token.                   *)
(***************************************************************************)
EXTENDS Naturals, FiniteSets

CONSTANTS
  Processes,
  None,
  MaxDeaths     \* bound on processes that die

VARIABLES
  dir,          \* the lock directory, or None
  pc,           \* what each process does next
  saw,          \* the dead owner a reclaimer has read
  dead

vars == <<dir, pc, saw, dead>>

Alive(p) == p \notin dead

Init ==
  /\ dir = None
  /\ pc = [p \in Processes |-> "acquire"]
  /\ saw = [p \in Processes |-> None]
  /\ dead = {}

Exists == dir # None
Step(p, from, to) == Alive(p) /\ pc[p] = from /\ pc' = [pc EXCEPT ![p] = to]

-----------------------------------------------------------------------------
(* acquireWorkflowFileLock *)

Mkdir(p) ==
  /\ Step(p, "acquire", "receipt") /\ ~Exists
  /\ dir' = [receipt |-> None, marker |-> None, temps |-> {}]
  /\ UNCHANGED <<saw, dead>>

\* The receipt goes into the directory of that name; without one the
\* acquisition fails
WriteOwnerReceipt(p) ==
  /\ Step(p, "receipt", IF Exists THEN "held" ELSE "failed")
  /\ dir' = IF Exists THEN [dir EXCEPT !.receipt = p] ELSE dir
  /\ UNCHANGED <<saw, dead>>

\* Only the lock whose receipt names this owner is removed, which is checked
\* first
Release(p) ==
  /\ Step(p, "held", IF Exists /\ dir.receipt = p THEN "free" ELSE "released")
  /\ UNCHANGED <<dir, saw, dead>>

RemoveOwn(p) ==
  /\ Step(p, "free", "released")
  /\ dir' = None
  /\ UNCHANGED <<saw, dead>>

-----------------------------------------------------------------------------
(* reclaimDeadWorkflowLock; a process that gives up tries to acquire again *)

\* The directory exists and its receipt names a dead owner
FindDead(p) ==
  /\ Step(p, "acquire", "temp") /\ Exists /\ dir.receipt \in dead
  /\ saw' = [saw EXCEPT ![p] = dir.receipt]
  /\ UNCHANGED <<dir, dead>>

WriteTemp(p) ==
  /\ Step(p, "temp", IF Exists THEN "link" ELSE "acquire")
  /\ dir' = IF Exists THEN [dir EXCEPT !.temps = @ \cup {p}] ELSE dir
  /\ UNCHANGED <<saw, dead>>

\* linkSync: the source is gone with its directory, or the marker exists
Link(p, from, taken) ==
  LET here == Exists /\ p \in dir.temps
  IN  /\ Step(p, from, IF ~here THEN "acquire"
                       ELSE IF dir.marker = None THEN "recheck" ELSE taken)
      /\ dir' = IF here /\ dir.marker = None THEN [dir EXCEPT !.marker = p] ELSE dir
      /\ UNCHANGED <<saw, dead>>

Claim(p) == Link(p, "link", "stale")

\* isReclaimMarkerStale: the marker's process is dead
CheckMarker(p) ==
  /\ Step(p, "stale", IF Exists /\ dir.marker \in dead THEN "unlink" ELSE "acquire")
  /\ UNCHANGED <<dir, saw, dead>>

RemoveMarker(p, from, to) ==
  /\ Step(p, from, to)
  /\ dir' = IF Exists THEN [dir EXCEPT !.marker = None] ELSE dir
  /\ UNCHANGED <<saw, dead>>

RemoveStale(p) == RemoveMarker(p, "unlink", "relink")

\* The second link throws when the marker is there again
ClaimAgain(p) == Link(p, "relink", "failed")

\* The receipt is read again under the marker
Recheck(p) ==
  /\ Step(p, "recheck", IF Exists /\ dir.receipt = saw[p] THEN "remove" ELSE "unmark")
  /\ UNCHANGED <<dir, saw, dead>>

RemoveLock(p) ==
  /\ Step(p, "remove", "unmark")
  /\ dir' = None
  /\ UNCHANGED <<saw, dead>>

Unmark(p) == RemoveMarker(p, "unmark", "acquire")

Die(p) ==
  /\ Alive(p) /\ Cardinality(dead) < MaxDeaths
  /\ dead' = dead \cup {p}
  /\ UNCHANGED <<dir, pc, saw>>

-----------------------------------------------------------------------------
Next ==
  \E p \in Processes :
    \/ Mkdir(p) \/ WriteOwnerReceipt(p) \/ Release(p) \/ RemoveOwn(p)
    \/ FindDead(p) \/ WriteTemp(p) \/ Claim(p) \/ CheckMarker(p) \/ RemoveStale(p)
    \/ ClaimAgain(p) \/ Recheck(p) \/ RemoveLock(p) \/ Unmark(p)
    \/ Die(p)

Spec == Init /\ [][Next]_vars

\* "only one process can create the marker, so a second reclaimer cannot
\* remove a lock that was already reclaimed and re-acquired by a third
\* process": no two living processes hold the lock (reclaimDeadWorkflowLock).
OneOwner ==
  \A p, q \in Processes : pc[p] = "held" /\ pc[q] = "held" /\ Alive(p) /\ Alive(q) => p = q
=============================================================================
