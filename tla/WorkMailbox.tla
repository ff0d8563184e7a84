------------------------------ MODULE WorkMailbox ------------------------------
(***************************************************************************)
(* The durable mailbox of coordination/workMailbox.ts, as operators on its *)
(* record.  A mailbox keeps the next sequence number, one claimed batch    *)
(* ("processing"), one batch of signals that wait ("pending") and the      *)
(* bounded list of dedupe keys it settled last.                            *)
(*                                                                         *)
(* A signal is known by its sequence number: `refs' of a batch is the set  *)
(* of the signals whose entity references it carries.  Reasons, sources    *)
(* and timestamps are left out: they are merged like the references and    *)
(* decide nothing here.  A dedupe key is a member of Keys, or the number   *)
(* of the signal where the code writes `sequence:n' for a caller that      *)
(* gives none.                                                             *)
(***************************************************************************)
EXTENDS Integers, Sequences, SequencesExt, FiniteSets

CONSTANTS Keys,         \* dedupe keys that callers give
          RecentLimit   \* RECENT_DEDUPE_KEY_LIMIT

ASSUME KeysAssumption == Keys \cap Int = {}
ASSUME RecentLimitAssumption == RecentLimit \in Nat \ {0}

NoBatch == [from |-> 0, to |-> 0, count |-> 0, keys |-> <<>>, refs |-> {}]

NoClaim == [id |-> 0, wake |-> 0, batch |-> NoBatch]

\* createWorkMailbox
EmptyMailbox ==
  [next |-> 1, processing |-> NoClaim, pending |-> NoBatch, recent |-> <<>>]

\* appendUnique: what is already there keeps its place.  Where nothing is, the
\* incoming keys follow as they are.
AppendUnique(existing, incoming) ==
  IF ToSet(existing) \cap ToSet(incoming) = {} THEN existing \o incoming
  ELSE existing \o SelectSeq(incoming, LAMBDA k : k \notin ToSet(existing))

\* rememberDedupeKeys keeps the last RecentLimit keys
Remember(recent, keys) ==
  LET all == AppendUnique(recent, keys)
  IN  IF Len(all) <= RecentLimit THEN all
      ELSE SubSeq(all, Len(all) - RecentLimit + 1, Len(all))

MergeBatches(left, right) ==
  [from  |-> IF left.from <= right.from THEN left.from ELSE right.from,
   to    |-> IF left.to >= right.to THEN left.to ELSE right.to,
   count |-> left.count + right.count,
   keys  |-> AppendUnique(left.keys, right.keys),
   refs  |-> left.refs \cup right.refs]

\* The batch of a mailbox field that may be null, merged with a newer one
Merged(old, new) ==
  IF old = NoBatch THEN new
  ELSE IF new = NoBatch THEN old ELSE MergeBatches(old, new)

\* Mutant: the claimed batch is not looked at
ContainsDedupeKey_IgnoresClaim(m, k) ==
  k \in ToSet(m.recent) \cup ToSet(m.pending.keys)

ContainsDedupeKey(m, k) ==
  k \in ToSet(m.recent) \cup ToSet(m.pending.keys)
        \cup ToSet(m.processing.batch.keys)

\* A caller without a key (k = 0) gets the one of the sequence number
DedupeKey(m, k) == IF k = 0 THEN m.next ELSE k

EnqueueSignal(m, k) ==
  LET key      == DedupeKey(m, k)
      incoming == [from |-> m.next, to |-> m.next, count |-> 1,
                   keys |-> <<key>>, refs |-> {m.next}]
  IN  IF ContainsDedupeKey(m, key) THEN m
      ELSE [m EXCEPT !.next = @ + 1, !.pending = Merged(@, incoming)]

ClaimPending(m, id, wake) ==
  [m EXCEPT !.processing = [id |-> id, wake |-> wake, batch |-> m.pending],
            !.pending = NoBatch]

CompleteProcessing(m) ==
  [m EXCEPT !.processing = NoClaim,
            !.recent = Remember(@, m.processing.batch.keys)]

\* Mutant: the released batch replaces what arrived since the claim
ReleaseProcessing_Overwrites(m) ==
  [m EXCEPT !.processing = NoClaim, !.pending = m.processing.batch]

ReleaseProcessing(m) ==
  [m EXCEPT !.processing = NoClaim,
            !.pending = Merged(m.processing.batch, @)]

\* consumePendingBatch without a prefix
ConsumePendingBatch(m) ==
  [m EXCEPT !.recent = Remember(@, m.pending.keys), !.pending = NoBatch]

----------------------------------------------------------------------------
(* validateWorkMailbox and parseBatch: what every operation above checks   *)
(* before and after, throwing when it does not hold.                       *)

ValidBatch(b) ==
  /\ b.from >= 1 /\ b.to >= b.from
  /\ b.count >= 1 /\ b.count <= b.to - b.from + 1

Valid(m) ==
  LET batches == {m.processing.batch, m.pending} \ {NoBatch}
  IN  /\ Len(m.recent) <= RecentLimit
      /\ \A b \in batches : ValidBatch(b) /\ b.to < m.next
      /\ \A b \in batches : ToSet(b.keys) \cap ToSet(m.recent) = {}
      /\ ToSet(m.processing.batch.keys) \cap ToSet(m.pending.keys) = {}

(* Signals a mailbox still owes *)
Owed(m) == m.processing.batch.refs \cup m.pending.refs
=============================================================================
