----------------------------- MODULE StreamBuffer -----------------------------
(* The buffer that keeps the readings for /read (Buffer<rdbus::Data>, type    *)
(* Stream): a deque of (time stored, reading) pairs that drops its oldest     *)
(* pairs when it grows past its size limit.  Readings are numbered in the     *)
(* order they were stored, so the deque holds the readings dropped+1..stored  *)
(* and a reading's number stands for its contents.                            *)
EXTENDS Integers

CONSTANT Capacity       \* maxBytes divided by sizeof(rdbus::Data)

ASSUME CapacityAssumption == Capacity \in Nat \ {0}

VARIABLES
    dropped,            \* how many readings have left the front of the deque
    stored,             \* how many readings were ever put in at its back
    stamp               \* the time each reading in the deque was stored

Buffered == (dropped + 1)..stored

BufferInit == dropped = 0 /\ stored = 0 /\ stamp = [k \in {} |-> 0]

DroppedAtLimit(n) ==                        \* a bug: >= for >
    IF n - Capacity + 1 > dropped THEN n - Capacity + 1 ELSE dropped

(* constrainSize: how many readings are gone once n have ever been stored.    *)
DroppedAfter(n) == IF n - Capacity > dropped THEN n - Capacity ELSE dropped

(* add: the n readings of one batch get the same time.                        *)
Add(n, now) ==
    /\ stored' = stored + n
    /\ dropped' = DroppedAfter(stored + n)
    /\ stamp' = [k \in (dropped' + 1)..stored' |->
                    IF k <= stored THEN stamp[k] ELSE now]

(* parseFrom: the first reading that std::upper_bound(time) may return, or    *)
(* stored + 1.  A binary search ends where the reading before is not later    *)
(* than the time and the reading at it is; that place is unique only when the *)
(* deque is sorted by time.                                                   *)
From(k, time) ==
    /\ k \in (dropped + 1)..(stored + 1)
    /\ k > dropped + 1 => stamp[k - 1] <= time
    /\ k <= stored => time < stamp[k]
=============================================================================
