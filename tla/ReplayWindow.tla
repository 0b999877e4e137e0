---------------------------- MODULE ReplayWindow ----------------------------
(***************************************************************************)
(* The sliding anti-replay window of SecureChannel: the highest counter    *)
(* accepted so far and a bitmap of the WindowSize counters that end at it. *)
(* The bitmap is the set of its one bits; bit i stands for the counter     *)
(* highest - i.                                                            *)
(***************************************************************************)
EXTENDS Integers

CONSTANT WindowSize

ASSUME WindowSizeAssumption == WindowSize \in Nat \ {0}

EmptyWindow == [highest |-> -1, bitmap |-> {}]

\* Mutant: the oldest bit is off by one.
FreshOffByOne(w, n) ==
  \/ n > w.highest
  \/ /\ w.highest - n <= WindowSize
     /\ (w.highest - n) \notin w.bitmap

\* _check_freshness returns without raising ReplayError.
Fresh(w, n) ==
  \/ n > w.highest
  \/ /\ w.highest - n < WindowSize
     /\ (w.highest - n) \notin w.bitmap

\* (bitmap << shift) & mask; a shift of the whole width or more clears it.
Shifted(bitmap, shift) ==
  {b \in 0 .. (WindowSize - 1) : (b - shift) \in bitmap}

\* _mark_seen.
MarkSeen(w, n) ==
  IF n > w.highest
  THEN [highest |-> n, bitmap |-> Shifted(w.bitmap, n - w.highest) \cup {0}]
  ELSE [w EXCEPT !.bitmap = @ \cup {w.highest - n}]
=============================================================================
