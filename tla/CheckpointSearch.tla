-------------------------- MODULE CheckpointSearch --------------------------
(***************************************************************************)
(* Reputation.getValueAt, one step per turn of its loop: two shortcuts,    *)
(* then a binary search.  It runs on any history and for any block.        *)
(***************************************************************************)
EXTENDS Checkpoints

CONSTANTS Histories,    \* the arrays it is called with
          Blocks        \* the blocks it is asked for

ASSUME HistoriesAssumption == Histories \subseteq History
ASSUME BlocksAssumption == Blocks \subseteq Nat

\* `min` and `max` index from 0, as in the code.
VARIABLES checkpoints, _block, min, max, pc, result

searchVars == <<checkpoints, _block, min, max, pc, result>>

len == Len(checkpoints)
at(i) == checkpoints[i + 1]

\* Types of the search.
SearchTypeOK ==
    /\ checkpoints \in History /\ _block \in Nat
    /\ min \in Nat /\ max \in Nat
    /\ pc \in {"start", "search", "done"}
    /\ result \in Nat

SearchInit ==
    /\ checkpoints \in Histories /\ _block \in Blocks
    /\ min = 0 /\ max = 0 /\ result = 0
    /\ pc = "start"

return(v) == pc' = "done" /\ result' = v /\ UNCHANGED <<min, max>>

Shortcut ==
    /\ pc = "start"
    /\ UNCHANGED <<checkpoints, _block>>
    /\ \/ len = 0 /\ return(0)
       \/ len > 0 /\ _block >= at(len - 1).from /\ return(at(len - 1).value)
       \/ len > 0 /\ _block < at(len - 1).from /\ _block < at(0).from /\ return(0)
       \/ /\ len > 0 /\ at(0).from <= _block /\ _block < at(len - 1).from
          /\ min' = 0 /\ max' = len - 1
          /\ pc' = "search" /\ UNCHANGED result

\* Rounding up makes the step progress when min is taken.
mid == (max + min + 1) \div 2
BeforeBlock(i) == at(i).from < _block                        \* faulty variant
AtOrBeforeBlock(i) == at(i).from <= _block

Halve ==
    /\ pc = "search" /\ max > min
    /\ IF AtOrBeforeBlock(mid)
       THEN min' = mid /\ UNCHANGED max
       ELSE max' = mid - 1 /\ UNCHANGED min
    /\ UNCHANGED <<checkpoints, _block, pc, result>>

Found ==
    /\ pc = "search" /\ max <= min
    /\ return(at(min).value)
    /\ UNCHANGED <<checkpoints, _block>>

SearchNext == Shortcut \/ Halve \/ Found

SearchSpec == SearchInit /\ [][SearchNext]_searchVars
-----------------------------------------------------------------------------
\* What getValueAt returns is the value of the last checkpoint made at the
\* block or before, and 0 when there is none; every index it reads exists.
ReturnsValueAt == pc = "done" => result = ValueAt(checkpoints, _block)

\* The search has the answer between min and max.
AnswerInRange == pc = "search" =>
    /\ 0 <= min /\ min <= max /\ max < len
    /\ at(min).from <= _block
    /\ max + 1 < len => _block < at(max + 1).from

\* Each turn of the loop shrinks the range, so the call returns.
RangeShrinks == [][pc = "search" /\ pc' = "search" =>
                      max' - min' < max - min]_searchVars
=============================================================================
