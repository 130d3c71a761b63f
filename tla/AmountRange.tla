---------------------------- MODULE AmountRange -----------------------------
(***************************************************************************)
(* The amount_range aggregate of crates/pipeline/src/datafusion_query.rs:  *)
(* MAX(amount) - MIN(amount), evaluated by the engine in phases.  Each     *)
(* accumulator reads some of the rows, gives up its partial state, and     *)
(* takes in partial states of others, in whatever grouping and order the   *)
(* engine's partitions, spills and merges happen to choose; the engine     *)
(* (external) sees to it that no row is read twice.                        *)
(***************************************************************************)
EXTENDS Integers

CONSTANTS
    Rows,          \* the rows of the group
    Accumulators,  \* the accumulators at work
    Limit,         \* the largest unscaled Decimal128(10, 2)
    Null

ASSUME LimitAssumption == Limit \in Nat
ASSUME NullAssumption == Null \notin Int

Amounts == -Limit..Limit

VARIABLES
    amount,   \* the rows' values
    unread,   \* rows no accumulator has read
    acc,      \* each accumulator, with the rows its state stands for
    partial,  \* partial states given up and not yet merged
    range     \* what evaluate returned, as a set of at most one

rangeVars == <<amount, unread, acc, partial, range>>

State == [min : Amounts \union {Null}, max : Amounts \union {Null}, rows : SUBSET Rows]

(* AmountRangeAccumulator::default *)
Fresh == [min |-> Null, max |-> Null, rows |-> {}]

GreaterOrZero(current, value) ==
    LET known == IF current = Null THEN 0 ELSE current
    IN  IF value > known THEN value ELSE known

(* map_or(value, |min| min.min(value)), and its counterpart for the max. *)
Lesser(current, value) ==
    IF current = Null \/ value < current THEN value ELSE current
Greater(current, value) ==
    IF current = Null \/ value > current THEN value ELSE current

Idle ==
    /\ unread = Rows
    /\ acc = [a \in Accumulators |-> Fresh]
    /\ partial = {}
    /\ range = {}

RangeInit == amount \in [Rows -> Amounts \union {Null}] /\ Idle

(* One value of update_batch; a null is passed over. *)
Update(a, row) ==
    /\ range = {} /\ row \in unread
    /\ unread' = unread \ {row}
    /\ acc' = [acc EXCEPT ![a] =
                 [min |-> IF amount[row] = Null THEN @.min ELSE Lesser(@.min, amount[row]),
                  max |-> IF amount[row] = Null THEN @.max ELSE Greater(@.max, amount[row]),
                  rows |-> @.rows \union {row}]]
    /\ UNCHANGED <<amount, partial, range>>

(* state: the two fields of the partial state; a fresh accumulator follows. *)
GiveUp(a) ==
    /\ range = {}
    /\ partial' = partial \union {acc[a]}
    /\ acc' = [acc EXCEPT ![a] = Fresh]
    /\ UNCHANGED <<amount, unread, range>>

(* merge_batch, of one partial state. *)
Merge(a, s) ==
    /\ range = {} /\ s \in partial
    /\ partial' = partial \ {s}
    /\ acc' = [acc EXCEPT ![a] =
                 [min |-> IF s.min = Null THEN @.min ELSE Lesser(@.min, s.min),
                  max |-> IF s.max = Null THEN @.max ELSE Greater(@.max, s.max),
                  rows |-> @.rows \union s.rows]]
    /\ UNCHANGED <<amount, unread, range>>

(* evaluate, of the accumulator everything was merged into. *)
Evaluate(a) ==
    /\ range = {} /\ acc[a].rows = Rows
    /\ range' = {IF acc[a].min # Null /\ acc[a].max # Null
                  THEN acc[a].max - acc[a].min ELSE Null}
    /\ UNCHANGED <<amount, unread, acc, partial>>

RangeNext ==
    \E a \in Accumulators :
        \/ \E row \in unread : Update(a, row)
        \/ GiveUp(a)
        \/ \E s \in partial : Merge(a, s)
        \/ Evaluate(a)

RangeSpec == RangeInit /\ [][RangeNext]_rangeVars

-----------------------------------------------------------------------------
(* Properties *)

RangeTypeOK ==
    /\ amount \in [Rows -> Amounts \union {Null}]
    /\ unread \in SUBSET Rows
    /\ acc \in [Accumulators -> State]
    /\ partial \in SUBSET State
    /\ range \in SUBSET (Int \union {Null})

(* What the state says of its rows: the extremes of their values, or that  *)
(* none of them has one.                                                   *)
Extremes(s) ==
    /\ (s.min = Null) <=> (\A r \in s.rows : amount[r] = Null)
    /\ (s.max = Null) <=> (\A r \in s.rows : amount[r] = Null)
    /\ s.min # Null => /\ \E r \in s.rows : amount[r] = s.min
                       /\ \A r \in s.rows : amount[r] # Null => s.min <= amount[r]
    /\ s.max # Null => /\ \E r \in s.rows : amount[r] = s.max
                       /\ \A r \in s.rows : amount[r] # Null => amount[r] <= s.max

(* The strengthening: every state anywhere describes its own rows.         *)
StatesDescribeTheirRows ==
    /\ \A a \in Accumulators : Extremes(acc[a])
    /\ \A s \in partial : Extremes(s)

(* The answer does not depend on how the rows were split, which partial    *)
(* states were empty, or in what order they were merged: it is the largest *)
(* difference between two values of the group, null just when the group    *)
(* has no value, and fits the eleven digits declared for it.               *)
RangeIsOfTheWholeGroup ==
    \A x \in range :
        /\ (x = Null) <=> (\A r \in Rows : amount[r] = Null)
        /\ x # Null =>
             /\ x \in 0..(2 * Limit)
             /\ \E r, q \in Rows : amount[r] # Null /\ amount[q] # Null
                                   /\ x = amount[r] - amount[q]
             /\ \A r, q \in Rows : amount[r] # Null /\ amount[q] # Null
                                   => amount[r] - amount[q] <= x
=============================================================================
