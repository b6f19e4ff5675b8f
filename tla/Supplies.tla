------------------------------ MODULE Supplies ------------------------------
(***************************************************************************)
(* The arithmetic of the supplies library: what update_supplies_from_json  *)
(* (lib/suppliesData/src/supplies_module.c) does to the counters kept in   *)
(* shared memory.  Every counter is a C int; `+=` is compiled to an add    *)
(* that wraps, and a negative result is replaced by zero.                  *)
(***************************************************************************)
EXTENDS Integers

CONSTANTS
    Items,     \* the counters: fruits, vegetables, meat, water, antibiotics, ...
    IntMax     \* INT_MAX

ASSUME IntMaxAssumption == IntMax \in Nat \ {0}

IntMin == -IntMax - 1

\* The int that holds n: two's complement arithmetic modulo 2 * (INT_MAX + 1).
Wrap(n) == ((n + IntMax + 1) % (2 * (IntMax + 1))) - (IntMax + 1)

\* Mutant: the test for a negative result is missing.
AddUnclamped(counter, amount) == Wrap(counter + amount)

\* counter += amount; if (counter < 0) counter = 0;
AddStock(counter, amount) ==
    IF Wrap(counter + amount) < 0 THEN 0 ELSE Wrap(counter + amount)

\* The stock init_shared_memory_supplies leaves: every counter is zero.
EmptyStock == [i \in Items |-> 0]

\* An update names some of the counters; the others keep their value.
UpdateSupplies(stock, update) ==
    [i \in Items |-> IF i \in DOMAIN update THEN AddStock(stock[i], update[i])
                                            ELSE stock[i]]

Stocks == [Items -> 0 .. IntMax]
=============================================================================
