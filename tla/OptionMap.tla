----------------------------- MODULE OptionMap -----------------------------
(***************************************************************************)
(* What a table of options promises: a map from names to values to which   *)
(* options are added, and in which the first values of a name stay.        *)
(***************************************************************************)
CONSTANTS Names, Values

VARIABLE options   \* a function from the names that were given to their values

TypeOK == \E given \in SUBSET Names : options \in [given -> Values]

Init == options = <<>>

Insert(name, values) ==
  options' = [n \in DOMAIN options \cup {name} |-> IF n \in DOMAIN options THEN options[n] ELSE values]

Next == \E name \in Names, values \in Values : Insert(name, values)

Spec == Init /\ [][Next]_options
=============================================================================
