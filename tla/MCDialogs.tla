------------------------------ MODULE MCDialogs ------------------------------
EXTENDS Dialogs, TLC

CONSTANTS t1, t2

UpdatesAreAlike == Permutations({t1, t2})

(* Once updates overlapped no property asks what a value was meant for.     *)
Known(v) == IF v = None THEN None ELSE 1
Plain ==
  IF late > 0
    THEN <<user, [s \in DOMAIN subs |-> subs[s].status], lastSub, state,
           [k \in DOMAIN data |-> IF k = "subscription_id" THEN data[k]
                                    ELSE Known(data[k])],
           [t \in Updates |-> [update[t] EXCEPT !.meant = Known(@), !.value = Known(@),
                                                !.from = {}]],
           dialogs, late>>
    ELSE vars
=============================================================================
