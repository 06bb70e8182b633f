\* Two add dialogs, edits, cancels and wipes of what they made, and one overlap.
SPECIFICATION Spec
CONSTANTS
  t1 = t1  t2 = t2
  Updates = {t1, t2}
  FirstSubs = 0
  MaxDialogs = 2
  MaxSubs = 2
  MaxLate = 1
INVARIANTS TypeOK EditsHitTheirSubscription AddedAsEntered StatesKeepTheirData OwnersExist
PROPERTIES CancelledStaysCancelled
SYMMETRY UpdatesAreAlike
VIEW Plain
