------------------------ MODULE MCSessionPersistence ------------------------
(***************************************************************************)
(* For TLC: only the order of the stamps tells behaviours apart, so a      *)
(* state is seen with each stamp replaced by its rank among those that     *)
(* still stand.                                                            *)
(***************************************************************************)
EXTENDS PersistenceDocs

Pairs == {slot, hand, loaded.pair} \cup {files[s] : s \in Sessions}
Stamps == {pair[h].at : pair \in Pairs, h \in Halves}
Rank(n) == Cardinality({m \in Stamps : m < n})
Ranked(pair) == [h \in Halves |-> [pair[h] EXCEPT !.at = Rank(pair[h].at)]]

View ==
  <<Ranked(slot), Ranked(hand), [s \in Sessions |-> Ranked(files[s])],
    loaded.session, Ranked(loaded.pair), wpc, stop, cell, faults,
    phase, driver, owed, shown, committed, known, rows, history, fire, commands, updates,
    turns, minted, launches, work, home, revisited>>
=============================================================================
