------------------------------- MODULE MCReport -------------------------------
(* Report with trades that lose, and trades that win less than is shown.     *)
EXTENDS Report, TLC

SmallPercents == {-2, 1}

\* GROUP BY ticker treats all alike.
TickerSymmetry == Permutations(Tickers)

===============================================================================
