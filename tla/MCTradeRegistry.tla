---------------------------- MODULE MCTradeRegistry ----------------------------
EXTENDS TradeRegistry, TLC

\* Events are interchangeable.  Executions are as well, and so are threads.
Symmetry ==
  Permutations(Execution) \union Permutations(Thread) \union Permutations(Event)
=============================================================================
