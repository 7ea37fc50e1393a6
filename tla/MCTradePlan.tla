----------------------------- MODULE MCTradePlan -----------------------------
EXTENDS TradePlan

\* The strategies of the file have no portfolio; the entries have one each,
\* dealt out in any order, or share the only one there is.
MCPortfolioOf ==
  CHOOSE f \in [Strategies -> Portfolios \cup {None}] :
    /\ \A s \in FileStrategies : f[s] = None
    /\ \A e \in Entries : f[e] # None
    /\ \A p \in Portfolios : \E e \in Entries : f[e] = p

=============================================================================
