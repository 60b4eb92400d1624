------------------------- MODULE MCInvestmentWindow -------------------------
EXTENDS InvestmentWindow

CONSTANTS old, mid, new, r1

\* Three trades on three days, listed newest first.
MCTradeDate == [i \in Trades |-> CASE i = old -> 0 [] i = mid -> 1 [] i = new -> 2]
MCRank == [i \in Trades |-> 2 - MCTradeDate[i]]
=============================================================================
