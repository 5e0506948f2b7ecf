---------------------------- MODULE MCNodeConfig ----------------------------
\* Two terminals, two wallets and two prices.
EXTENDS NodeConfig, TLC
CONSTANTS c1, c2, old, new
Symmetry == Permutations(Commands)
MCPrices == {4000, 5000}
=============================================================================
