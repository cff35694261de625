----------------------------- MODULE Portfolio ------------------------------
(* PortfolioReconciler: what the exchange holds of each asset against what    *)
(* the local ledger expects.  Balances are functions, so that an asset cannot *)
(* come twice; both collections are keyed by the asset.                       *)
EXTENDS Integers

ExchangeAssetBalance(available, locked) ==
    [available |-> available, locked |-> locked, total |-> available + locked]
NothingHeld == ExchangeAssetBalance(0, 0)

LocalAssetBalance == {b \in [expected : Nat, managed : Nat] : b.managed <= b.expected}
NothingExpected == [expected |-> 0, managed |-> 0]

BalanceOf(balances, asset, nothing) ==
    IF asset \in DOMAIN balances THEN balances[asset] ELSE nothing

\* Either the exchange holds something nobody accounts for, or it lacks something.
AssetReconciliation(held, local) ==
    [held |-> held, local |-> local,
     unknown |-> IF held.total >= local.expected THEN held.total - local.expected ELSE 0,
     shortfall |-> IF held.total >= local.expected THEN 0 ELSE local.expected - held.total]

\* mutant: only the assets that both sides know
MutantReconcile(exchange, local) ==
    [a \in DOMAIN exchange \cap DOMAIN local |->
        AssetReconciliation(BalanceOf(exchange, a, NothingHeld),
                            BalanceOf(local, a, NothingExpected))]

Reconcile(exchange, local) ==
    [a \in DOMAIN exchange \cup DOMAIN local |->
        AssetReconciliation(BalanceOf(exchange, a, NothingHeld),
                            BalanceOf(local, a, NothingExpected))]

IsBalanced(asset) == asset.unknown = 0 /\ asset.shortfall = 0
AllowsNewEntries(snapshot) == \A a \in DOMAIN snapshot : IsBalanced(snapshot[a])
=============================================================================
