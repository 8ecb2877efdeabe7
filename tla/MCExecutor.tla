----------------------------- MODULE MCExecutor -----------------------------
(* The users of the instance: accounts, a placeholder, a contract, nobody.    *)
(* The messages: all kinds, senders, receivers and sequences with fees that   *)
(* do and do not cover the base fee, premiums that the fee cap cuts, admits   *)
(* and that are negative, and inclusion costs below and at the limit; and     *)
(* those that are refused for their limit, their inclusion cost or their fee  *)
(* cap, or fail because they transfer a negative amount.                      *)
EXTENDS Executor, TLC

MCUserActors ==
    {[code |-> "account", eam |-> FALSE, sequence |-> 0, balance |-> 14],
     [code |-> "placeholder", eam |-> TRUE, sequence |-> 0, balance |-> 9],
     [code |-> "other", eam |-> FALSE, sequence |-> 0, balance |-> 1],
     NoActor}

Terms(values, limits, feeCaps, premiums, inclusions) ==
    [value : values, limit : limits, feeCap : feeCaps, premium : premiums,
     inclusion : inclusions]
MCTerms ==
    UNION {Terms({0, 2}, {3}, {1, 4}, {-1, 1, 3}, {1, 6}),
           Terms({0}, {0}, {4}, {1}, {1}),
           Terms({0}, {3}, {4}, {1}, {7}),
           Terms({0}, {3}, {-1}, {1}, {1}),
           Terms({-1}, {3}, {4}, {1}, {1})}

MCMessages ==
    {[kind |-> kind, from |-> from, to |-> to, sequence |-> sequence, value |-> terms.value,
      limit |-> terms.limit, feeCap |-> terms.feeCap, premium |-> terms.premium,
      inclusion |-> terms.inclusion] :
        kind \in {"explicit", "implicit"}, from \in Ids \cup {Unresolved}, to \in Users,
        sequence \in {0, 1}, terms \in MCTerms}

Permuted == Permutations(Users)
=============================================================================
