------------------------------ MODULE MCGenesis ------------------------------
(* Genesis on two sets of network definitions: one parachain and every kind of *)
(* relay chain; and three parachains, the first two in one batch, the first of *)
(* every kind, with names that repeat and two that clash.                      *)
EXTENDS Genesis

Relay(spec, keys, staking, fault) ==
    [spec |-> spec, keys |-> keys, staking |-> staking, fault |-> fault]

Collators(id) ==
    CASE id = "2000" -> <<<<"alice">>, <<"bob">>, <<"bob">>, <<"Alice">>>>
      [] id = "2001" -> <<<<"bob">>>>
      [] id = "2002" -> <<<<"bob", 0>>, <<"bob", 1>>, <<"alice">>, <<"alice">>>>

MCCapital == [w \in {"alice", "bob"} |-> IF w = "alice" THEN "Alice" ELSE "Bob"]

ParaOf(id, chain, spec, cumulus, add, register) ==
    [id |-> id, collators |-> Collators(id), chain |-> chain, spec |-> spec,
     cumulus |-> cumulus, add |-> add, register |-> register]

Nodes == <<[name |-> <<"alice">>, validator |-> TRUE],
           [name |-> <<"bob">>, validator |-> FALSE]>>

RelayConfigs ==
    {[nodes |-> nodes,
      paras |-> <<ParaOf("2000", "x", "command", TRUE, add, TRUE)>>,
      relay |-> Relay(spec, keys, staking, fault),
      override |-> override, nominators |-> nominators, hrmp |-> hrmp] :
        nodes \in {Nodes, <<Nodes[2]>>},
        add \in BOOLEAN,
        spec \in {"command", "raw"},
        keys \in {"session", "palletSession", "aura"},
        staking \in {"no", "empty", "stakers"},
        fault \in {"none", "overrides", "clear", "balances", "authorities", "hrmp"},
        override \in {"none", "paras"},
        nominators \in BOOLEAN,
        hrmp \in BOOLEAN}

ParaConfigs ==
    {[nodes |-> Nodes,
      paras |-> <<ParaOf("2000", chain, spec, cumulus, add, register),
                  ParaOf(twin, "x", "command", TRUE, ~add, TRUE),
                  ParaOf("2002", "x", "raw", TRUE, TRUE, TRUE)>>,
      relay |-> Relay("command", "session", "empty", "none"),
      override |-> "none", nominators |-> FALSE, hrmp |-> FALSE] :
        chain \in {"x", "y"},
        spec \in {"command", "plain", "raw"},
        cumulus \in BOOLEAN,
        add \in BOOLEAN,
        register \in BOOLEAN,
        twin \in {"2000", "2001"}}

MCConfigs == RelayConfigs \cup ParaConfigs
=============================================================================
