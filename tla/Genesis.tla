------------------------------- MODULE Genesis -------------------------------
(***************************************************************************)
(* What start() (orchestrator.ts) makes before it spawns a node, on the    *)
(* native provider: the names and keys of the nodes (configGenerator.ts),  *)
(* the chain specs and files of the parachains (paras.ts), several at a    *)
(* time and partly in the same files, and the genesis of the relay chain   *)
(* (chainSpec.ts), customised step by step in one file; then how each      *)
(* parachain gets on the relay chain.                                      *)
(*                                                                         *)
(* A key is what nameCase() makes of the seed, the name it is made from.   *)
(* A spec is what of it the steps change.  The commands that make specs    *)
(* and files are external, and so is the chain that parachains are         *)
(* registered on.                                                          *)
(***************************************************************************)
EXTENDS Names, FiniteSets

CONSTANTS
    Configs,       \* the configurations the user may start
    Capital,       \* words that begin with a small letter, and with which instead
    Concurrency    \* opts.spawnConcurrency

\* The authorities that a chain spec comes with: no name is empty.
Default == <<>>

\* The network definition: the names have a word, and no parachain has id 0, which
\* getUniqueName() takes for none.
ASSUME GenesisAssumption ==
    /\ Concurrency \in Nat \ {0}
    /\ Capital = [w \in DOMAIN Capital |-> Capital[w]]
    /\ \A c \in Configs :
         /\ \A i \in DOMAIN c.nodes : IsName(c.nodes[i].name)
         /\ Len(c.paras) \in Nat
         /\ DOMAIN c.paras = 1..Len(c.paras)
         /\ \A p \in DOMAIN c.paras :
              /\ c.paras[p].id # NoPara
              /\ \A i \in DOMAIN c.paras[p].collators : IsName(c.paras[p].collators[i])
         /\ {c.nominators, c.hrmp} \subseteq BOOLEAN

VARIABLES
    conf,         \* the network definition
    stage,        \* where start() is
    seed,         \* the seed of the keys, for each name asked for so far
    shared,       \* the file <chain>-plain.json that build-spec writes
    taken,        \* how many parachains series() has begun
    task,         \* where generateParachainFiles() is, for each of them
    plain,        \* each parachain's own plain chain spec
    files,        \* the parachains with their state and wasm files
    stakingBond,  \* the variable of chainSpec.ts is set
    relay,        \* the relay chain's plain spec
    relayRaw,     \* its raw spec
    swallowed,    \* customizePlainRelayChain() has caught an error
    included,     \* the parachains whose registration is in a block,
    registered,   \* and those of them that it has put on the relay chain
    exit          \* what ended the program

paraVars == <<shared, taken, task, plain, files>>
relayVars == <<stakingBond, relay, relayRaw, swallowed, included, registered>>
vars == <<nameVars, conf, stage, seed, paraVars, relayVars, exit>>

Running == exit = "none"

Paras == DOMAIN conf.paras
Para(p) == conf.paras[p]

-----------------------------------------------------------------------------
(* The configuration.                                                      *)

\* The calls of getUniqueName() that generateNetworkSpec() makes: <<0, i>> for
\* the i-th node of the relay chain, <<p, i>> for the i-th collator of parachain p
\* and, after its collators, for the parachain itself.
Calls ==
    ({0} \X DOMAIN conf.nodes) \cup
    UNION {{p} \X (1..(Len(Para(p).collators) + 1)) : p \in Paras}

Earlier(c, d) == c[1] < d[1] \/ (c[1] = d[1] /\ c[2] < d[2])

IsCollator(c) == c[1] # 0 /\ c[2] \in DOMAIN Para(c[1]).collators

\* What each call asks for, and for which parachain.
Requested(c) ==
    CASE c[1] = 0      -> [name |-> conf.nodes[c[2]].name, para |-> NoPara]
      [] IsCollator(c) -> [name |-> Para(c[1]).collators[c[2]], para |-> Para(c[1]).id]
      [] OTHER         -> [name |-> <<Para(c[1]).id>>, para |-> NoPara]

\* The seed of the keys: a collator keeps its own name if it can.
SeedOf(r) ==
    IF r.para # NoPara /\ CanUseSanitizedNameAsSeed(r.para, r.name)
    THEN r.name
    ELSE UniqueName(r.name)

\* getNodeFromConfig(), getCollatorNodeFromConfig() and, for a parachain itself,
\* the loop of generateNetworkSpec().
NameNext ==
    /\ Running
    /\ stage = "config"
    /\ \E c \in Calls \ DOMAIN seed :
         /\ \A d \in Calls : Earlier(d, c) => d \in DOMAIN seed
         /\ GetUniqueName(Requested(c).name, Requested(c).para)
         /\ seed' = Put(seed, c, SeedOf(Requested(c)))
    /\ UNCHANGED <<conf, stage, paraVars, relayVars, exit>>

AllNamed == Calls \subseteq DOMAIN seed

\* nameCase(), which is to upper case the first letter of the first word.
Capitalised(word) == IF word \in DOMAIN Capital THEN Capital[word] ELSE word
nameCase(name) == [name EXCEPT ![1] = Capitalised(@)]

\* generateKeyForNode()
Key(c) == nameCase(seed[c])

Validators == {i \in DOMAIN conf.nodes : conf.nodes[i].validator}
KeysOf(nodes) == {Key(<<0, i>>) : i \in nodes}
ValidatorKeys == KeysOf(Validators)
NodeKeys == KeysOf(DOMAIN conf.nodes)

\* The collators of parachain p that have their keys.
CollatorsOf(p) == {c \in DOMAIN seed : c[1] = p /\ IsCollator(c)}

-----------------------------------------------------------------------------
(* start(): the relay chain's spec, and the parachains in batches.         *)

Stage(from, to) ==
    /\ Running
    /\ stage = from
    /\ stage' = to

\* setupChainSpec() of the relay chain: a file of the user, or a command by way
\* of a temporary node, alone at this time.
SetupRelaySpec ==
    /\ AllNamed
    /\ Stage("config", "paras")
    /\ IF conf.relay.spec = "command"
       THEN GetUniqueName(<<"temp">>, NoPara)
       ELSE UNCHANGED nameVars
    /\ UNCHANGED <<conf, seed, paraVars, relayVars, exit>>

AllDone == \A p \in 1..taken : task[p] = "done"

LowerOf(a, b) == IF a <= b THEN a ELSE b

\* series(parachainPromiseGenerators, opts.spawnConcurrency)
BeginBatch ==
    /\ Running
    /\ stage = "paras"
    /\ AllDone
    /\ taken < Len(conf.paras)
    /\ taken' = LowerOf(Len(conf.paras), taken + Concurrency)
    /\ task' = [p \in Paras |-> IF taken < p /\ p <= taken' THEN "begin" ELSE task[p]]
    /\ UNCHANGED <<nameVars, conf, stage, seed, shared, plain, files, relayVars, exit>>

-----------------------------------------------------------------------------
(* generateParachainFiles().                                               *)

TaskStep(p, from, to) ==
    /\ Running
    /\ task[p] = from
    /\ task' = [task EXCEPT ![p] = to]
    /\ UNCHANGED <<conf, stage, seed, taken, relayVars>>

\* A parachain that is not cumulus-based has no chain spec of its own.
NoSpecNeeded(p) ==
    /\ ~Para(p).cumulus
    /\ TaskStep(p, "begin", "files")
    /\ UNCHANGED <<nameVars, shared, plain, files, exit>>

\* chain_spec_path: a copy of the user's file.
CopySpec(p) ==
    /\ Para(p).cumulus
    /\ Para(p).spec # "command"
    /\ TaskStep(p, "begin", "customise")
    /\ plain' = [plain EXCEPT ![p] = "whole"]
    /\ UNCHANGED <<nameVars, shared, files, exit>>

\* setupChainSpec(): the shell opens, and truncates, the command's output file,
\* which is named after parachain.chain alone ("undefined" when there is none).
BuildSpec(p) ==
    /\ Para(p).cumulus
    /\ Para(p).spec = "command"
    /\ TaskStep(p, "begin", "building")
    /\ GetUniqueName(<<"temp">>, NoPara)
    /\ shared' = [shared EXCEPT ![Para(p).chain] =
                    [writers |-> @.writers \cup {p}, whole |-> FALSE, mixed |-> @.writers # {}]]
    /\ UNCHANGED <<plain, files, exit>>

\* Mutant of SpecBuilt: a command that failed is taken for one that did not.
SpecBuiltOrNot(p) ==
    /\ TaskStep(p, "building", "copying")
    /\ \E whole \in BOOLEAN :
         shared' = [shared EXCEPT ![Para(p).chain].writers = @ \ {p},
                                  ![Para(p).chain].whole = whole]
    /\ UNCHANGED <<nameVars, plain, files, exit>>

\* The command has written its output.  If the file was opened a second time while
\* it was written, what of the two outputs is in it is open, until one is written
\* alone again.
SpecBuilt(p) ==
    /\ TaskStep(p, "building", "copying")
    /\ \E whole \in BOOLEAN :
         /\ ~shared[Para(p).chain].mixed => whole
         /\ shared' = [shared EXCEPT ![Para(p).chain].writers = @ \ {p},
                                     ![Para(p).chain].whole = whole]
    /\ UNCHANGED <<nameVars, plain, files, exit>>

\* The copy of the command's output to the parachain's own file.
CopyBuilt(p) ==
    /\ TaskStep(p, "copying", "customise")
    /\ plain' = [plain EXCEPT ![p] = IF shared[Para(p).chain].whole THEN "whole" ELSE "torn"]
    /\ UNCHANGED <<nameVars, shared, files, exit>>

\* readAndParseChainSpec(), which ends the program when it cannot parse the file.
Parses(p) == plain[p] # "torn"

\* isRawSpec() and the edits of the plain spec, with the keys of the collators.
CustomisePara(p) ==
    /\ TaskStep(p, "customise", "raw")
    /\ exit' = IF Parses(p) THEN exit ELSE "torn"
    /\ UNCHANGED <<nameVars, shared, plain, files>>

\* The raw spec, made by a command or copied, and then given its identity.
GenerateRaw(p) ==
    /\ TaskStep(p, "raw", "files")
    /\ IF Para(p).spec = "raw"
       THEN UNCHANGED nameVars
       ELSE GetUniqueName(<<"temp">>, NoPara)
    /\ UNCHANGED <<shared, plain, files, exit>>

RelayIsRaw == conf.relay.spec = "raw"

\* stateAndWasmAreNeeded
FilesNeeded(p) == ~(RelayIsRaw /\ Para(p).add)

\* The commands of a temporary collator make the state and the wasm.
GenerateFiles(p) ==
    /\ TaskStep(p, "files", "done")
    /\ IF FilesNeeded(p)
       THEN /\ GetUniqueName(<<"temp-collator">>, NoPara)
            /\ files' = files \cup {p}
       ELSE UNCHANGED <<nameVars, files>>
    /\ UNCHANGED <<shared, plain, exit>>

\* A directory, a command, a copy or an edit fails, and the promise is rejected.
\* What build-spec has written is not a spec then.
ParaFails(p) ==
    /\ \E from \in {"begin", "building", "copying", "customise", "raw", "files"} :
         TaskStep(p, from, "failed")
    /\ shared' = [shared EXCEPT ![Para(p).chain].writers = @ \ {p}]
    /\ UNCHANGED <<nameVars, plain, files, exit>>

-----------------------------------------------------------------------------
(* start(): the genesis of the relay chain.                                *)

\* Mutant of AddParas: addParachainToGenesis() for every parachain.
AddEveryPara ==
    /\ AllDone
    /\ taken = Len(conf.paras)
    /\ Stage("paras", IF RelayIsRaw THEN "raw" ELSE "overrides")
    /\ relay' = [relay EXCEPT !.paras = Paras]
    /\ UNCHANGED <<nameVars, conf, seed, paraVars, stakingBond, relayRaw, swallowed,
                   included, registered, exit>>

\* The loop of addParachainToGenesis(), unless the relay chain's spec is raw.
AddParas ==
    /\ AllDone
    /\ taken = Len(conf.paras)
    /\ Stage("paras", IF RelayIsRaw THEN "raw" ELSE "overrides")
    /\ relay' = IF RelayIsRaw
                THEN relay
                ELSE [relay EXCEPT !.paras = {p \in Paras : Para(p).add}]
    /\ UNCHANGED <<nameVars, conf, seed, paraVars, stakingBond, relayRaw, swallowed,
                   included, registered, exit>>

\* addParachainToGenesis() throws, or ends the program where the spec has no list
\* of parachains.  What the file has by then is read no more.
AddingFails ==
    /\ AllDone
    /\ taken = Len(conf.paras)
    /\ ~RelayIsRaw /\ \E p \in Paras : Para(p).add
    /\ Stage("paras", "failed")
    /\ exit' \in {"none", "paras"}
    /\ UNCHANGED <<nameVars, conf, seed, paraVars, relayVars>>

\* A step of customizePlainRelayChain().  Its catch block only writes a message,
\* and start() goes on with the file as the steps before have left it.
Customise(from, to, throws, next) ==
    /\ Running
    /\ stage = from
    /\ IF throws
       THEN stage' = "raw" /\ swallowed' = TRUE /\ relay' = relay
       ELSE stage' = to /\ swallowed' = swallowed /\ relay' = next
    /\ UNCHANGED <<nameVars, conf, seed, paraVars, relayRaw, included, registered, exit>>

\* findAndReplaceConfig(): a genesis for the parachains replaces those just added.
Replaced(spec) == IF conf.override = "paras" THEN [spec EXCEPT !.paras = {}] ELSE spec

\* changeGenesisConfig(): the user's genesis.
Overrides ==
    /\ Customise("overrides", "clear", conf.relay.fault = "overrides", Replaced(relay))
    /\ UNCHANGED stakingBond

HasStaking == conf.relay.staking # "no"

\* Mutant of Clear: the authorities of the spec stay.
ClearStakers ==
    /\ Customise("clear", "balances", conf.relay.fault = "clear",
                 [relay EXCEPT !.stakers = {}])
    /\ stakingBond' = (stage' = "balances" /\ conf.relay.staking = "stakers")

\* clearAuthorities(): keys, stakers, and the bond of the first staker.
Clear ==
    /\ Customise("clear", "balances", conf.relay.fault = "clear",
                 [relay EXCEPT !.authorities = {},
                               !.stakers = IF HasStaking THEN {} ELSE @])
    /\ stakingBond' = (stage' = "balances" /\ conf.relay.staking = "stakers")

\* addBalances() for all nodes.
Balances ==
    /\ Customise("balances", "authorities", conf.relay.fault = "balances",
                 [relay EXCEPT !.funded = NodeKeys])
    /\ UNCHANGED stakingBond

\* A spec is said to have session keys also for palletSession, where
\* getAuthorityKeys() finds none: a warning.
HasAuthorityKeys == conf.relay.keys \in {"session", "aura"}

\* addAuthority(), or addAuraAuthority() and addGrandpaAuthority(), of some nodes.
AddAuthorities(spec, nodes) ==
    IF HasAuthorityKeys
    THEN [spec EXCEPT !.authorities = @ \cup KeysOf(nodes)]
    ELSE spec

\* addStaking()
AddStaking(spec, nodes) ==
    IF HasStaking THEN [spec EXCEPT !.stakers = @ \cup KeysOf(nodes)] ELSE spec

AuthoritiesThrow == conf.relay.fault = "authorities" /\ Validators # {}

\* The loop over the validators.
Authorities ==
    /\ ~AuthoritiesThrow
    /\ Customise("authorities", "nominators", FALSE,
                 AddStaking(AddAuthorities(relay, Validators), Validators))
    /\ UNCHANGED stakingBond

\* It has thrown at the i-th node: at its keys or, when these are written, at its
\* stake.  What was added for the nodes before it stays.
AuthoritiesHalf ==
    /\ Running
    /\ stage = "authorities"
    /\ AuthoritiesThrow
    /\ \E i \in Validators :
         LET before == {j \in Validators : j < i}
         IN  \E keyed \in {before, before \cup {i}} :
               relay' = AddStaking(AddAuthorities(relay, keyed), before)
    /\ stage' = "raw"
    /\ swallowed' = TRUE
    /\ UNCHANGED <<nameVars, conf, seed, paraVars, stakingBond, relayRaw, included,
                   registered, exit>>

\* generateNominators(): adding 1 to a bond that is not set throws, as does a
\* random choice among no validators.
Nominators ==
    /\ LET wanted == conf.nominators /\ HasStaking
       IN  Customise("nominators", "channels",
                     wanted /\ (~stakingBond \/ ValidatorKeys = {}),
                     [relay EXCEPT !.nominators = wanted])
    /\ UNCHANGED stakingBond

\* addHrmpChannelsToGenesis(), which ends the program itself when the pallet has
\* no list of channels.
Channels ==
    /\ Stage("channels", "raw")
    /\ IF conf.hrmp /\ conf.relay.fault = "hrmp"
       THEN exit' = "hrmp" /\ UNCHANGED relay
       ELSE exit' = exit /\ relay' = [relay EXCEPT !.hrmp = conf.hrmp]
    /\ UNCHANGED <<nameVars, conf, seed, paraVars, stakingBond, relayRaw, swallowed,
                   included, registered>>

\* getChainSpecRaw() of the relay chain, or a copy of the user's raw spec.
RelayRaw ==
    /\ Stage("raw", "nodes")
    /\ relayRaw' = relay
    /\ IF RelayIsRaw THEN UNCHANGED nameVars ELSE GetUniqueName(<<"temp">>, NoPara)
    /\ UNCHANGED <<conf, seed, paraVars, stakingBond, relay, swallowed, included,
                   registered, exit>>

ToRegister == {p \in Paras : ~Para(p).add /\ Para(p).register}

\* With the relay chain's nodes up (see Lifecycle), registerParachain() for the
\* next parachain that is to be registered; its collators are spawned after it.
\* It resolves when the transaction is in a block, and does not ask whether the
\* chain has done what it says, as it does not for an id that is there already.
RegisterPara(p) ==
    /\ Running
    /\ stage = "nodes"
    /\ p \in ToRegister \ included
    /\ \A q \in ToRegister : q < p => q \in included
    /\ included' = included \cup {p}
    /\ \E new \in {{}, {p}} :
         /\ \A q \in relayRaw.paras \cup registered : Para(q).id = Para(p).id => new = {}
         /\ registered' = registered \cup new
    /\ UNCHANGED <<nameVars, conf, stage, seed, paraVars, stakingBond, relay, relayRaw,
                   swallowed, exit>>

Launched ==
    /\ ToRegister \subseteq included
    /\ Stage("nodes", "up")
    /\ UNCHANGED <<nameVars, conf, seed, paraVars, relayVars, exit>>

\* An await of start() rejects: a command for the relay chain, one of the
\* parachains, a registration.  The other parachains of the batch go on.
Fails ==
    /\ \/ Stage("config", "failed") /\ AllNamed
       \/ Stage("paras", "failed") /\ \E p \in Paras : task[p] = "failed"
       \/ Stage("raw", "failed")
       \/ Stage("nodes", "failed") /\ ToRegister \ included # {}
    /\ UNCHANGED <<nameVars, conf, seed, paraVars, relayVars, exit>>

\* The end of start()'s catch block, after the teardown (see Lifecycle).
Exit ==
    /\ Running
    /\ stage = "failed"
    /\ exit' = "catch"
    /\ UNCHANGED <<nameVars, conf, stage, seed, paraVars, relayVars>>

-----------------------------------------------------------------------------
Init ==
    /\ conf \in Configs
    /\ stage = "config"
    /\ seed = <<>>
    /\ NamesInit
    /\ shared = [c \in {Para(p).chain : p \in Paras} |->
                    [writers |-> {}, whole |-> FALSE, mixed |-> FALSE]]
    /\ taken = 0
    /\ task = [p \in Paras |-> "todo"]
    /\ plain = [p \in Paras |-> "none"]
    /\ files = {}
    /\ stakingBond = FALSE
    /\ relay = [authorities |-> {Default}, funded |-> {},
                stakers |-> IF conf.relay.staking = "stakers" THEN {Default} ELSE {},
                paras |-> {}, nominators |-> FALSE, hrmp |-> FALSE]
    /\ relayRaw = relay
    /\ swallowed = FALSE
    /\ included = {}
    /\ registered = {}
    /\ exit = "none"

ParaStep(p) ==
    \/ NoSpecNeeded(p) \/ CopySpec(p) \/ BuildSpec(p) \/ SpecBuilt(p) \/ CopyBuilt(p)
    \/ CustomisePara(p) \/ GenerateRaw(p) \/ GenerateFiles(p) \/ ParaFails(p)

Next ==
    \/ NameNext \/ SetupRelaySpec \/ BeginBatch
    \/ \E p \in Paras : ParaStep(p)
    \/ AddParas \/ AddingFails
    \/ Overrides \/ Clear \/ Balances \/ Authorities \/ AuthoritiesHalf
    \/ Nominators \/ Channels
    \/ RelayRaw
    \/ \E p \in Paras : RegisterPara(p)
    \/ Launched \/ Fails \/ Exit

Spec == Init /\ [][Next]_vars

-----------------------------------------------------------------------------
SpecType == [authorities : SUBSET ({Default} \cup NodeKeys),
             stakers : SUBSET ({Default} \cup NodeKeys),
             funded : SUBSET NodeKeys,
             paras : SUBSET Paras, nominators : BOOLEAN, hrmp : BOOLEAN]

TypeOK ==
    /\ stage \in {"config", "paras", "overrides", "clear", "balances", "authorities",
                  "nominators", "channels", "raw", "nodes", "up", "failed"}
    /\ DOMAIN seed \subseteq Calls
    /\ stage # "config" => AllNamed /\ relay \in SpecType /\ relayRaw \in SpecType
    /\ taken \in 0..Len(conf.paras)
    /\ \A p \in Paras : task[p] = "todo" <=> p > taken
    /\ \A c \in DOMAIN shared :
         shared[c].writers = {p \in Paras : task[p] = "building" /\ Para(p).chain = c}
    /\ files \subseteq {p \in Paras : task[p] = "done"}
    /\ stakingBond => HasStaking
    /\ registered \subseteq included /\ included \subseteq ToRegister
    /\ exit \in {"none", "torn", "paras", "hrmp", "catch"}

\* Batches of series() as its callers see them.
SameBatch(p, q) == (p - 1) \div Concurrency = (q - 1) \div Concurrency

(***************************************************************************)
(* The output file of build-spec is named after the chain, not after the   *)
(* parachain.  A launch only dies of a chain spec it cannot parse when two *)
(* parachains of one batch have the same chain, or none, and both have     *)
(* their spec made by a command.                                           *)
(***************************************************************************)
TornOnlyWhenShared ==
    exit = "torn" =>
      \E p, q \in Paras :
        /\ p # q /\ SameBatch(p, q)
        /\ Para(p).chain = Para(q).chain
        /\ \A r \in {p, q} : Para(r).cumulus /\ Para(r).spec = "command"

\* Two names whose first words are one in nameCase() only.
DifferInCase(a, b) == a[1] # b[1] /\ Capitalised(a[1]) = Capitalised(b[1])

(***************************************************************************)
(* canUseSanitizedNameAsSeed(): two collators of a parachain, which are    *)
(* its authorities, have the same keys only when their names clash as      *)
(* getUniqueName() lets them, or when one was named with a small and one   *)
(* with a capital letter.                                                  *)
(***************************************************************************)
SameKeysOnlyIfAmbiguous ==
    \A p \in Paras : \A c, d \in CollatorsOf(p) :
      c # d /\ Key(c) = Key(d) =>
        \/ Ambiguous(seed[c])
        \/ DifferInCase(Requested(c).name, Requested(d).name)

(***************************************************************************)
(* The genesis the nodes start with, when the spec was not given raw: the  *)
(* authorities are those of the spec or the network's validators, never    *)
(* some of both; who stakes is funded; and unless an error was swallowed,  *)
(* everything the network definition asks for is in it.                    *)
(***************************************************************************)
GenesisAsAsked ==
    stage \in {"nodes", "up"} /\ ~RelayIsRaw =>
      /\ Default \in relayRaw.authorities => relayRaw.authorities = {Default}
      /\ relayRaw.stakers \subseteq relayRaw.funded \cup {Default}
      /\ swallowed \/
           /\ HasAuthorityKeys => relayRaw.authorities = ValidatorKeys
           /\ HasStaking => relayRaw.stakers = ValidatorKeys
           /\ NodeKeys = relayRaw.funded
           /\ conf.hrmp => relayRaw.hrmp
           /\ conf.nominators /\ HasStaking => relayRaw.nominators

\* What start() leaves to the user: a raw spec that has the parachain already, a
\* parachain that is not to be registered, a genesis that says which there are.
LeftOut(p) ==
    \/ RelayIsRaw /\ Para(p).add
    \/ ~Para(p).add /\ ~Para(p).register
    \/ conf.override = "paras"

(***************************************************************************)
(* In a launched network every parachain was either put into the genesis,  *)
(* where it is also when the customisation has failed half way, or its     *)
(* registration is in a block, but not both, and its files were made       *)
(* before.  That the registration has succeeded is not promised: nobody    *)
(* looks.                                                                  *)
(***************************************************************************)
ParasOnboard ==
    stage = "up" =>
      \A p \in Paras :
        /\ ~(p \in relayRaw.paras /\ p \in included)
        /\ LeftOut(p) \/ p \in relayRaw.paras \cup included
        /\ p \in relayRaw.paras \cup included => p \in files
=============================================================================
