----------------------------- MODULE GenesisProofs -----------------------------
(***************************************************************************)
(* The safety properties of Genesis, proved for every network definition   *)
(* that is one (GenesisAssumption) and every concurrency.  Each property   *)
(* has an inductive invariant of its own: the names, the seeds, the tasks  *)
(* of the parachains, the chain specs of a batch, and the genesis of the   *)
(* relay chain.                                                            *)
(***************************************************************************)
EXTENDS Genesis, TLAPS

-----------------------------------------------------------------------------
(* Names.                                                                  *)

\* getUniqueName() has made this name of another one.
Made(name) ==
    \E other \in DOMAIN mUsedNames :
      \E k \in 1..(mUsedNames[other] - 1) : name = Append(other, k)

\* What was returned more than once was asked for, and made as well; it was
\* returned once for either.
NamesInv ==
    /\ \A n \in DOMAIN mUsedNames : IsName(n) /\ mUsedNames[n] \in Nat \ {0}
    /\ \A k \in DOMAIN mParasUsedNames : mParasUsedNames[k] \in Nat \ {0}
    /\ \A n \in DOMAIN given :
         /\ given[n] \in 1..2
         /\ n \in DOMAIN mUsedNames \/ Made(n)
         /\ given[n] > 1 => n \in DOMAIN mUsedNames /\ Made(n)

LEMMA OneWord == \A w : IsName(<<w>>)
BY DEF IsName

\* Of two names and two numbers, getUniqueName() makes two names.
LEMMA AppendIsInjective ==
    ASSUME NEW n, NEW m, IsName(n), IsName(m), NEW j, NEW k, Append(n, j) = Append(m, k)
    PROVE  n = m /\ j = k
<1> DEFINE S == {n[i] : i \in 1..Len(n)} \cup {m[i] : i \in 1..Len(m)} \cup {j, k}
<1>1. n \in Seq(S) /\ m \in Seq(S)  BY DEF IsName
<1>2. j \in S /\ k \in S  OBVIOUS
<1> HIDE DEF S
<1> QED  BY <1>1, <1>2

LEMMA AppendIsNew ==
    ASSUME NEW n, IsName(n), NEW j
    PROVE  Append(n, j) # n /\ Append(n, j) # Default /\ n # Default
<1> DEFINE S == {n[i] : i \in 1..Len(n)} \cup {j}
<1>1. n \in Seq(S)  BY DEF IsName
<1>2. j \in S  OBVIOUS
<1>3. Len(n) # 0  BY DEF IsName
<1> HIDE DEF S
<1>4. Len(Append(n, j)) = Len(n) + 1  BY <1>1, <1>2
<1>5. Len(n) \in Nat  BY <1>1
<1>6. Len(Default) = 0  BY DEF Default
<1> QED  BY <1>3, <1>4, <1>5, <1>6

LEMMA OnceMoreFacts ==
    ASSUME NEW table, NEW key
    PROVE  /\ DOMAIN OnceMore(table, key) = DOMAIN table \cup {key}
           /\ OnceMore(table, key)[key] = Times(table, key) + 1
           /\ \A x \in DOMAIN table : x # key => OnceMore(table, key)[x] = table[x]
BY DEF OnceMore, Put

\* The first call for a name returns it, a later one makes a name that is new.
LEMMA UniqueNameFacts ==
    ASSUME NamesInv, NEW name, IsName(name)
    PROVE  \/ name \notin DOMAIN mUsedNames /\ UniqueName(name) = name
           \/ /\ name \in DOMAIN mUsedNames
              /\ UniqueName(name) = Append(name, mUsedNames[name])
              /\ ~Made(UniqueName(name))
<1>1. CASE name \notin DOMAIN mUsedNames
  BY <1>1 DEF UniqueName, Times
<1>2. CASE name \in DOMAIN mUsedNames
  <2>1. mUsedNames[name] \in Nat \ {0}  BY <1>2 DEF NamesInv
  <2>2. UniqueName(name) = Append(name, mUsedNames[name])
    BY <1>2, <2>1 DEF UniqueName, Times
  <2>3. ASSUME NEW other \in DOMAIN mUsedNames, NEW k \in 1..(mUsedNames[other] - 1),
               UniqueName(name) = Append(other, k)
        PROVE  FALSE
    <3>1. IsName(other)  BY DEF NamesInv
    <3>2. other = name /\ k = mUsedNames[name]  BY <2>2, <2>3, <3>1, AppendIsInjective
    <3> QED  BY <2>1, <3>2
  <2> QED  BY <1>2, <2>2, <2>3 DEF Made
<1> QED  BY <1>1, <1>2

\* The table of names only grows.
LEMMA TableGrows ==
    ASSUME NamesInv, NEW name, IsName(name), NEW para, GetUniqueName(name, para)
    PROVE  /\ DOMAIN mUsedNames' = DOMAIN mUsedNames \cup {name}
           /\ \A n \in DOMAIN mUsedNames : mUsedNames'[n] >= mUsedNames[n]
           /\ \A n \in DOMAIN mUsedNames' : IsName(n) /\ mUsedNames'[n] \in Nat \ {0}
           /\ mUsedNames'[name] = Times(mUsedNames, name) + 1
           /\ \A n : Made(n) => Made(n)'
<1>1. mUsedNames' = OnceMore(mUsedNames, name)  BY DEF GetUniqueName
<1>2. /\ DOMAIN mUsedNames' = DOMAIN mUsedNames \cup {name}
      /\ mUsedNames'[name] = Times(mUsedNames, name) + 1
      /\ \A n \in DOMAIN mUsedNames : n # name => mUsedNames'[n] = mUsedNames[n]
  BY <1>1, OnceMoreFacts
<1>3. \A n \in DOMAIN mUsedNames : IsName(n) /\ mUsedNames[n] \in Nat \ {0}
  BY DEF NamesInv
<1>4. Times(mUsedNames, name) \in Nat  BY <1>3 DEF Times
<1>5. \A n \in DOMAIN mUsedNames : mUsedNames'[n] >= mUsedNames[n]
  BY <1>2, <1>3, <1>4 DEF Times
<1>6. \A n \in DOMAIN mUsedNames' : IsName(n) /\ mUsedNames'[n] \in Nat \ {0}
  BY <1>2, <1>3, <1>4
<1>7. ASSUME NEW n, Made(n)
      PROVE  Made(n)'
  <2>1. PICK other \in DOMAIN mUsedNames :
          \E k \in 1..(mUsedNames[other] - 1) : n = Append(other, k)
    BY <1>7 DEF Made
  <2> PICK k \in 1..(mUsedNames[other] - 1) : n = Append(other, k)
    BY <2>1
  <2>2. other \in DOMAIN mUsedNames' /\ k \in 1..(mUsedNames'[other] - 1)
    BY <1>2, <1>3, <1>5, <1>6
  <2> QED  BY <2>2 DEF Made
<1> QED  BY <1>2, <1>5, <1>6, <1>7

LEMMA NamesKept ==
    ASSUME NamesInv, NEW name, IsName(name), NEW para, GetUniqueName(name, para)
    PROVE  NamesInv'
<1>1. \A n \in DOMAIN mUsedNames' : IsName(n) /\ mUsedNames'[n] \in Nat \ {0}
  BY TableGrows
<1>2. \A k \in DOMAIN mParasUsedNames' : mParasUsedNames'[k] \in Nat \ {0}
  <2>1. CASE para = NoPara
    BY <2>1 DEF GetUniqueName, NamesInv
  <2>2. CASE para # NoPara
    <3>k. PICK key : key = <<para, name>>
      OBVIOUS
    <3>1. mParasUsedNames' = OnceMore(mParasUsedNames, key)
      BY <2>2, <3>k DEF GetUniqueName
    <3>2. Times(mParasUsedNames, key) \in Nat  BY DEF NamesInv, Times
    <3>3. /\ DOMAIN mParasUsedNames' = DOMAIN mParasUsedNames \cup {key}
          /\ mParasUsedNames'[key] = Times(mParasUsedNames, key) + 1
          /\ \A x \in DOMAIN mParasUsedNames : x # key =>
               mParasUsedNames'[x] = mParasUsedNames[x]
      BY <3>1, OnceMoreFacts
    <3> QED  BY <3>2, <3>3 DEF NamesInv
  <2> QED  BY <2>1, <2>2
<1>u. PICK u : u = UniqueName(name)
  OBVIOUS
<1>3. /\ DOMAIN given' = DOMAIN given \cup {u}
      /\ given'[u] = Times(given, u) + 1
      /\ \A x \in DOMAIN given : x # u => given'[x] = given[x]
  <2>1. given' = OnceMore(given, u)  BY <1>u DEF GetUniqueName
  <2> QED  BY <2>1, OnceMoreFacts
<1>4. ASSUME NEW n \in DOMAIN given', n # u
      PROVE  /\ given'[n] \in 1..2
             /\ n \in DOMAIN mUsedNames' \/ Made(n)'
             /\ given'[n] > 1 => n \in DOMAIN mUsedNames' /\ Made(n)'
  <2>1. n \in DOMAIN given /\ given'[n] = given[n]  BY <1>3, <1>4
  <2> QED  BY <2>1, TableGrows DEF NamesInv
<1>5. /\ given'[u] \in 1..2
      /\ u \in DOMAIN mUsedNames' \/ Made(u)'
      /\ given'[u] > 1 => u \in DOMAIN mUsedNames' /\ Made(u)'
  <2>1. \/ Times(given, u) = 0
        \/ Times(given, u) \in 1..2 /\ u \in DOMAIN given /\ Times(given, u) = given[u]
    BY DEF NamesInv, Times
  <2>2. CASE name \notin DOMAIN mUsedNames
    <3>1. u = name  BY <1>u, <2>2, UniqueNameFacts
    <3>2. u \in DOMAIN mUsedNames'  BY <3>1, TableGrows
    <3>3. Times(given, u) = 0 \/ (Times(given, u) = 1 /\ Made(u))
      BY <2>1, <2>2, <3>1 DEF NamesInv
    <3>4. Made(u) => Made(u)'  BY TableGrows
    <3> QED  BY <1>3, <3>2, <3>3, <3>4
  <2>3. CASE name \in DOMAIN mUsedNames
    <3>1. u = Append(name, mUsedNames[name]) /\ ~Made(u)  BY <1>u, <2>3, UniqueNameFacts
    <3>2. Made(u)'
      <4>k. PICK k : k = mUsedNames[name]
        OBVIOUS
      <4>1. mUsedNames[name] \in Nat \ {0}  BY <2>3 DEF NamesInv
      <4>2. mUsedNames'[name] = mUsedNames[name] + 1  BY <2>3, TableGrows DEF Times
      <4>3. k \in 1..(mUsedNames'[name] - 1)  BY <4>k, <4>1, <4>2
      <4>4. name \in DOMAIN mUsedNames'  BY TableGrows
      <4>5. u = Append(name, k)  BY <3>1, <4>k
      <4> QED  BY <4>3, <4>4, <4>5 DEF Made
    <3>3. Times(given, u) = 0 \/ (Times(given, u) = 1 /\ u \in DOMAIN mUsedNames)
      BY <2>1, <3>1 DEF NamesInv
    <3>4. u \in DOMAIN mUsedNames => u \in DOMAIN mUsedNames'  BY TableGrows
    <3> QED  BY <1>3, <3>2, <3>3, <3>4
  <2> QED  BY <2>2, <2>3
<1> QED  BY <1>1, <1>2, <1>4, <1>5 DEF NamesInv

\* nameCase() changes the first word only.
LEMMA nameCaseFacts ==
    ASSUME NEW s, NEW t, IsName(s), IsName(t), nameCase(s) = nameCase(t)
    PROVE  /\ Capitalised(s[1]) = Capitalised(t[1])
           /\ s # t => s[1] # t[1]
<1>1. /\ DOMAIN s = 1..Len(s) /\ DOMAIN t = 1..Len(t)
      /\ 1 \in DOMAIN s /\ 1 \in DOMAIN t
      /\ s = [i \in DOMAIN s |-> s[i]] /\ t = [i \in DOMAIN t |-> t[i]]
  BY DEF IsName
<1>2. DOMAIN s = DOMAIN t
  BY <1>1 DEF nameCase
<1>3. \A i \in DOMAIN s : i # 1 => s[i] = t[i]
  <2> TAKE i \in DOMAIN s
  <2> HAVE i # 1
  <2>1. nameCase(s)[i] = s[i] /\ nameCase(t)[i] = t[i]
    BY <1>1, <1>2 DEF nameCase
  <2> QED  BY <2>1
<1>4. nameCase(s)[1] = Capitalised(s[1]) /\ nameCase(t)[1] = Capitalised(t[1])
  BY <1>1 DEF nameCase
<1>5. s[1] = t[1] => s = t
  BY <1>1, <1>2, <1>3
<1> QED  BY <1>4, <1>5

LEMMA NamesInvImplies == NamesInv => ClashOnlyIfAmbiguous
BY DEF NamesInv, ClashOnlyIfAmbiguous, Ambiguous, Made

-----------------------------------------------------------------------------
(* Seeds.                                                                  *)

Name(c) == Requested(c).name

\* The key of mParasUsedNames for a collator.
ParaName(c) == <<Para(c[1]).id, Name(c)>>

\* A seed is the name asked for or is made of it; none is made twice, and one
\* collator of a parachain at most has the name itself.
SeedInv ==
    /\ DOMAIN seed \subseteq Calls
    /\ \A c \in DOMAIN seed :
         /\ Name(c) \in DOMAIN mUsedNames
         /\ \/ seed[c] = Name(c)
            \/ \E k \in 1..(mUsedNames[Name(c)] - 1) : seed[c] = Append(Name(c), k)
         /\ IsCollator(c) => ParaName(c) \in DOMAIN mParasUsedNames
    /\ \A c, d \in DOMAIN seed :
         c # d /\ seed[c] = seed[d] => seed[c] = Name(c) \/ seed[d] = Name(d)
    /\ \A c, d \in DOMAIN seed :
         c # d /\ IsCollator(c) /\ IsCollator(d) /\ ParaName(c) = ParaName(d) =>
           seed[c] # Name(c) \/ seed[d] # Name(d)

LEMMA CallFacts ==
    ASSUME conf \in Configs, NEW c \in Calls
    PROVE  /\ IsName(Name(c))
           /\ IsCollator(c) => /\ Requested(c).para = Para(c[1]).id
                               /\ Requested(c).para # NoPara
           /\ ~IsCollator(c) => Requested(c).para = NoPara
<1>1. CASE c \in {0} \X DOMAIN conf.nodes
  <2>1. c[1] = 0 /\ c[2] \in DOMAIN conf.nodes  BY <1>1
  <2>2. ~IsCollator(c) /\ Requested(c) = [name |-> conf.nodes[c[2]].name, para |-> NoPara]
    BY <2>1 DEF IsCollator, Requested
  <2> QED  BY <2>1, <2>2, GenesisAssumption DEF Name
<1>2. ASSUME NEW p \in Paras, c \in {p} \X (1..(Len(Para(p).collators) + 1))
      PROVE  /\ IsName(Name(c))
             /\ IsCollator(c) => /\ Requested(c).para = Para(c[1]).id
                                 /\ Requested(c).para # NoPara
             /\ ~IsCollator(c) => Requested(c).para = NoPara
  <2>1. c[1] = p  BY <1>2
  <2>2. p \in DOMAIN conf.paras /\ p # 0  BY GenesisAssumption DEF Paras
  <2>3. CASE IsCollator(c)
    <3>1. Requested(c) = [name |-> Para(p).collators[c[2]], para |-> Para(p).id]
      BY <2>1, <2>2, <2>3 DEF Requested
    <3> QED  BY <2>1, <2>2, <2>3, <3>1, GenesisAssumption DEF Name, Para, IsCollator
  <2>4. CASE ~IsCollator(c)
    <3>1. Requested(c) = [name |-> <<Para(p).id>>, para |-> NoPara]
      BY <2>1, <2>2, <2>4 DEF Requested
    <3> QED  BY <2>4, <3>1, OneWord DEF Name
  <2> QED  BY <2>3, <2>4
<1> QED  BY <1>1, <1>2 DEF Calls

\* A seed begins as the name it is made of.
LEMMA SeedFacts ==
    ASSUME conf \in Configs, SeedInv, NEW c \in DOMAIN seed
    PROVE  IsName(seed[c]) /\ seed[c][1] = Name(c)[1]
<1>n. PICK n : n = Name(c)
  OBVIOUS
<1>1. IsName(n)  BY <1>n, CallFacts DEF SeedInv
<1>2. seed[c] = n \/ \E k : seed[c] = Append(n, k)
  BY <1>n DEF SeedInv
<1>3. ASSUME NEW k
      PROVE  IsName(Append(n, k)) /\ Append(n, k)[1] = n[1]
  <2> DEFINE S == {n[i] : i \in 1..Len(n)} \cup {k}
  <2>1. n \in Seq(S)  BY <1>1 DEF IsName
  <2>2. k \in S  OBVIOUS
  <2>3. Len(n) \in Nat \ {0}  BY <1>1 DEF IsName
  <2> HIDE DEF S
  <2>4. Append(n, k) \in Seq(S) /\ Len(Append(n, k)) = Len(n) + 1
    BY <2>1, <2>2
  <2>5. Append(n, k)[1] = n[1]  BY <2>1, <2>2, <2>3
  <2>6. PICK e \in Seq(S) : e = Append(n, k)
    BY <2>4
  <2>7. e = [i \in 1..Len(e) |-> e[i]]
    OBVIOUS
  <2> QED  BY <2>3, <2>4, <2>5, <2>6, <2>7 DEF IsName
<1> QED  BY <1>n, <1>1, <1>2, <1>3

\* Every other step makes the name of a temporary node, or none.
LEMMA NamesFrame ==
    ASSUME [Next]_vars
    PROVE  /\ conf' = conf
           /\ \/ NameNext
              \/ seed' = seed /\ UNCHANGED nameVars
              \/ seed' = seed /\ \E w : GetUniqueName(<<w>>, NoPara)
<1> USE DEF relayVars, paraVars
<1>1. CASE NameNext
  BY <1>1 DEF NameNext
<1>2. CASE SetupRelaySpec
  BY <1>2 DEF SetupRelaySpec
<1>3. CASE BeginBatch
  BY <1>3 DEF BeginBatch
<1>4. ASSUME NEW p \in Paras, ParaStep(p)
      PROVE  /\ conf' = conf /\ seed' = seed
             /\ UNCHANGED nameVars \/ \E w : GetUniqueName(<<w>>, NoPara)
  <2> USE DEF TaskStep
  <2>1. CASE NoSpecNeeded(p)   BY <2>1 DEF NoSpecNeeded
  <2>2. CASE CopySpec(p)       BY <2>2 DEF CopySpec
  <2>3. CASE BuildSpec(p)      BY <2>3 DEF BuildSpec
  <2>4. CASE SpecBuilt(p)      BY <2>4 DEF SpecBuilt
  <2>5. CASE CopyBuilt(p)      BY <2>5 DEF CopyBuilt
  <2>6. CASE CustomisePara(p)  BY <2>6 DEF CustomisePara
  <2>7. CASE GenerateRaw(p)    BY <2>7 DEF GenerateRaw
  <2>8. CASE GenerateFiles(p)  BY <2>8 DEF GenerateFiles
  <2>9. CASE ParaFails(p)      BY <2>9 DEF ParaFails
  <2> QED  BY <1>4, <2>1, <2>2, <2>3, <2>4, <2>5, <2>6, <2>7, <2>8, <2>9 DEF ParaStep
<1>5. CASE AddParas \/ AddingFails
  BY <1>5 DEF AddParas, AddingFails
<1>6. CASE Overrides \/ Clear \/ Balances \/ Authorities \/ Nominators
  BY <1>6 DEF Overrides, Clear, Balances, Authorities, Nominators, Customise
<1>7. CASE AuthoritiesHalf \/ Channels
  BY <1>7 DEF AuthoritiesHalf, Channels
<1>8. CASE RelayRaw
  BY <1>8 DEF RelayRaw
<1>9. CASE \E p \in Paras : RegisterPara(p)
  BY <1>9 DEF RegisterPara
<1>10. CASE Launched \/ Fails \/ Exit
  BY <1>10 DEF Launched, Fails, Exit
<1>11. CASE UNCHANGED vars
  BY <1>11 DEF vars
<1> QED
  BY <1>1, <1>2, <1>3, <1>4, <1>5, <1>6, <1>7, <1>8, <1>9, <1>10, <1>11 DEF Next

LEMMA SameCalls ==
    ASSUME conf' = conf
    PROVE  /\ Calls' = Calls
           /\ \A c : /\ Name(c)' = Name(c)
                    /\ IsCollator(c)' = IsCollator(c)
                    /\ ParaName(c)' = ParaName(c)
                    /\ Requested(c)' = Requested(c)
BY DEF Calls, Paras, Para, Name, IsCollator, ParaName, Requested

\* The seed of an earlier call stays what it was.
LEMMA SeedStays ==
    ASSUME NamesInv, SeedInv, conf' = conf, NEW c \in DOMAIN seed, seed'[c] = seed[c],
           \/ UNCHANGED nameVars
           \/ \E name, para : IsName(name) /\ GetUniqueName(name, para)
    PROVE  /\ Name(c)' \in DOMAIN mUsedNames'
           /\ \/ seed'[c] = Name(c)'
              \/ \E k \in 1..(mUsedNames'[Name(c)'] - 1) : seed'[c] = Append(Name(c)', k)
           /\ IsCollator(c)' => ParaName(c)' \in DOMAIN mParasUsedNames'
<1>s. /\ Name(c)' = Name(c)
      /\ IsCollator(c)' = IsCollator(c)
      /\ ParaName(c)' = ParaName(c)
  BY SameCalls
<1>1. /\ DOMAIN mUsedNames \subseteq DOMAIN mUsedNames'
      /\ \A n \in DOMAIN mUsedNames : mUsedNames'[n] >= mUsedNames[n] /\ mUsedNames'[n] \in Nat
      /\ DOMAIN mParasUsedNames \subseteq DOMAIN mParasUsedNames'
  <2>1. CASE UNCHANGED nameVars
    BY <2>1 DEF nameVars, NamesInv
  <2>2. CASE \E name, para : IsName(name) /\ GetUniqueName(name, para)
    <3> PICK name, para : IsName(name) /\ GetUniqueName(name, para)
      BY <2>2
    <3>1. DOMAIN mParasUsedNames \subseteq DOMAIN mParasUsedNames'
      BY DEF GetUniqueName, OnceMore, Put
    <3> QED  BY <3>1, TableGrows
  <2> QED  BY <2>1, <2>2
<1>2. Name(c) \in DOMAIN mUsedNames /\ mUsedNames[Name(c)] \in Nat
  BY DEF SeedInv, NamesInv
<1>3. IsCollator(c) => ParaName(c) \in DOMAIN mParasUsedNames
  BY DEF SeedInv
<1>4. ASSUME NEW k \in 1..(mUsedNames[Name(c)] - 1)
      PROVE  k \in 1..(mUsedNames'[Name(c)] - 1)
  BY <1>1, <1>2
<1>5. \/ seed'[c] = Name(c)
      \/ \E k \in 1..(mUsedNames'[Name(c)] - 1) : seed'[c] = Append(Name(c), k)
  <2>1. \/ seed[c] = Name(c)
        \/ \E k \in 1..(mUsedNames[Name(c)] - 1) : seed[c] = Append(Name(c), k)
    BY DEF SeedInv
  <2> QED  BY <1>4, <2>1
<1> QED  BY <1>s, <1>1, <1>2, <1>3, <1>5

\* What SeedOf() gives a new call.
LEMMA NewSeed ==
    ASSUME conf \in Configs, NamesInv, NEW c \in Calls,
           GetUniqueName(Name(c), Requested(c).para)
    PROVE  \/ /\ SeedOf(Requested(c)) = Name(c)
              /\ IsCollator(c) => \/ ParaName(c) \notin DOMAIN mParasUsedNames
                                  \/ Name(c) \notin DOMAIN mUsedNames
           \/ /\ Name(c) \in DOMAIN mUsedNames
              /\ SeedOf(Requested(c)) = Append(Name(c), mUsedNames[Name(c)])
<1>n. PICK n : n = Name(c)
  OBVIOUS
<1>1. IsName(n) /\ n = Requested(c).name  BY <1>n, CallFacts DEF Name
<1>2. \/ UniqueName(n) = n /\ n \notin DOMAIN mUsedNames
      \/ n \in DOMAIN mUsedNames /\ UniqueName(n) = Append(n, mUsedNames[n])
  BY <1>1, UniqueNameFacts
<1>3. CASE SeedOf(Requested(c)) = UniqueName(n)
  BY <1>n, <1>2, <1>3
<1>4. CASE SeedOf(Requested(c)) # UniqueName(n)
  <2>1. /\ SeedOf(Requested(c)) = n
        /\ Requested(c).para # NoPara
        /\ CanUseSanitizedNameAsSeed(Requested(c).para, n)
    BY <1>1, <1>4 DEF SeedOf
  <2>k. PICK key : key = <<Requested(c).para, n>>
    OBVIOUS
  <2>2. mParasUsedNames' = OnceMore(mParasUsedNames, key)
    BY <1>n, <2>1, <2>k DEF GetUniqueName
  <2>3. key \in DOMAIN mParasUsedNames' /\ mParasUsedNames'[key] = Times(mParasUsedNames, key) + 1
    BY <2>2, OnceMoreFacts
  <2>4. mParasUsedNames'[key] <= 1
    BY <2>1, <2>3, <2>k DEF CanUseSanitizedNameAsSeed, Times
  <2>5. key \notin DOMAIN mParasUsedNames
    BY <2>3, <2>4 DEF NamesInv, Times
  <2>6. IsCollator(c) => ParaName(c) = key
    BY <1>n, <2>k, CallFacts DEF ParaName
  <2> QED  BY <1>n, <2>1, <2>5, <2>6
<1> QED  BY <1>3, <1>4

LEMMA SeedNamed ==
    ASSUME conf \in Configs, NamesInv, SeedInv, NameNext
    PROVE  SeedInv'
<1>s. conf' = conf /\ Calls' = Calls
  BY SameCalls DEF NameNext
<1>0. PICK c \in Calls \ DOMAIN seed :
       /\ GetUniqueName(Requested(c).name, Requested(c).para)
       /\ seed' = Put(seed, c, SeedOf(Requested(c)))
  BY DEF NameNext
<1>n. PICK n : n = Name(c)
  OBVIOUS
<1>u. PICK u : u = mUsedNames[n]
  OBVIOUS
<1>1. IsName(n) /\ GetUniqueName(n, Requested(c).para)
  BY <1>0, <1>n, CallFacts DEF Name
<1>2. /\ DOMAIN seed' = DOMAIN seed \cup {c}
      /\ seed'[c] = SeedOf(Requested(c))
      /\ \A d \in DOMAIN seed : seed'[d] = seed[d]
  BY <1>0 DEF Put
<1>3. \/ /\ seed'[c] = n
         /\ IsCollator(c) => \/ ParaName(c) \notin DOMAIN mParasUsedNames
                             \/ n \notin DOMAIN mUsedNames
      \/ n \in DOMAIN mUsedNames /\ seed'[c] = Append(n, u)
  BY <1>n, <1>u, <1>1, <1>2, NewSeed
<1>4. /\ Name(c)' = n
      /\ IsCollator(c)' = IsCollator(c)
      /\ ParaName(c)' = ParaName(c)
      /\ \A d : /\ Name(d)' = Name(d)
               /\ IsCollator(d)' = IsCollator(d)
               /\ ParaName(d)' = ParaName(d)
  BY <1>n, <1>s, SameCalls
<1>5. ASSUME NEW d \in DOMAIN seed
      PROVE  /\ Name(d)' \in DOMAIN mUsedNames'
             /\ \/ seed'[d] = Name(d)'
                \/ \E k \in 1..(mUsedNames'[Name(d)'] - 1) : seed'[d] = Append(Name(d)', k)
             /\ IsCollator(d)' => ParaName(d)' \in DOMAIN mParasUsedNames'
  BY <1>s, <1>1, <1>2, SeedStays
<1>6. /\ n \in DOMAIN mUsedNames'
      /\ \/ seed'[c] = n
         \/ \E k \in 1..(mUsedNames'[n] - 1) : seed'[c] = Append(n, k)
      /\ IsCollator(c) => ParaName(c) \in DOMAIN mParasUsedNames'
  <2>1. n \in DOMAIN mUsedNames' /\ mUsedNames'[n] = Times(mUsedNames, n) + 1
    BY <1>1, TableGrows
  <2>2. ASSUME n \in DOMAIN mUsedNames
        PROVE  u \in 1..(mUsedNames'[n] - 1)
    <3>1. u \in Nat \ {0}  BY <1>u, <2>2 DEF NamesInv
    <3>2. mUsedNames'[n] = u + 1  BY <1>u, <2>1, <2>2 DEF Times
    <3> QED  BY <3>1, <3>2
  <2>3. ASSUME IsCollator(c)
        PROVE  ParaName(c) \in DOMAIN mParasUsedNames'
    <3>1. Requested(c).para = Para(c[1]).id /\ Requested(c).para # NoPara
      BY <2>3, CallFacts
    <3>k. PICK key : key = ParaName(c)
      OBVIOUS
    <3>2. mParasUsedNames' = OnceMore(mParasUsedNames, key)
      BY <1>n, <1>1, <3>1, <3>k DEF GetUniqueName, ParaName
    <3>3. key \in DOMAIN mParasUsedNames'  BY <3>2 DEF OnceMore, Put
    <3> QED  BY <3>k, <3>3
  <2> QED  BY <1>3, <2>1, <2>2, <2>3
<1>7. ASSUME NEW d \in DOMAIN seed, seed'[c] = seed[d]
      PROVE  seed'[c] = n \/ seed[d] = Name(d)
  <2>1. SUFFICES ASSUME seed'[c] # n, seed[d] # Name(d)
                 PROVE  FALSE
    OBVIOUS
  <2>2. n \in DOMAIN mUsedNames /\ seed'[c] = Append(n, u)  BY <1>3, <2>1
  <2>m. PICK m : m = Name(d)
    OBVIOUS
  <2>3. PICK k \in 1..(mUsedNames[m] - 1) : seed[d] = Append(m, k)
    BY <2>1, <2>m DEF SeedInv
  <2>4. m \in DOMAIN mUsedNames /\ IsName(m)  BY <2>m DEF SeedInv, NamesInv
  <2>a. Append(n, u) = Append(m, k)  BY <1>7, <2>2, <2>3
  <2>b. IsName(n) /\ IsName(m)  BY <1>1, <2>4
  <2>5. m = n /\ k = u  BY <2>a, <2>b, AppendIsInjective
  <2>6. mUsedNames[n] \in Nat  BY <2>2 DEF NamesInv
  <2>7. k \in 1..(u - 1) /\ u \in Nat  BY <1>u, <2>3, <2>5, <2>6
  <2> QED  BY <2>5, <2>7
<1>8. ASSUME NEW d \in DOMAIN seed, IsCollator(c), IsCollator(d), ParaName(c) = ParaName(d)
      PROVE  seed'[c] # n \/ seed[d] # Name(d)
  <2>1. Name(d) = n  BY <1>n, <1>8 DEF ParaName
  <2>2. ParaName(c) \in DOMAIN mParasUsedNames /\ n \in DOMAIN mUsedNames
    BY <1>8, <2>1 DEF SeedInv
  <2>3. seed'[c] = Append(n, u)  BY <1>3, <1>8, <2>2
  <2> QED  BY <1>1, <2>3, AppendIsNew
<1>9. DOMAIN seed' \subseteq Calls'
  BY <1>s, <1>2 DEF SeedInv
<1>10. \A d \in DOMAIN seed' :
         /\ Name(d)' \in DOMAIN mUsedNames'
         /\ \/ seed'[d] = Name(d)'
            \/ \E k \in 1..(mUsedNames'[Name(d)'] - 1) : seed'[d] = Append(Name(d)', k)
         /\ IsCollator(d)' => ParaName(d)' \in DOMAIN mParasUsedNames'
  BY <1>2, <1>4, <1>5, <1>6
<1>11. \A d, e \in DOMAIN seed' :
         d # e /\ seed'[d] = seed'[e] => seed'[d] = Name(d)' \/ seed'[e] = Name(e)'
  <2>1. \A d, e \in DOMAIN seed :
          d # e /\ seed[d] = seed[e] => seed[d] = Name(d) \/ seed[e] = Name(e)
    BY DEF SeedInv
  <2> QED  BY <1>2, <1>4, <1>7, <2>1
<1>12. \A d, e \in DOMAIN seed' :
         d # e /\ IsCollator(d)' /\ IsCollator(e)' /\ ParaName(d)' = ParaName(e)' =>
           seed'[d] # Name(d)' \/ seed'[e] # Name(e)'
  <2>1. \A d, e \in DOMAIN seed :
          d # e /\ IsCollator(d) /\ IsCollator(e) /\ ParaName(d) = ParaName(e) =>
            seed[d] # Name(d) \/ seed[e] # Name(e)
    BY DEF SeedInv
  <2> QED  BY <1>2, <1>4, <1>8, <2>1
<1> QED  BY <1>9, <1>10, <1>11, <1>12 DEF SeedInv

LEMMA SeedKept ==
    ASSUME conf \in Configs, NamesInv, SeedInv, [Next]_vars
    PROVE  NamesInv' /\ SeedInv' /\ conf' = conf
<1>1. CASE NameNext
  <2> PICK c \in Calls : GetUniqueName(Requested(c).name, Requested(c).para)
    BY <1>1 DEF NameNext
  <2>1. IsName(Requested(c).name)  BY CallFacts DEF Name
  <2> QED  BY <1>1, <2>1, NamesKept, SeedNamed, NamesFrame
<1>2. ASSUME seed' = seed, conf' = conf,
             \/ UNCHANGED nameVars
             \/ \E name, para : IsName(name) /\ GetUniqueName(name, para)
      PROVE  NamesInv' /\ SeedInv'
  <2>1. NamesInv'
    <3>1. CASE UNCHANGED nameVars
      BY <3>1 DEF NamesInv, nameVars, Made
    <3> QED  BY <1>2, <3>1, NamesKept
  <2>2. \A c : /\ Name(c)' = Name(c)
              /\ IsCollator(c)' = IsCollator(c)
              /\ ParaName(c)' = ParaName(c)
    BY <1>2, SameCalls
  <2>3. \A c \in DOMAIN seed' :
          /\ Name(c)' \in DOMAIN mUsedNames'
          /\ \/ seed'[c] = Name(c)'
             \/ \E k \in 1..(mUsedNames'[Name(c)'] - 1) : seed'[c] = Append(Name(c)', k)
          /\ IsCollator(c)' => ParaName(c)' \in DOMAIN mParasUsedNames'
    BY <1>2, SeedStays
  <2>4. DOMAIN seed' \subseteq Calls'
    BY <1>2, SameCalls DEF SeedInv
  <2>5. \A c, d \in DOMAIN seed' :
          c # d /\ seed'[c] = seed'[d] => seed'[c] = Name(c)' \/ seed'[d] = Name(d)'
    BY <1>2, <2>2 DEF SeedInv
  <2>6. \A c, d \in DOMAIN seed' :
          c # d /\ IsCollator(c)' /\ IsCollator(d)' /\ ParaName(c)' = ParaName(d)' =>
            seed'[c] # Name(c)' \/ seed'[d] # Name(d)'
    BY <1>2, <2>2 DEF SeedInv
  <2> QED  BY <2>1, <2>3, <2>4, <2>5, <2>6 DEF SeedInv
<1> QED  BY <1>1, <1>2, NamesFrame, OneWord

-----------------------------------------------------------------------------
(* The parachains' files.                                                  *)

TaskState == {"todo", "begin", "building", "copying", "customise", "raw", "files",
              "done", "failed"}

Chains == {Para(p).chain : p \in Paras}
SharedFile == [writers : SUBSET Paras, whole : BOOLEAN, mixed : BOOLEAN]
WritersOf(c) == {p \in Paras : task[p] = "building" /\ Para(p).chain = c}

TaskInv ==
    /\ taken \in 0..Len(conf.paras)
    /\ task \in [Paras -> TaskState]
    /\ \A p \in Paras : task[p] = "todo" <=> p > taken
    /\ DOMAIN plain = Paras
    /\ shared \in [Chains -> SharedFile]
    /\ \A c \in Chains : shared[c].writers = WritersOf(c)
    /\ files \subseteq {p \in Paras : task[p] = "done"}
    /\ \A p \in Paras : task[p] = "done" => p \in files \/ ~FilesNeeded(p)

LEMMA SamePara ==
    ASSUME conf' = conf
    PROVE  /\ Paras' = Paras /\ Chains' = Chains /\ SharedFile' = SharedFile
           /\ \A p : Para(p)' = Para(p) /\ FilesNeeded(p)' = FilesNeeded(p)
BY DEF Paras, Chains, SharedFile, Para, FilesNeeded, RelayIsRaw

\* What a step of one parachain does to the tasks and to who writes the files.
LEMMA TaskStepFacts ==
    ASSUME TaskInv, NEW p \in Paras, NEW from, NEW to \in TaskState \ {"todo"},
           from # "todo", TaskStep(p, from, to)
    PROVE  /\ conf' = conf /\ taken' = taken /\ task[p] = from
           /\ task' \in [Paras -> TaskState]
           /\ \A q \in Paras : task'[q] = IF q = p THEN to ELSE task[q]
           /\ \A q \in Paras : task'[q] = "todo" <=> q > taken
           /\ \A c \in Chains : WritersOf(c)' =
                IF c # Para(p).chain THEN WritersOf(c)
                ELSE IF to = "building" THEN WritersOf(c) \cup {p}
                ELSE WritersOf(c) \ {p}
<1>1. /\ conf' = conf /\ taken' = taken /\ task[p] = from
      /\ task' = [task EXCEPT ![p] = to]
  BY DEF TaskStep
<1>2. /\ task' \in [Paras -> TaskState]
      /\ \A q \in Paras : task'[q] = IF q = p THEN to ELSE task[q]
  BY <1>1 DEF TaskInv
<1>3. \A q \in Paras : task'[q] = "todo" <=> q > taken
  BY <1>1, <1>2 DEF TaskInv
<1>4. ASSUME NEW c \in Chains
      PROVE  WritersOf(c)' = IF c # Para(p).chain THEN WritersOf(c)
                             ELSE IF to = "building" THEN WritersOf(c) \cup {p}
                             ELSE WritersOf(c) \ {p}
  BY <1>1, <1>2, SamePara DEF WritersOf
<1> QED  BY <1>1, <1>2, <1>3, <1>4

\* Every other step leaves the parachains alone.
LEMMA TaskFrame ==
    ASSUME [Next]_vars
    PROVE  \/ BeginBatch
           \/ \E p \in Paras : ParaStep(p)
           \/ UNCHANGED paraVars /\ (exit' = "torn" => exit = "torn")
<1> USE DEF Stage
<1>1. CASE NameNext \/ SetupRelaySpec
  BY <1>1 DEF NameNext, SetupRelaySpec
<1>2. CASE AddParas \/ AddingFails
  BY <1>2 DEF AddParas, AddingFails
<1>3. CASE Overrides \/ Clear \/ Balances \/ Authorities \/ Nominators
  BY <1>3 DEF Overrides, Clear, Balances, Authorities, Nominators, Customise
<1>4. CASE AuthoritiesHalf \/ Channels
  BY <1>4 DEF AuthoritiesHalf, Channels
<1>5. CASE RelayRaw
  BY <1>5 DEF RelayRaw
<1>6. CASE \E p \in Paras : RegisterPara(p)
  BY <1>6 DEF RegisterPara
<1>7. CASE Launched \/ Fails \/ Exit
  BY <1>7 DEF Launched, Fails, Exit
<1>8. CASE UNCHANGED vars
  BY <1>8 DEF vars
<1> QED
  BY <1>1, <1>2, <1>3, <1>4, <1>5, <1>6, <1>7, <1>8 DEF Next

\* The invariant of the tasks, after a step of one of them: what is left to show
\* is what the step does to the specs and the files.
LEMMA TaskInvAfter ==
    ASSUME TaskInv, NEW p \in Paras, NEW from, NEW to \in TaskState \ {"todo"},
           from \notin {"todo", "done"}, TaskStep(p, from, to),
           DOMAIN plain' = Paras,
           shared' \in [Chains -> SharedFile],
           \A c \in Chains : shared'[c].writers =
             IF c # Para(p).chain THEN shared[c].writers
             ELSE IF to = "building" THEN shared[c].writers \cup {p}
             ELSE shared[c].writers \ {p},
           IF to = "done" /\ FilesNeeded(p) THEN files' = files \cup {p} ELSE files' = files
    PROVE  TaskInv'
<1>1. /\ conf' = conf /\ taken' = taken /\ task[p] = from
      /\ task' \in [Paras -> TaskState]
      /\ \A q \in Paras : task'[q] = IF q = p THEN to ELSE task[q]
      /\ \A q \in Paras : task'[q] = "todo" <=> q > taken
      /\ \A c \in Chains : WritersOf(c)' =
           IF c # Para(p).chain THEN WritersOf(c)
           ELSE IF to = "building" THEN WritersOf(c) \cup {p}
           ELSE WritersOf(c) \ {p}
  BY TaskStepFacts
<1>2. /\ Paras' = Paras /\ Chains' = Chains /\ SharedFile' = SharedFile
      /\ \A q : FilesNeeded(q)' = FilesNeeded(q)
  BY <1>1, SamePara
<1>3. ASSUME NEW c \in Chains
      PROVE  shared'[c].writers = WritersOf(c)'
  <2>1. shared[c].writers = WritersOf(c)  BY DEF TaskInv
  <2> QED  BY <1>1, <2>1
<1>4. files' \subseteq {q \in Paras : task'[q] = "done"}
  BY <1>1 DEF TaskInv
<1>5. \A q \in Paras : task'[q] = "done" => q \in files' \/ ~FilesNeeded(q)
  BY <1>1 DEF TaskInv
<1>6. taken' \in 0..Len(conf'.paras)
  BY <1>1 DEF TaskInv
<1> QED  BY <1>1, <1>2, <1>3, <1>4, <1>5, <1>6 DEF TaskInv

\* series() begins with parachains that nothing was done for.
LEMMA BeginBatchFacts ==
    ASSUME conf \in Configs, TaskInv, BeginBatch
    PROVE  /\ conf' = conf /\ AllDone
           /\ taken < Len(conf.paras)
           /\ taken' \in taken..(taken + Concurrency)
           /\ taken' = Len(conf.paras) \/ taken' = taken + Concurrency
           /\ taken' \in 0..Len(conf.paras)
           /\ task' \in [Paras -> TaskState]
           /\ \A p \in Paras :
                /\ p \in Nat /\ p \in 1..Len(conf.paras)
                /\ task'[p] = IF p <= taken THEN "done"
                              ELSE IF p <= taken' THEN "begin" ELSE "todo"
           /\ \A p \in Paras : task[p] = IF p <= taken THEN "done" ELSE "todo"
           /\ UNCHANGED <<shared, plain, files, exit>>
<1>1. /\ conf' = conf /\ AllDone
      /\ taken < Len(conf.paras)
      /\ taken' = LowerOf(Len(conf.paras), taken + Concurrency)
      /\ task' = [p \in Paras |-> IF taken < p /\ p <= taken' THEN "begin" ELSE task[p]]
      /\ UNCHANGED <<shared, plain, files, exit>>
  BY DEF BeginBatch, relayVars
<1>2. /\ Concurrency \in Nat \ {0}
      /\ Len(conf.paras) \in Nat /\ Paras = 1..Len(conf.paras)
  BY GenesisAssumption DEF Paras
<1>3. taken \in 0..Len(conf.paras)
  BY DEF TaskInv
<1>4. /\ taken' \in taken..(taken + Concurrency)
      /\ taken' = Len(conf.paras) \/ taken' = taken + Concurrency
      /\ taken' \in 0..Len(conf.paras)
  BY <1>1, <1>2, <1>3 DEF LowerOf
<1>5. \A p \in Paras : task[p] = IF p <= taken THEN "done" ELSE "todo"
  BY <1>1, <1>2, <1>3 DEF AllDone, TaskInv
<1>6. \A p \in Paras :
        /\ p \in Nat /\ p \in 1..Len(conf.paras)
        /\ task'[p] = IF p <= taken THEN "done"
                      ELSE IF p <= taken' THEN "begin" ELSE "todo"
  BY <1>1, <1>2, <1>3, <1>4, <1>5
<1>7. task' \in [Paras -> TaskState]
  BY <1>1, <1>6 DEF TaskState
<1> QED  BY <1>1, <1>4, <1>5, <1>6, <1>7

LEMMA TaskKept ==
    ASSUME conf \in Configs, TaskInv, [Next]_vars
    PROVE  TaskInv'
<1>1. CASE BeginBatch
  <2>1. /\ conf' = conf
        /\ taken' \in 0..Len(conf.paras)
        /\ taken' >= taken /\ taken \in Nat /\ taken' \in Nat
        /\ task' \in [Paras -> TaskState]
        /\ \A p \in Paras :
             /\ p \in Nat
             /\ task'[p] = IF p <= taken THEN "done"
                           ELSE IF p <= taken' THEN "begin" ELSE "todo"
             /\ task[p] = IF p <= taken THEN "done" ELSE "todo"
        /\ UNCHANGED <<shared, plain, files>>
    BY <1>1, BeginBatchFacts DEF TaskInv
  <2>2. /\ Paras' = Paras /\ Chains' = Chains /\ SharedFile' = SharedFile
        /\ \A q : FilesNeeded(q)' = FilesNeeded(q) /\ Para(q)' = Para(q)
    BY <2>1, SamePara
  <2>3. \A p \in Paras : task'[p] = "todo" <=> p > taken'
    BY <2>1
  <2>4. \A p \in Paras : /\ task'[p] = "done" <=> task[p] = "done"
                        /\ task'[p] # "building" /\ task[p] # "building"
    BY <2>1
  <2>5. \A c : WritersOf(c)' = WritersOf(c)
    BY <2>2, <2>4 DEF WritersOf
  <2> QED  BY <2>1, <2>2, <2>3, <2>4, <2>5 DEF TaskInv
<1>2. ASSUME NEW p \in Paras, ParaStep(p)
      PROVE  TaskInv'
  <2> USE DEF TaskState
  <2>t. Para(p).chain \in Chains  BY DEF Chains
  <2>u. /\ DOMAIN plain = Paras
        /\ shared \in [Chains -> SharedFile]
        /\ \A c \in Chains : shared[c].writers = WritersOf(c)
    BY DEF TaskInv
  \* A step of one that does not build, but for the last, leaves the writers.
  <2>v. ASSUME NEW from \in TaskState \ {"todo", "building", "done"},
               NEW to \in TaskState \ {"todo", "building", "done"},
               TaskStep(p, from, to), DOMAIN plain' = Paras,
               UNCHANGED <<shared, files>>
        PROVE  TaskInv'
    <3>1. task[p] # "building"  BY <2>v DEF TaskStep
    <3>2. \A c \in Chains : shared[c].writers = shared[c].writers \ {p}
      BY <2>u, <3>1 DEF WritersOf
    <3> HIDE DEF TaskState
    <3> QED  BY <2>u, <2>v, <3>2, TaskInvAfter
  <2>1. CASE NoSpecNeeded(p)
    <3>1. TaskStep(p, "begin", "files") /\ UNCHANGED <<shared, plain, files>>
      BY <2>1 DEF NoSpecNeeded
    <3> QED  BY <3>1, <2>u, <2>v
  <2>2. CASE CopySpec(p)
    <3>1. /\ TaskStep(p, "begin", "customise") /\ DOMAIN plain' = Paras
          /\ UNCHANGED <<shared, files>>
      BY <2>2, <2>u DEF CopySpec
    <3> QED  BY <3>1, <2>u, <2>v
  <2>3. CASE BuildSpec(p)
    <3>1. /\ TaskStep(p, "begin", "building")
          /\ shared' = [shared EXCEPT ![Para(p).chain] =
                [writers |-> shared[Para(p).chain].writers \cup {p}, whole |-> FALSE,
                 mixed |-> shared[Para(p).chain].writers # {}]]
          /\ UNCHANGED <<plain, files>>
      BY <2>3 DEF BuildSpec
    <3> QED  BY <3>1, <2>t, <2>u, TaskInvAfter DEF SharedFile
  <2>4. CASE SpecBuilt(p)
    <3>1. PICK whole \in BOOLEAN :
            shared' = [shared EXCEPT
              ![Para(p).chain].writers = shared[Para(p).chain].writers \ {p},
              ![Para(p).chain].whole = whole]
      BY <2>4 DEF SpecBuilt
    <3>2. TaskStep(p, "building", "copying") /\ UNCHANGED <<plain, files>>
      BY <2>4 DEF SpecBuilt
    <3>3. shared' \in [Chains -> SharedFile]
      BY <3>1, <2>t, <2>u DEF SharedFile
    <3>4. \A c \in Chains : shared'[c].writers =
            IF c # Para(p).chain THEN shared[c].writers ELSE shared[c].writers \ {p}
      BY <3>1, <2>t, <2>u DEF SharedFile
    <3>5. "copying" \in TaskState \ {"todo"}  OBVIOUS
    <3>6. DOMAIN plain' = Paras /\ files' = files  BY <3>2, <2>u
    <3> HIDE DEF TaskState
    <3> QED  BY <3>2, <3>3, <3>4, <3>5, <3>6, TaskInvAfter
  <2>5. CASE CopyBuilt(p)
    <3>1. /\ TaskStep(p, "copying", "customise") /\ DOMAIN plain' = Paras
          /\ UNCHANGED <<shared, files>>
      BY <2>5, <2>u DEF CopyBuilt
    <3> QED  BY <3>1, <2>u, <2>v
  <2>6. CASE CustomisePara(p)
    <3>1. TaskStep(p, "customise", "raw") /\ UNCHANGED <<shared, plain, files>>
      BY <2>6 DEF CustomisePara
    <3> QED  BY <3>1, <2>u, <2>v
  <2>7. CASE GenerateRaw(p)
    <3>1. /\ TaskStep(p, "raw", "files")
          /\ UNCHANGED <<shared, plain, files>>
      BY <2>7, <2>u DEF GenerateRaw
    <3> QED  BY <3>1, <2>u, <2>v
  <2>8. CASE GenerateFiles(p)
    <3>1. /\ TaskStep(p, "files", "done") /\ UNCHANGED <<shared, plain>>
          /\ IF FilesNeeded(p) THEN files' = files \cup {p} ELSE files' = files
      BY <2>8 DEF GenerateFiles
    <3>2. task[p] # "building"  BY <3>1 DEF TaskStep
    <3>3. \A c \in Chains : shared[c].writers = shared[c].writers \ {p}
      BY <2>u, <3>2 DEF WritersOf
    <3>4. /\ DOMAIN plain' = Paras
          /\ shared' \in [Chains -> SharedFile]
          /\ \A c \in Chains : shared'[c].writers =
               IF c # Para(p).chain THEN shared[c].writers ELSE shared[c].writers \ {p}
      BY <3>1, <3>3, <2>u
    <3>5. "done" \in TaskState \ {"todo"} /\ "files" \notin {"todo", "done"}
      OBVIOUS
    <3>6. IF FilesNeeded(p) THEN files' = files \cup {p} ELSE files' = files
      BY <3>1
    <3>7. TaskStep(p, "files", "done")  BY <3>1
    <3> HIDE DEF TaskState
    <3> QED  BY <3>4, <3>5, <3>6, <3>7, TaskInvAfter
  <2>9. CASE ParaFails(p)
    <3>1. PICK from \in {"begin", "building", "copying", "customise", "raw", "files"} :
            TaskStep(p, from, "failed")
      BY <2>9 DEF ParaFails
    <3>2. /\ shared' = [shared EXCEPT ![Para(p).chain].writers =
                shared[Para(p).chain].writers \ {p}]
          /\ UNCHANGED <<plain, files>>
      BY <2>9 DEF ParaFails
    <3>3. shared' \in [Chains -> SharedFile]
      BY <3>2, <2>t, <2>u DEF SharedFile
    <3>4. \A c \in Chains : shared'[c].writers =
            IF c # Para(p).chain THEN shared[c].writers ELSE shared[c].writers \ {p}
      BY <3>2, <2>t, <2>u DEF SharedFile
    <3>5. from \notin {"todo", "done"} /\ DOMAIN plain' = Paras
      BY <3>2, <2>u
    <3>6. "failed" \in TaskState \ {"todo"} /\ "failed" # "building" /\ "failed" # "done"
      OBVIOUS
    <3>7. files' = files  BY <3>2
    <3> QED  BY <3>1, <3>3, <3>4, <3>5, <3>6, <3>7, TaskInvAfter
  <2> QED  BY <1>2, <2>1, <2>2, <2>3, <2>4, <2>5, <2>6, <2>7, <2>8, <2>9 DEF ParaStep
<1>3. CASE UNCHANGED paraVars
  <2>1. conf' = conf  BY NamesFrame
  <2> QED  BY <1>3, <2>1, SamePara DEF TaskInv, paraVars, WritersOf
<1> QED  BY <1>1, <1>2, <1>3, TaskFrame

-----------------------------------------------------------------------------
(* The plain specs of the parachains of a batch.                           *)

InBatch(p) == task[p] \notin {"todo", "done"}

ByCommand(p) == Para(p).cumulus /\ Para(p).spec = "command"

\* Another parachain of the batch has its spec made in the same file.
Sharer(p) ==
    \E q \in Paras :
      /\ p # q /\ SameBatch(p, q)
      /\ Para(p).chain = Para(q).chain
      /\ ByCommand(p) /\ ByCommand(q)

\* The parachains at work are of one batch; what is not a whole spec, in the file
\* of the command before it is copied or in the copy, is of one that shares.
BatchInv ==
    /\ taken = Len(conf.paras) \/ \E b \in 0..taken : taken = b * Concurrency
    /\ \A p, q \in Paras : InBatch(p) /\ InBatch(q) => SameBatch(p, q)
    /\ \A p \in Paras : task[p] \in {"building", "copying"} => ByCommand(p)
    /\ \A p \in Paras : task[p] = "building" /\ shared[Para(p).chain].mixed => Sharer(p)
    /\ \A p \in Paras : task[p] = "copying" /\ ~shared[Para(p).chain].whole => Sharer(p)
    /\ \A p \in Paras : plain[p] = "torn" => Sharer(p)
    /\ exit = "torn" => \E p \in Paras : Sharer(p)

LEMMA Quotient ==
    ASSUME NEW c \in Nat \ {0}, NEW b \in Nat, NEW x \in Nat,
           b * c <= x, x < b * c + c
    PROVE  x \div c = b
OBVIOUS

LEMMA SameSharers ==
    ASSUME conf' = conf
    PROVE  \A p : /\ Sharer(p)' = Sharer(p) /\ ByCommand(p)' = ByCommand(p)
                 /\ \A q : SameBatch(p, q)' = SameBatch(p, q)
BY DEF Sharer, ByCommand, SameBatch, Paras, Para

LEMMA BatchBegun ==
    ASSUME conf \in Configs, TaskInv, BatchInv, BeginBatch
    PROVE  BatchInv'
<1>1. /\ conf' = conf /\ taken < Len(conf.paras)
      /\ taken' \in taken..(taken + Concurrency)
      /\ taken' = Len(conf.paras) \/ taken' = taken + Concurrency
      /\ \A p \in Paras :
           /\ p \in Nat /\ p \in 1..Len(conf.paras)
           /\ task'[p] = IF p <= taken THEN "done"
                         ELSE IF p <= taken' THEN "begin" ELSE "todo"
      /\ UNCHANGED <<shared, plain, exit>>
  BY BeginBatchFacts
<1>2. Concurrency \in Nat \ {0} /\ Len(conf.paras) \in Nat
  BY GenesisAssumption
<1>3. taken \in Nat  BY DEF TaskInv
<1>4. PICK b \in 0..taken : taken = b * Concurrency
  BY <1>1, <1>2, <1>3 DEF BatchInv
<1>5. taken' = Len(conf'.paras) \/ \E k \in 0..taken' : taken' = k * Concurrency
  <2>1. CASE taken' = taken + Concurrency
    <3>1. b + 1 \in 0..taken' /\ taken' = (b + 1) * Concurrency
      BY <1>2, <1>3, <1>4, <2>1
    <3> QED  BY <3>1
  <2> QED  BY <1>1, <2>1
<1>6. ASSUME NEW p \in Paras, InBatch(p)'
      PROVE  (p - 1) \div Concurrency = b
  <2>1. p \in Nat /\ taken < p /\ p <= taken'
    BY <1>1, <1>3, <1>6 DEF InBatch
  <2>2. p - 1 \in Nat /\ b * Concurrency <= p - 1 /\ p - 1 < b * Concurrency + Concurrency
    BY <1>1, <1>2, <1>3, <1>4, <2>1
  <2> QED  BY <1>2, <1>4, <2>2, Quotient
<1>7. \A p, q \in Paras : InBatch(p)' /\ InBatch(q)' => SameBatch(p, q)
  BY <1>6 DEF SameBatch
<1>8. \A p \in Paras : task'[p] \notin {"building", "copying"}
  BY <1>1
<1> QED
  BY <1>1, <1>5, <1>7, <1>8, SamePara, SameSharers DEF BatchInv

\* A step of one parachain, when what it makes is whole or of one that shares.
LEMMA BatchInvAfter ==
    ASSUME conf \in Configs, TaskInv, BatchInv, NEW p \in Paras, NEW from, NEW to,
           from \notin {"todo", "done"}, TaskStep(p, from, to),
           to \in {"building", "copying"} => ByCommand(p),
           \A q \in Paras : task'[q] = "building" /\ shared'[Para(q).chain].mixed => Sharer(q),
           \A q \in Paras : task'[q] = "copying" /\ ~shared'[Para(q).chain].whole => Sharer(q),
           \A q \in Paras : plain'[q] = "torn" => Sharer(q),
           exit' = "torn" => \E q \in Paras : Sharer(q)
    PROVE  BatchInv'
<1>1. /\ conf' = conf /\ taken' = taken
      /\ \A q \in Paras : task'[q] = IF q = p THEN to ELSE task[q]
  BY DEF TaskStep, TaskInv
<1>2. \A q \in Paras : InBatch(q)' => InBatch(q)
  BY <1>1 DEF TaskStep, InBatch
<1>3. \A q, r \in Paras : InBatch(q)' /\ InBatch(r)' => SameBatch(q, r)
  BY <1>2 DEF BatchInv
<1>4. \A q \in Paras : task'[q] \in {"building", "copying"} => ByCommand(q)
  BY <1>1 DEF BatchInv
<1> QED  BY <1>1, <1>3, <1>4, SamePara, SameSharers DEF BatchInv

LEMMA BatchKept ==
    ASSUME conf \in Configs, TaskInv, BatchInv, [Next]_vars
    PROVE  BatchInv'
<1>1. CASE BeginBatch
  BY <1>1, BatchBegun
<1>2. ASSUME NEW p \in Paras, ParaStep(p)
      PROVE  BatchInv'
  <2>t. /\ DOMAIN plain = Paras /\ task \in [Paras -> TaskState]
        /\ Para(p).chain \in Chains
        /\ \A q \in Paras : Para(q).chain \in Chains
        /\ shared \in [Chains -> SharedFile]
        /\ shared[Para(p).chain].writers = WritersOf(Para(p).chain)
    BY DEF TaskInv, Chains
  \* One that writes shares its file with the others that have their spec there.
  <2>s. ASSUME NEW q \in Paras, q # p, InBatch(p), InBatch(q), ByCommand(p), ByCommand(q),
               Para(q).chain = Para(p).chain
        PROVE  Sharer(p) /\ Sharer(q)
    BY <2>s DEF BatchInv, Sharer
  <2>g. ASSUME NEW from, NEW to,
               from \notin {"todo", "done"}, TaskStep(p, from, to),
               to \notin {"building", "copying"},
               \A c \in Chains : /\ shared'[c].whole = shared[c].whole
                                 /\ shared'[c].mixed = shared[c].mixed,
               \A q \in Paras : plain'[q] = "torn" => Sharer(q),
               exit' = "torn" => \E q \in Paras : Sharer(q)
        PROVE  BatchInv'
    <3>1. \A q \in Paras : task'[q] = "copying" /\ ~shared'[Para(q).chain].whole => Sharer(q)
      BY <2>t, <2>g DEF BatchInv, TaskStep
    <3>2. \A q \in Paras : task'[q] = "building" /\ shared'[Para(q).chain].mixed => Sharer(q)
      BY <2>t, <2>g DEF BatchInv, TaskStep
    <3> QED  BY <2>g, <3>1, <3>2, BatchInvAfter
  <2>1. CASE NoSpecNeeded(p)
    <3>1. TaskStep(p, "begin", "files") /\ UNCHANGED <<shared, plain, exit>>
      BY <2>1 DEF NoSpecNeeded
    <3> QED  BY <3>1, <2>g DEF BatchInv
  <2>2. CASE CopySpec(p)
    <3>1. /\ TaskStep(p, "begin", "customise") /\ UNCHANGED <<shared, exit>>
          /\ plain' = [plain EXCEPT ![p] = "whole"]
      BY <2>2 DEF CopySpec
    <3>2. \A q \in Paras : plain'[q] = "torn" => Sharer(q)
      BY <2>t, <3>1 DEF BatchInv
    <3> QED  BY <3>1, <3>2, <2>g DEF BatchInv
  <2>3. CASE BuildSpec(p)
    <3>1. /\ TaskStep(p, "begin", "building") /\ UNCHANGED <<plain, exit>> /\ ByCommand(p)
          /\ \A c \in Chains : c # Para(p).chain => shared'[c] = shared[c]
          /\ shared'[Para(p).chain].mixed => shared[Para(p).chain].writers # {}
      BY <2>3, <2>t DEF BuildSpec, ByCommand
    <3>2. ASSUME NEW q \in Paras, task'[q] = "copying", ~shared'[Para(q).chain].whole
          PROVE  Sharer(q)
      <4>1. q # p /\ task[q] = "copying"  BY <2>t, <3>1, <3>2 DEF TaskStep
      <4>2. CASE Para(q).chain = Para(p).chain
        <5>1. InBatch(p) /\ InBatch(q) /\ ByCommand(q)
          BY <3>1, <4>1 DEF TaskStep, InBatch, BatchInv
        <5> QED  BY <2>s, <3>1, <4>1, <4>2, <5>1
      <4>3. CASE Para(q).chain # Para(p).chain
        <5>1. ~shared[Para(q).chain].whole  BY <2>t, <3>1, <3>2, <4>3
        <5> QED  BY <4>1, <5>1 DEF BatchInv
      <4> QED  BY <4>2, <4>3
    <3>3. ASSUME NEW q \in Paras, task'[q] = "building", shared'[Para(q).chain].mixed
          PROVE  Sharer(q)
      <4>1. CASE Para(q).chain # Para(p).chain
        <5>1. task[q] = "building" /\ shared[Para(q).chain].mixed
          BY <2>t, <3>1, <3>3, <4>1 DEF TaskStep
        <5> QED  BY <5>1 DEF BatchInv
      <4>2. CASE Para(q).chain = Para(p).chain
        <5>1. PICK r \in WritersOf(Para(p).chain) : TRUE
          BY <2>t, <3>1, <3>3, <4>2
        <5>2. r \in Paras /\ task[r] = "building" /\ Para(r).chain = Para(p).chain
          BY <5>1 DEF WritersOf
        <5>3. InBatch(p) /\ r # p  BY <3>1, <5>2 DEF TaskStep, InBatch
        <5>4. InBatch(r) /\ ByCommand(r)  BY <5>2 DEF InBatch, BatchInv
        <5>5. Sharer(p)  BY <2>s, <3>1, <5>2, <5>3, <5>4
        <5>6. CASE q # p
          <6>1. task[q] = "building"  BY <2>t, <3>1, <3>3, <5>6 DEF TaskStep
          <6>2. InBatch(q) /\ ByCommand(q)  BY <6>1 DEF InBatch, BatchInv
          <6> QED  BY <2>s, <3>1, <4>2, <5>3, <5>6, <6>2
        <5> QED  BY <5>5, <5>6
      <4> QED  BY <4>1, <4>2
    <3> QED  BY <3>1, <3>2, <3>3, BatchInvAfter DEF BatchInv
  <2>4. CASE SpecBuilt(p)
    <3>1. PICK whole \in BOOLEAN :
            /\ ~shared[Para(p).chain].mixed => whole
            /\ shared' = [shared EXCEPT
                 ![Para(p).chain].writers = shared[Para(p).chain].writers \ {p},
                 ![Para(p).chain].whole = whole]
      BY <2>4 DEF SpecBuilt
    <3>2. TaskStep(p, "building", "copying") /\ UNCHANGED <<plain, exit>>
      BY <2>4 DEF SpecBuilt
    <3>3. /\ task[p] = "building" /\ InBatch(p) /\ ByCommand(p)
      BY <3>2 DEF TaskStep, InBatch, BatchInv
    <3>4. ASSUME NEW q \in Paras, task'[q] = "copying", ~shared'[Para(q).chain].whole
          PROVE  Sharer(q)
      <4>1. CASE q = p
        <5>1. shared[Para(p).chain].mixed
          BY <2>t, <3>1, <3>4, <4>1 DEF SharedFile
        <5> QED  BY <3>3, <4>1, <5>1 DEF BatchInv
      <4>2. CASE q # p
        <5>1. task[q] = "copying"  BY <2>t, <3>2, <3>4, <4>2 DEF TaskStep
        <5>2. InBatch(q) /\ ByCommand(q)  BY <5>1 DEF InBatch, BatchInv
        <5>3. CASE Para(q).chain = Para(p).chain
          BY <2>s, <3>3, <4>2, <5>2, <5>3
        <5>4. CASE Para(q).chain # Para(p).chain
          <6>1. ~shared[Para(q).chain].whole  BY <2>t, <3>1, <3>4, <5>4
          <6> QED  BY <5>1, <6>1 DEF BatchInv
        <5> QED  BY <5>3, <5>4
      <4> QED  BY <4>1, <4>2
    <3>5. \A q \in Paras : task'[q] = "building" /\ shared'[Para(q).chain].mixed => Sharer(q)
      <4>1. \A c \in Chains : shared'[c].mixed = shared[c].mixed
        BY <2>t, <3>1 DEF SharedFile
      <4> QED  BY <2>t, <3>2, <4>1 DEF BatchInv, TaskStep
    <3> QED  BY <3>2, <3>3, <3>4, <3>5, BatchInvAfter DEF BatchInv
  <2>5. CASE CopyBuilt(p)
    <3>1. /\ TaskStep(p, "copying", "customise") /\ UNCHANGED <<shared, exit>>
          /\ plain' = [plain EXCEPT ![p] =
               IF shared[Para(p).chain].whole THEN "whole" ELSE "torn"]
      BY <2>5 DEF CopyBuilt
    <3>2. \A q \in Paras : plain'[q] = "torn" => Sharer(q)
      BY <2>t, <3>1 DEF BatchInv, TaskStep
    <3> QED  BY <3>1, <3>2, <2>g DEF BatchInv
  <2>6. CASE CustomisePara(p)
    <3>1. /\ TaskStep(p, "customise", "raw") /\ UNCHANGED <<shared, plain>>
          /\ exit' = IF Parses(p) THEN exit ELSE "torn"
      BY <2>6 DEF CustomisePara
    <3>2. exit' = "torn" => \E q \in Paras : Sharer(q)
      BY <3>1 DEF BatchInv, Parses
    <3> QED  BY <3>1, <3>2, <2>g DEF BatchInv
  <2>7. CASE GenerateRaw(p)
    <3>1. TaskStep(p, "raw", "files") /\ UNCHANGED <<shared, plain, exit>>
      BY <2>7 DEF GenerateRaw
    <3> QED  BY <3>1, <2>g DEF BatchInv
  <2>8. CASE GenerateFiles(p)
    <3>1. TaskStep(p, "files", "done") /\ UNCHANGED <<shared, plain, exit>>
      BY <2>8 DEF GenerateFiles
    <3> QED  BY <3>1, <2>g DEF BatchInv
  <2>9. CASE ParaFails(p)
    <3>1. PICK from \in {"begin", "building", "copying", "customise", "raw", "files"} :
            TaskStep(p, from, "failed")
      BY <2>9 DEF ParaFails
    <3>2. /\ UNCHANGED <<plain, exit>>
          /\ \A c \in Chains : /\ shared'[c].whole = shared[c].whole
                               /\ shared'[c].mixed = shared[c].mixed
      BY <2>9, <2>t DEF ParaFails, SharedFile
    <3> QED  BY <3>1, <3>2, <2>g DEF BatchInv
  <2> QED  BY <1>2, <2>1, <2>2, <2>3, <2>4, <2>5, <2>6, <2>7, <2>8, <2>9 DEF ParaStep
<1>3. CASE UNCHANGED paraVars /\ (exit' = "torn" => exit = "torn")
  <2>1. conf' = conf  BY NamesFrame
  <2>2. UNCHANGED <<taken, task, shared, plain>>  BY <1>3 DEF paraVars
  <2> QED  BY <1>3, <2>1, <2>2, SamePara, SameSharers DEF BatchInv, InBatch
<1> QED  BY <1>1, <1>2, <1>3, TaskFrame

-----------------------------------------------------------------------------
(* The genesis of the relay chain.                                         *)

Untouched ==
    [authorities |-> {Default}, funded |-> {},
     stakers |-> IF conf.relay.staking = "stakers" THEN {Default} ELSE {},
     paras |-> {}, nominators |-> FALSE, hrmp |-> FALSE]

Stages == {"config", "paras", "overrides", "clear", "balances", "authorities",
           "nominators", "channels", "raw", "nodes", "up", "failed"}

\* All the names are there before anything is made, and a spec has its type.
StageInv ==
    /\ stage \in Stages
    /\ IF stage = "config"
       THEN relay = Untouched /\ relayRaw = Untouched
       ELSE AllNamed /\ relay \in SpecType /\ relayRaw \in SpecType
    /\ stakingBond => HasStaking
    /\ registered \subseteq included /\ included \subseteq ToRegister
    /\ exit \in {"none", "torn", "paras", "hrmp", "catch"}
    /\ exit = "hrmp" => stage = "raw"
    /\ stage \in {"nodes", "up"} => relayRaw = relay

\* Every step of the customisation has left its mark, unless one has thrown.
AllSteps ==
    /\ stage \in {"raw", "nodes", "up"}
    /\ ~RelayIsRaw /\ ~swallowed /\ exit # "hrmp"

GenesisInv ==
    stage # "config" =>
      /\ relay.authorities = {Default} \/ relay.authorities \subseteq NodeKeys
      /\ relay.stakers \subseteq relay.funded \cup {Default}
      /\ stage \in {"paras", "overrides", "clear"} => relay.stakers = Untouched.stakers
      /\ stage \in {"balances", "authorities"} => relay.authorities = {} /\ relay.stakers = {}
      /\ stage \in {"authorities", "nominators", "channels"} \/ AllSteps =>
           relay.funded = NodeKeys
      /\ stage \in {"nominators", "channels"} \/ AllSteps =>
           /\ HasAuthorityKeys => relay.authorities = ValidatorKeys
           /\ HasStaking => relay.stakers = ValidatorKeys
      /\ stage = "channels" \/ AllSteps =>
           (conf.nominators /\ HasStaking => relay.nominators)
      /\ AllSteps /\ conf.hrmp => relay.hrmp

\* What is added to the genesis stays there, but for the user's genesis; and the
\* parachains are done before the relay chain goes on.
OnboardInv ==
    /\ relay.paras \subseteq {p \in Paras : Para(p).add}
    /\ RelayIsRaw \/ stage \in {"config", "paras"} => relay.paras = {}
    /\ stage \notin {"config", "paras", "failed"} =>
         /\ \A p \in Paras : task[p] = "done"
         /\ RelayIsRaw \/ conf.override = "paras"
              \/ relay.paras = {p \in Paras : Para(p).add}
    /\ stage = "up" => ToRegister \subseteq included

LEMMA SameKeys ==
    ASSUME conf' = conf, seed' = seed
    PROVE  /\ \A nodes : KeysOf(nodes)' = KeysOf(nodes)
           /\ NodeKeys' = NodeKeys /\ ValidatorKeys' = ValidatorKeys
           /\ SpecType' = SpecType /\ AllNamed' = AllNamed
BY DEF KeysOf, Key, NodeKeys, ValidatorKeys, Validators, SpecType, AllNamed, Calls, Paras, Para

LEMMA SameConf ==
    ASSUME conf' = conf
    PROVE  /\ ToRegister' = ToRegister /\ Untouched' = Untouched
           /\ HasStaking' = HasStaking /\ HasAuthorityKeys' = HasAuthorityKeys
           /\ RelayIsRaw' = RelayIsRaw
           /\ {p \in Paras : Para(p).add}' = {p \in Paras : Para(p).add}
BY DEF ToRegister, Untouched, HasStaking, HasAuthorityKeys, RelayIsRaw, Paras, Para

\* The steps of the parachains leave the relay chain's genesis alone.
Quiet ==
    /\ UNCHANGED <<stage, seed, relayVars>>
    /\ exit' = exit \/ (exit = "none" /\ exit' = "torn")

\* The steps of start() and of the customisation leave the parachains alone.
OfStart ==
    /\ conf' = conf /\ seed' = seed /\ UNCHANGED paraVars
    /\ \/ AddParas \/ AddingFails
       \/ Overrides \/ Clear \/ Balances \/ Authorities \/ AuthoritiesHalf \/ Nominators
       \/ Channels \/ RelayRaw \/ (\E p \in Paras : RegisterPara(p))
       \/ Launched \/ Fails \/ Exit

LEMMA RelayFrame ==
    ASSUME [Next]_vars
    PROVE  NameNext \/ SetupRelaySpec \/ Quiet \/ OfStart
<1>1. CASE BeginBatch
  BY <1>1 DEF BeginBatch, Quiet
<1>2. ASSUME NEW p \in Paras, ParaStep(p)
      PROVE  Quiet
  <2>1. ASSUME NEW from, NEW to, TaskStep(p, from, to), exit' = exit \/ exit' = "torn"
        PROVE  Quiet
    BY <2>1 DEF TaskStep, Quiet, Running
  <2>2. CASE NoSpecNeeded(p)   BY <2>2, <2>1 DEF NoSpecNeeded
  <2>3. CASE CopySpec(p)       BY <2>3, <2>1 DEF CopySpec
  <2>4. CASE BuildSpec(p)      BY <2>4, <2>1 DEF BuildSpec
  <2>5. CASE SpecBuilt(p)      BY <2>5, <2>1 DEF SpecBuilt
  <2>6. CASE CopyBuilt(p)      BY <2>6, <2>1 DEF CopyBuilt
  <2>7. CASE CustomisePara(p)  BY <2>7, <2>1 DEF CustomisePara
  <2>8. CASE GenerateRaw(p)    BY <2>8, <2>1 DEF GenerateRaw
  <2>9. CASE GenerateFiles(p)  BY <2>9, <2>1 DEF GenerateFiles
  <2>10. CASE ParaFails(p)     BY <2>10, <2>1 DEF ParaFails
  <2> QED
    BY <1>2, <2>2, <2>3, <2>4, <2>5, <2>6, <2>7, <2>8, <2>9, <2>10 DEF ParaStep
<1>3. CASE AddParas \/ AddingFails
  <2>1. conf' = conf /\ seed' = seed /\ UNCHANGED paraVars
    BY <1>3 DEF AddParas, AddingFails
  <2> QED  BY <1>3, <2>1 DEF OfStart
<1>4. CASE Overrides \/ Clear \/ Balances \/ Authorities \/ Nominators
  <2>1. conf' = conf /\ seed' = seed /\ UNCHANGED paraVars
    BY <1>4 DEF Overrides, Clear, Balances, Authorities, Nominators, Customise
  <2> QED  BY <1>4, <2>1 DEF OfStart
<1>5. CASE AuthoritiesHalf \/ Channels
  <2>1. conf' = conf /\ seed' = seed /\ UNCHANGED paraVars
    BY <1>5 DEF AuthoritiesHalf, Channels
  <2> QED  BY <1>5, <2>1 DEF OfStart
<1>6. CASE RelayRaw
  BY <1>6 DEF RelayRaw, OfStart
<1>7. CASE \E p \in Paras : RegisterPara(p)
  <2>1. conf' = conf /\ seed' = seed /\ UNCHANGED paraVars
    BY <1>7 DEF RegisterPara
  <2> QED  BY <1>7, <2>1 DEF OfStart
<1>8. CASE Launched \/ Fails \/ Exit
  <2>1. conf' = conf /\ seed' = seed /\ UNCHANGED paraVars
    BY <1>8 DEF Launched, Fails, Exit
  <2> QED  BY <1>8, <2>1 DEF OfStart
<1>9. CASE UNCHANGED vars
  BY <1>9 DEF vars, Quiet
<1> QED
  BY <1>1, <1>2, <1>3, <1>4, <1>5, <1>6, <1>7, <1>8, <1>9 DEF Next

LEMMA UntouchedType == Untouched \in SpecType
BY DEF Untouched, SpecType

\* What the loop over the validators makes of the spec, whole or broken off.
Added(spec, keyed, staked, added) ==
    /\ added \in SpecType
    /\ added.authorities =
         IF HasAuthorityKeys THEN spec.authorities \cup KeysOf(keyed) ELSE spec.authorities
    /\ added.stakers = IF HasStaking THEN spec.stakers \cup KeysOf(staked) ELSE spec.stakers
    /\ added.funded = spec.funded /\ added.paras = spec.paras

LEMMA AddedFacts ==
    ASSUME NEW spec \in SpecType, NEW keyed \in SUBSET Validators,
           NEW staked \in SUBSET Validators
    PROVE  Added(spec, keyed, staked, AddStaking(AddAuthorities(spec, keyed), staked))
<1>1. KeysOf(keyed) \subseteq NodeKeys /\ KeysOf(staked) \subseteq NodeKeys
  BY DEF KeysOf, NodeKeys, Validators
<1>2. /\ AddAuthorities(spec, keyed) \in SpecType
      /\ AddAuthorities(spec, keyed).authorities =
           IF HasAuthorityKeys THEN spec.authorities \cup KeysOf(keyed) ELSE spec.authorities
      /\ AddAuthorities(spec, keyed).stakers = spec.stakers
      /\ AddAuthorities(spec, keyed).funded = spec.funded
      /\ AddAuthorities(spec, keyed).paras = spec.paras
  BY <1>1 DEF AddAuthorities, SpecType
<1>3. PICK keyedSpec : keyedSpec = AddAuthorities(spec, keyed)
  OBVIOUS
<1>4. /\ AddStaking(keyedSpec, staked) \in SpecType
      /\ AddStaking(keyedSpec, staked).authorities = keyedSpec.authorities
      /\ AddStaking(keyedSpec, staked).stakers =
           IF HasStaking THEN keyedSpec.stakers \cup KeysOf(staked) ELSE keyedSpec.stakers
      /\ AddStaking(keyedSpec, staked).funded = keyedSpec.funded
      /\ AddStaking(keyedSpec, staked).paras = keyedSpec.paras
  BY <1>1, <1>2, <1>3 DEF AddStaking, SpecType
<1> QED  BY <1>2, <1>3, <1>4 DEF Added

\* The loop that has thrown has added some validators.
LEMMA HalfFacts ==
    ASSUME AuthoritiesHalf
    PROVE  /\ stage = "authorities" /\ stage' = "raw" /\ swallowed' = TRUE
           /\ exit = "none" /\ exit' = exit
           /\ UNCHANGED <<stakingBond, relayRaw, included, registered>>
           /\ relay \in SpecType =>
                \E keyed, staked \in SUBSET Validators : Added(relay, keyed, staked, relay')
<1>1. PICK i \in Validators :
        LET before == {j \in Validators : j < i}
        IN  \E keyed \in {before, before \cup {i}} :
              relay' = AddStaking(AddAuthorities(relay, keyed), before)
  BY DEF AuthoritiesHalf
<1>2. PICK keyed \in SUBSET Validators, staked \in SUBSET Validators :
        relay' = AddStaking(AddAuthorities(relay, keyed), staked)
  BY <1>1
<1>3. relay \in SpecType => Added(relay, keyed, staked, relay')
  BY <1>2, AddedFacts
<1> QED  BY <1>3 DEF AuthoritiesHalf, Running

\* The loop that comes to its end.
LEMMA AuthoritiesFacts ==
    ASSUME Authorities
    PROVE  /\ stage = "authorities" /\ stage' = "nominators"
           /\ exit = "none" /\ exit' = exit
           /\ UNCHANGED <<stakingBond, relayRaw, included, registered>>
           /\ relay \in SpecType => Added(relay, Validators, Validators, relay')
<1>1. /\ stage = "authorities" /\ stage' = "nominators"
      /\ exit = "none" /\ exit' = exit
      /\ UNCHANGED <<stakingBond, relayRaw, included, registered>>
      /\ relay' = AddStaking(AddAuthorities(relay, Validators), Validators)
  BY DEF Authorities, Customise, Running
<1>2. PICK nodes \in SUBSET Validators : nodes = Validators
  OBVIOUS
<1>3. relay' = AddStaking(AddAuthorities(relay, nodes), nodes)
  BY <1>1, <1>2
<1>4. relay \in SpecType => Added(relay, nodes, nodes, relay')
  BY <1>3, AddedFacts
<1> QED  BY <1>1, <1>2, <1>4

LEMMA StageKept ==
    ASSUME conf \in Configs, StageInv, [Next]_vars
    PROVE  StageInv'
<1>c. /\ conf' = conf
      /\ ToRegister' = ToRegister /\ Untouched' = Untouched
      /\ HasStaking' = HasStaking
  BY NamesFrame, SameConf
<1>1. CASE NameNext
  <2>1. stage = "config" /\ UNCHANGED <<stage, relayVars, exit>>
    BY <1>1 DEF NameNext
  <2> QED  BY <1>c, <2>1 DEF StageInv, relayVars
<1>2. CASE SetupRelaySpec
  <2>1. /\ AllNamed /\ stage = "config" /\ stage' = "paras" /\ seed' = seed
        /\ exit = "none" /\ UNCHANGED <<relayVars, exit>>
    BY <1>2 DEF SetupRelaySpec, Stage, Running
  <2>2. AllNamed' /\ SpecType' = SpecType  BY <1>c, <2>1, SameKeys
  <2> QED  BY <1>c, <2>1, <2>2, UntouchedType DEF StageInv, Stages, relayVars
<1>3. CASE Quiet
  <2>1. AllNamed' = AllNamed /\ SpecType' = SpecType
    BY <1>c, <1>3, SameKeys DEF Quiet
  <2> QED  BY <1>c, <1>3, <2>1 DEF Quiet, StageInv, relayVars
<1>4. CASE OfStart
  <2>c. /\ SpecType' = SpecType /\ AllNamed' = AllNamed
    BY <1>4, SameKeys DEF OfStart
  <2>d. /\ conf.nominators \in BOOLEAN /\ conf.hrmp \in BOOLEAN
        /\ NodeKeys \subseteq {Default} \cup NodeKeys
        /\ ValidatorKeys \subseteq NodeKeys
    BY GenesisAssumption DEF ValidatorKeys, NodeKeys, KeysOf, Validators
  \* A step of start() that comes to a stage other than "config", with a spec.
  <2>g. ASSUME stage # "config", exit = "none",
               stage' \in Stages \ {"config"}, relay' \in SpecType, relayRaw' \in SpecType,
               stage' \in {"nodes", "up"} => relayRaw' = relay',
               stakingBond' => HasStaking,
               registered' \subseteq included', included' \subseteq ToRegister,
               exit' \in {"none", "catch"} \/ (exit' = "hrmp" /\ stage' = "raw")
        PROVE  StageInv'
    BY <1>c, <2>c, <2>g DEF StageInv
  \* A step of the customisation, with the spec it is to make.
  <2>h. ASSUME NEW from \in Stages, NEW to \in Stages \ {"config", "nodes", "up"},
               NEW throws, NEW next,
               Customise(from, to, throws, next), from # "config",
               next \in SpecType, stakingBond' => HasStaking
        PROVE  StageInv'
    <3>1. /\ stage = from /\ exit = "none" /\ exit' = "none"
          /\ UNCHANGED <<relayRaw, included, registered>>
          /\ \/ stage' = to /\ relay' = next
             \/ stage' = "raw" /\ relay' = relay
      BY <2>h DEF Customise, Running
    <3>2. /\ relay \in SpecType /\ relayRaw \in SpecType
          /\ registered \subseteq included /\ included \subseteq ToRegister
      BY <2>h, <3>1 DEF StageInv
    <3>3. stage' \in Stages \ {"config", "nodes", "up"}
      BY <2>h, <3>1 DEF Stages
    <3> QED  BY <2>g, <2>h, <3>1, <3>2, <3>3
  <2>i. ASSUME stage # "config"
        PROVE  /\ relay \in SpecType /\ relayRaw \in SpecType
               /\ stakingBond => HasStaking
               /\ registered \subseteq included /\ included \subseteq ToRegister
    BY <2>i DEF StageInv
  <2>j. Running <=> exit = "none"  BY DEF Running
  <2>1. CASE AddParas
    <3>1. /\ stage = "paras" /\ stage' \in {"raw", "overrides"} /\ exit = "none"
          /\ UNCHANGED <<relayRaw, stakingBond, included, registered, exit>>
          /\ relay' = relay \/ relay' = [relay EXCEPT !.paras = {p \in Paras : Para(p).add}]
      BY <2>1 DEF AddParas, Stage, Running
    <3>2. relay' \in SpecType  BY <2>i, <3>1 DEF SpecType
    <3> QED  BY <2>g, <2>i, <3>1, <3>2 DEF Stages
  <2>2. CASE Overrides
    <3>1. ASSUME stage = "overrides"
          PROVE  Replaced(relay) \in SpecType
      BY <2>i, <3>1 DEF Replaced, SpecType
    <3>2. stage = "overrides" /\ stakingBond' = stakingBond
      BY <2>2 DEF Overrides, Customise
    <3> QED  BY <2>2, <2>h, <2>i, <3>1, <3>2 DEF Overrides, Stages
  <2>3. CASE Clear
    <3>1. /\ stage = "clear"
          /\ stakingBond' = (stage' = "balances" /\ conf.relay.staking = "stakers")
      BY <2>3 DEF Clear, Customise
    <3>2. [relay EXCEPT !.authorities = {},
                        !.stakers = IF HasStaking THEN {} ELSE relay.stakers] \in SpecType
      BY <2>i, <3>1 DEF SpecType
    <3>3. stakingBond' => HasStaking  BY <3>1 DEF HasStaking
    <3> QED  BY <2>3, <2>h, <3>2, <3>3 DEF Clear, Stages
  <2>4. CASE Balances
    <3>1. stage = "balances" /\ stakingBond' = stakingBond
      BY <2>4 DEF Balances, Customise
    <3>2. [relay EXCEPT !.funded = NodeKeys] \in SpecType
      BY <2>i, <3>1 DEF SpecType
    <3> QED  BY <2>4, <2>h, <2>i, <3>1, <3>2 DEF Balances, Stages
  <2>5. CASE Authorities
    <3>1. relay' \in SpecType  BY <2>5, <2>i, AuthoritiesFacts DEF Added
    <3> QED  BY <2>5, <2>g, <2>i, <3>1, AuthoritiesFacts DEF Stages
  <2>6. CASE Nominators
    <3>1. PICK wanted \in BOOLEAN :
            /\ Customise("nominators", "channels",
                         wanted /\ (~stakingBond \/ ValidatorKeys = {}),
                         [relay EXCEPT !.nominators = wanted])
            /\ stakingBond' = stakingBond
      BY <2>6 DEF Nominators
    <3>2. stage = "nominators"  BY <3>1 DEF Customise
    <3>3. [relay EXCEPT !.nominators = wanted] \in SpecType
      BY <2>i, <3>2 DEF SpecType
    <3> QED  BY <2>h, <2>i, <3>1, <3>2, <3>3 DEF Stages
  <2>7. CASE Channels
    <3>1. /\ stage = "channels" /\ stage' = "raw" /\ exit = "none"
          /\ UNCHANGED <<relayRaw, stakingBond, included, registered>>
          /\ exit' = "hrmp" \/ exit' = exit
          /\ relay' = relay \/ relay' = [relay EXCEPT !.hrmp = conf.hrmp]
      BY <2>7 DEF Channels, Stage, Running
    <3>2. relay' \in SpecType  BY <2>d, <2>i, <3>1 DEF SpecType
    <3> QED  BY <2>g, <2>i, <3>1, <3>2 DEF Stages
  <2>8. CASE RelayRaw
    <3>1. /\ stage = "raw" /\ stage' = "nodes" /\ exit = "none"
          /\ UNCHANGED <<relay, stakingBond, included, registered, exit>>
          /\ relayRaw' = relay
      BY <2>8 DEF RelayRaw, Stage, Running
    <3> QED  BY <2>g, <2>i, <3>1 DEF Stages
  <2>9. CASE \E p \in Paras : RegisterPara(p)
    <3>1. /\ stage = "nodes" /\ exit = "none"
          /\ UNCHANGED <<stage, relay, relayRaw, stakingBond, exit>>
          /\ \E p \in ToRegister : /\ included' = included \cup {p}
                                   /\ registered' \subseteq registered \cup {p}
      BY <2>9 DEF RegisterPara, Running
    <3>2. relayRaw = relay  BY <3>1 DEF StageInv
    <3> QED  BY <2>g, <2>i, <3>1, <3>2 DEF Stages
  <2>10. CASE Launched \/ Fails \/ Exit
    <3>1. /\ exit = "none" /\ exit' \in {"none", "catch"}
          /\ UNCHANGED relayVars
          /\ \/ stage = "nodes" /\ stage' = "up"
             \/ stage' = "failed"
      BY <2>10 DEF Launched, Fails, Exit, Stage, Running
    <3>2. CASE stage = "config"
      <4>1. stage' = "failed" /\ AllNamed
        BY <2>10, <3>1, <3>2 DEF Launched, Fails, Exit, Stage
      <4> QED  BY <1>c, <2>c, <3>1, <3>2, <4>1, UntouchedType DEF StageInv, Stages, relayVars
    <3>3. CASE stage # "config"
      <4>1. stage = "nodes" => relayRaw = relay  BY DEF StageInv
      <4> QED  BY <2>g, <2>i, <3>1, <3>3, <4>1 DEF Stages, relayVars
    <3> QED  BY <3>2, <3>3
  <2>11. CASE AddingFails
    <3>1. /\ stage = "paras" /\ stage' = "failed" /\ exit' \in {"none", "paras"}
          /\ UNCHANGED relayVars
      BY <2>11 DEF AddingFails, Stage
    <3> QED  BY <1>c, <2>c, <2>i, <3>1 DEF StageInv, Stages, relayVars
  <2>12. CASE AuthoritiesHalf
    <3>1. relay' \in SpecType  BY <2>12, <2>i, HalfFacts DEF Added
    <3> QED  BY <2>12, <2>g, <2>i, <3>1, HalfFacts DEF Stages
  <2> QED
    BY <1>4, <2>1, <2>2, <2>3, <2>4, <2>5, <2>6, <2>7, <2>8, <2>9, <2>10, <2>11, <2>12
    DEF OfStart
<1> QED  BY <1>1, <1>2, <1>3, <1>4, RelayFrame

LEMMA ParaStepNotDone ==
    ASSUME NEW p \in Paras, ParaStep(p)
    PROVE  task[p] # "done"
BY DEF ParaStep, NoSpecNeeded, CopySpec, BuildSpec, SpecBuilt, CopyBuilt, CustomisePara,
       GenerateRaw, GenerateFiles, ParaFails, TaskStep

LEMMA OnboardKept ==
    ASSUME conf \in Configs, TaskInv, StageInv, OnboardInv, [Next]_vars
    PROVE  OnboardInv'
<1> DEFINE Adds == {p \in Paras : Para(p).add}
<1>c. /\ conf' = conf /\ Paras' = Paras
      /\ ToRegister' = ToRegister /\ RelayIsRaw' = RelayIsRaw
      /\ Adds' = Adds
  BY NamesFrame, SameConf, SamePara
<1> HIDE DEF Adds
<1>o. /\ relay.paras \subseteq Adds
      /\ RelayIsRaw \/ stage \in {"config", "paras"} => relay.paras = {}
      /\ stage \notin {"config", "paras", "failed"} =>
           /\ \A p \in Paras : task[p] = "done"
           /\ RelayIsRaw \/ conf.override = "paras" \/ relay.paras = Adds
      /\ stage = "up" => ToRegister \subseteq included
  BY DEF OnboardInv, Adds
<1>p. ASSUME /\ relay'.paras \subseteq Adds
             /\ RelayIsRaw \/ stage' \in {"config", "paras"} => relay'.paras = {}
             /\ stage' \notin {"config", "paras", "failed"} =>
                  /\ \A p \in Paras : task'[p] = "done"
                  /\ RelayIsRaw \/ conf.override = "paras" \/ relay'.paras = Adds
             /\ stage' = "up" => ToRegister \subseteq included'
      PROVE  OnboardInv'
  BY <1>c, <1>p DEF OnboardInv, Adds
<1>1. CASE NameNext \/ SetupRelaySpec
  <2>1. stage' \in {"config", "paras"} /\ stage = "config" /\ relay' = relay
    BY <1>1 DEF NameNext, SetupRelaySpec, Stage, relayVars
  <2> QED  BY <1>o, <1>p, <2>1
<1>2. CASE Quiet
  <2>1. UNCHANGED <<stage, relay, included>>
    BY <1>2 DEF Quiet, relayVars
  <2>2. CASE BeginBatch
    <3>1. stage = "paras"  BY <2>2 DEF BeginBatch
    <3> QED  BY <1>o, <1>p, <2>1, <3>1
  <2>3. CASE \E p \in Paras : ParaStep(p)
    <3>1. stage \in {"config", "paras", "failed"}
      BY <1>o, <2>3, ParaStepNotDone
    <3> QED  BY <1>o, <1>p, <2>1, <3>1
  <2>4. CASE UNCHANGED paraVars
    <3>1. task' = task  BY <2>4 DEF paraVars
    <3> QED  BY <1>o, <1>p, <2>1, <3>1
  <2> QED  BY <2>2, <2>3, <2>4, TaskFrame
<1>3. CASE OfStart
  <2>t. task' = task  BY <1>3 DEF OfStart, paraVars
  <2>r. stage # "config" => relay \in SpecType
    BY DEF StageInv
  \* A step with the same parachains, after the one that adds them.
  <2>g. ASSUME relay'.paras = relay.paras, stage \notin {"config", "paras"},
               stage' \notin {"config", "paras", "up"},
               stage = "failed" => stage' = "failed"
        PROVE  OnboardInv'
    BY <1>o, <1>p, <2>g, <2>t
  <2>h. ASSUME NEW from \in {"clear", "balances", "authorities", "nominators"},
               NEW to \in {"balances", "authorities", "nominators", "channels"},
               NEW throws, NEW next, Customise(from, to, throws, next),
               stage = from => next.paras = relay.paras
        PROVE  OnboardInv'
    <3>1. /\ stage = from /\ stage' \in {to, "raw"}
          /\ relay' = next \/ relay' = relay
      BY <2>h DEF Customise
    <3> QED  BY <2>g, <2>h, <3>1
  <2>1. CASE AddParas
    <3>1. /\ stage = "paras" /\ stage' \in {"raw", "overrides"}
          /\ AllDone /\ taken = Len(conf.paras)
          /\ relay' = IF RelayIsRaw THEN relay ELSE [relay EXCEPT !.paras = Adds]
      BY <2>1 DEF AddParas, Stage, Adds
    <3>2. \A p \in Paras : task[p] = "done"
      <4>1. Paras = 1..taken  BY <3>1, GenesisAssumption DEF Paras
      <4> QED  BY <3>1, <4>1 DEF AllDone
    <3>3. relay'.paras = IF RelayIsRaw THEN {} ELSE Adds
      BY <1>o, <2>r, <3>1 DEF SpecType
    <3> QED  BY <1>p, <2>t, <3>1, <3>2, <3>3
  <2>2. CASE Overrides
    <3>1. /\ stage = "overrides" /\ stage' \in {"clear", "raw"}
          /\ relay' = Replaced(relay) \/ relay' = relay
      BY <2>2 DEF Overrides, Customise
    <3>2. CASE relay'.paras = relay.paras
      BY <2>g, <3>1, <3>2
    <3>3. CASE relay'.paras # relay.paras
      <4>1. conf.override = "paras" /\ relay'.paras = {}
        BY <2>r, <3>1, <3>3 DEF Replaced, SpecType
      <4> QED  BY <1>o, <1>p, <2>t, <3>1, <4>1
    <3> QED  BY <3>2, <3>3
  <2>3. CASE Clear
    <3>1. stage = "clear" =>
            [relay EXCEPT !.authorities = {},
                          !.stakers = IF HasStaking THEN {} ELSE relay.stakers].paras
              = relay.paras
      BY <2>r DEF SpecType
    <3> QED  BY <2>3, <2>h, <3>1 DEF Clear
  <2>4. CASE Balances
    <3>1. stage = "balances" => [relay EXCEPT !.funded = NodeKeys].paras = relay.paras
      BY <2>r DEF SpecType
    <3> QED  BY <2>4, <2>h, <3>1 DEF Balances
  <2>5. CASE Authorities
    <3>1. relay'.paras = relay.paras  BY <2>r, <2>5, AuthoritiesFacts DEF Added
    <3> QED  BY <2>5, <2>g, <3>1, AuthoritiesFacts
  <2>6. CASE Nominators
    <3>1. PICK wanted \in BOOLEAN :
            Customise("nominators", "channels",
                      wanted /\ (~stakingBond \/ ValidatorKeys = {}),
                      [relay EXCEPT !.nominators = wanted])
      BY <2>6 DEF Nominators
    <3>2. stage = "nominators" => [relay EXCEPT !.nominators = wanted].paras = relay.paras
      BY <2>r DEF SpecType
    <3> QED  BY <2>h, <3>1, <3>2
  <2>7. CASE Channels
    <3>1. /\ stage = "channels" /\ stage' = "raw"
          /\ relay' = relay \/ relay' = [relay EXCEPT !.hrmp = conf.hrmp]
      BY <2>7 DEF Channels, Stage
    <3>2. relay'.paras = relay.paras  BY <2>r, <3>1 DEF SpecType
    <3> QED  BY <2>g, <3>1, <3>2
  <2>8. CASE RelayRaw
    BY <2>8, <2>g DEF RelayRaw, Stage
  <2>9. CASE \E p \in Paras : RegisterPara(p)
    BY <2>9, <2>g DEF RegisterPara
  <2>10. CASE Launched
    <3>1. /\ stage = "nodes" /\ stage' = "up" /\ UNCHANGED <<relay, included>>
          /\ ToRegister \subseteq included
      BY <2>10 DEF Launched, Stage, relayVars
    <3> QED  BY <1>o, <1>p, <2>t, <3>1
  <2>11. CASE AddingFails \/ Fails \/ Exit
    <3>1. stage' = "failed" /\ relay' = relay
      BY <2>11 DEF AddingFails, Fails, Exit, Stage, relayVars
    <3> QED  BY <1>o, <1>p, <3>1
  <2>12. CASE AuthoritiesHalf
    <3>1. relay'.paras = relay.paras  BY <2>r, <2>12, HalfFacts DEF Added
    <3> QED  BY <2>12, <2>g, <3>1, HalfFacts
  <2> QED
    BY <1>3, <2>1, <2>2, <2>3, <2>4, <2>5, <2>6, <2>7, <2>8, <2>9, <2>10, <2>11, <2>12
    DEF OfStart
<1> QED  BY <1>1, <1>2, <1>3, RelayFrame

LEMMA GenesisKept ==
    ASSUME conf \in Configs, StageInv, GenesisInv, [Next]_vars
    PROVE  GenesisInv'
<1>c. /\ conf' = conf /\ Untouched' = Untouched
      /\ HasStaking' = HasStaking /\ HasAuthorityKeys' = HasAuthorityKeys
      /\ RelayIsRaw' = RelayIsRaw
  BY NamesFrame, SameConf
<1>u. /\ Untouched.authorities = {Default} /\ Untouched.funded = {}
      /\ Untouched.stakers \subseteq {Default}
      /\ ~HasStaking => Untouched.stakers = {}
  BY DEF Untouched, HasStaking
<1>v. ValidatorKeys \subseteq NodeKeys
  BY DEF ValidatorKeys, NodeKeys, KeysOf, Validators
<1>1. CASE NameNext
  <2>1. stage' = "config"  BY <1>1 DEF NameNext
  <2> QED  BY <2>1 DEF GenesisInv
<1>2. CASE SetupRelaySpec
  <2>1. stage' = "paras" /\ relay' = relay /\ stage = "config"
    BY <1>2 DEF SetupRelaySpec, Stage, relayVars
  <2>2. relay' = Untouched  BY <2>1 DEF StageInv
  <2>3. ~AllSteps'  BY <2>1 DEF AllSteps
  <2> QED  BY <1>c, <1>u, <2>1, <2>2, <2>3 DEF GenesisInv
<1>3. CASE Quiet
  <2>1. /\ UNCHANGED <<stage, relay, swallowed>> /\ seed' = seed
        /\ exit' # "hrmp" <=> exit # "hrmp"
    BY <1>3 DEF Quiet, relayVars
  <2>2. NodeKeys' = NodeKeys /\ ValidatorKeys' = ValidatorKeys
    BY <1>c, <2>1, SameKeys
  <2>3. AllSteps' = AllSteps  BY <1>c, <2>1 DEF AllSteps
  <2> QED  BY <1>c, <2>1, <2>2, <2>3 DEF GenesisInv
<1>4. CASE OfStart
  <2>s. NodeKeys' = NodeKeys /\ ValidatorKeys' = ValidatorKeys
    BY <1>4, SameKeys DEF OfStart
  <2>r. stage # "config" => relay \in SpecType
    BY DEF StageInv
  <2>g. stage # "config" =>
          /\ relay.authorities = {Default} \/ relay.authorities \subseteq NodeKeys
          /\ relay.stakers \subseteq relay.funded \cup {Default}
          /\ stage \in {"paras", "overrides", "clear"} => relay.stakers = Untouched.stakers
          /\ stage \in {"balances", "authorities"} =>
               relay.authorities = {} /\ relay.stakers = {}
          /\ stage \in {"authorities", "nominators", "channels"} => relay.funded = NodeKeys
          /\ stage \in {"nominators", "channels"} =>
               /\ HasAuthorityKeys => relay.authorities = ValidatorKeys
               /\ HasStaking => relay.stakers = ValidatorKeys
          /\ stage = "channels" => (conf.nominators /\ HasStaking => relay.nominators)
    BY DEF GenesisInv
  \* A step that throws, and one that leaves these parts of the spec alone.
  <2>t. ASSUME stage # "config", relay' = relay, stage' = "raw", swallowed' = TRUE
        PROVE  GenesisInv'
    <3>1. ~AllSteps'  BY <2>t DEF AllSteps
    <3> QED  BY <1>c, <2>s, <2>g, <2>t, <3>1 DEF GenesisInv
  <2>1. CASE AddParas
    <3>1. /\ stage = "paras" /\ stage' = IF RelayIsRaw THEN "raw" ELSE "overrides"
          /\ relay' = relay \/ relay' = [relay EXCEPT !.paras = {p \in Paras : Para(p).add}]
      BY <2>1 DEF AddParas, Stage
    <3>2. ~AllSteps'  BY <1>c, <3>1 DEF AllSteps
    <3>3. /\ relay'.authorities = relay.authorities /\ relay'.stakers = relay.stakers
          /\ relay'.funded = relay.funded
      BY <2>r, <3>1 DEF SpecType
    <3> QED  BY <1>c, <2>s, <2>g, <3>1, <3>2, <3>3 DEF GenesisInv
  <2>2. CASE Overrides
    <3>1. /\ stage = "overrides"
          /\ \/ stage' = "clear" /\ relay' = Replaced(relay)
             \/ stage' = "raw" /\ swallowed' = TRUE /\ relay' = relay
      BY <2>2 DEF Overrides, Customise
    <3>2. CASE stage' = "clear"
      <4>1. /\ relay'.authorities = relay.authorities /\ relay'.stakers = relay.stakers
            /\ relay'.funded = relay.funded
        BY <2>r, <3>1, <3>2 DEF Replaced, SpecType
      <4>2. ~AllSteps'  BY <3>2 DEF AllSteps
      <4> QED  BY <1>c, <2>s, <2>g, <3>1, <3>2, <4>1, <4>2 DEF GenesisInv
    <3> QED  BY <2>t, <3>1, <3>2
  <2>3. CASE Clear
    <3>1. /\ stage = "clear"
          /\ \/ /\ stage' = "balances"
                /\ relay' = [relay EXCEPT !.authorities = {},
                                          !.stakers = IF HasStaking THEN {} ELSE relay.stakers]
             \/ stage' = "raw" /\ swallowed' = TRUE /\ relay' = relay
      BY <2>3 DEF Clear, Customise
    <3>2. CASE stage' = "balances"
      <4>1. relay'.authorities = {} /\ relay'.stakers = {}
        BY <1>u, <2>r, <2>g, <3>1, <3>2 DEF SpecType
      <4>2. ~AllSteps'  BY <3>2 DEF AllSteps
      <4> QED  BY <1>c, <2>s, <3>2, <4>1, <4>2 DEF GenesisInv
    <3> QED  BY <2>t, <3>1, <3>2
  <2>4. CASE Balances
    <3>1. /\ stage = "balances"
          /\ \/ stage' = "authorities" /\ relay' = [relay EXCEPT !.funded = NodeKeys]
             \/ stage' = "raw" /\ swallowed' = TRUE /\ relay' = relay
      BY <2>4 DEF Balances, Customise
    <3>2. CASE stage' = "authorities"
      <4>1. /\ relay'.authorities = {} /\ relay'.stakers = {}
            /\ relay'.funded = NodeKeys
        BY <2>r, <2>g, <3>1, <3>2 DEF SpecType
      <4>2. ~AllSteps'  BY <3>2 DEF AllSteps
      <4> QED  BY <1>c, <2>s, <3>2, <4>1, <4>2 DEF GenesisInv
    <3> QED  BY <2>t, <3>1, <3>2
  <2>5. CASE Authorities
    <3>1. stage = "authorities" /\ stage' = "nominators"  BY <2>5, AuthoritiesFacts
    <3>2. Added(relay, Validators, Validators, relay')
      BY <2>r, <2>5, <3>1, AuthoritiesFacts
    <3>3. /\ relay'.authorities = IF HasAuthorityKeys THEN ValidatorKeys ELSE {}
          /\ relay'.stakers = IF HasStaking THEN ValidatorKeys ELSE {}
          /\ relay'.funded = NodeKeys
      BY <2>g, <3>1, <3>2 DEF Added, ValidatorKeys
    <3>4. ~AllSteps'  BY <3>1 DEF AllSteps
    <3> QED  BY <1>c, <1>v, <2>s, <3>1, <3>3, <3>4 DEF GenesisInv
  <2>6. CASE Nominators
    <3>1. /\ stage = "nominators"
          /\ \/ /\ stage' = "channels"
                /\ relay' = [relay EXCEPT !.nominators = conf.nominators /\ HasStaking]
             \/ stage' = "raw" /\ swallowed' = TRUE /\ relay' = relay
      BY <2>6 DEF Nominators, Customise
    <3>2. CASE stage' = "channels"
      <4>1. /\ relay'.authorities = relay.authorities /\ relay'.stakers = relay.stakers
            /\ relay'.funded = relay.funded
            /\ relay'.nominators = (conf.nominators /\ HasStaking)
        BY <2>r, <3>1, <3>2 DEF SpecType
      <4>2. ~AllSteps'  BY <3>2 DEF AllSteps
      <4> QED  BY <1>c, <2>s, <2>g, <3>1, <3>2, <4>1, <4>2 DEF GenesisInv
    <3> QED  BY <2>t, <3>1, <3>2
  <2>7. CASE Channels
    <3>1. /\ stage = "channels" /\ stage' = "raw"
          /\ \/ exit' = "hrmp" /\ relay' = relay
             \/ relay' = [relay EXCEPT !.hrmp = conf.hrmp]
      BY <2>7 DEF Channels, Stage
    <3>2. /\ relay'.authorities = relay.authorities /\ relay'.stakers = relay.stakers
          /\ relay'.funded = relay.funded /\ relay'.nominators = relay.nominators
          /\ exit' = "hrmp" \/ relay'.hrmp = conf.hrmp
      BY <2>r, <3>1 DEF SpecType
    <3>3. AllSteps' => relay'.hrmp = conf.hrmp  BY <3>2 DEF AllSteps
    <3> QED  BY <1>c, <2>s, <2>g, <3>1, <3>2, <3>3 DEF GenesisInv
  <2>8. CASE RelayRaw \/ Launched \/ (\E p \in Paras : RegisterPara(p))
    <3>1. /\ stage \in {"raw", "nodes"} /\ stage' \in {"nodes", "up"}
          /\ exit = "none" /\ UNCHANGED <<relay, swallowed, exit>>
      BY <2>8 DEF RelayRaw, Launched, RegisterPara, Stage, Running, relayVars
    <3>2. AllSteps' => AllSteps  BY <1>c, <3>1 DEF AllSteps
    <3> QED  BY <1>c, <2>s, <3>1, <3>2 DEF GenesisInv
  <2>9. CASE AddingFails \/ Fails \/ Exit
    <3>1. stage' = "failed" /\ relay' = relay
      BY <2>9 DEF AddingFails, Fails, Exit, Stage, relayVars
    <3>2. ~AllSteps'  BY <3>1 DEF AllSteps
    <3>3. CASE stage = "config"
      <4>1. relay' = Untouched  BY <3>1, <3>3 DEF StageInv
      <4> QED  BY <1>c, <1>u, <3>1, <3>2, <4>1 DEF GenesisInv
    <3>4. CASE stage # "config"
      BY <1>c, <2>s, <2>g, <3>1, <3>2, <3>4 DEF GenesisInv
    <3> QED  BY <3>3, <3>4
  <2>10. CASE AuthoritiesHalf
    <3>1. stage = "authorities" /\ stage' = "raw" /\ swallowed' = TRUE  BY <2>10, HalfFacts
    <3>2. PICK keyed \in SUBSET Validators, staked \in SUBSET Validators :
            Added(relay, keyed, staked, relay')
      BY <2>r, <2>10, <3>1, HalfFacts
    <3>3. KeysOf(keyed) \subseteq NodeKeys /\ KeysOf(staked) \subseteq NodeKeys
      BY DEF KeysOf, NodeKeys, Validators
    <3>4. relay'.authorities \subseteq NodeKeys /\ relay'.stakers \subseteq relay'.funded
      BY <2>g, <3>1, <3>2, <3>3 DEF Added
    <3>5. ~AllSteps'  BY <3>1 DEF AllSteps
    <3> QED  BY <1>c, <2>s, <3>1, <3>4, <3>5 DEF GenesisInv
  <2> QED
    BY <1>4, <2>1, <2>2, <2>3, <2>4, <2>5, <2>6, <2>7, <2>8, <2>9, <2>10 DEF OfStart
<1> QED  BY <1>1, <1>2, <1>3, <1>4, RelayFrame

-----------------------------------------------------------------------------
(* The inductive invariant and what it implies.                            *)

IInv ==
    /\ conf \in Configs
    /\ NamesInv
    /\ SeedInv
    /\ TaskInv
    /\ BatchInv
    /\ StageInv
    /\ GenesisInv
    /\ OnboardInv

LEMMA InitIInv == Init => IInv
<1> SUFFICES ASSUME Init
             PROVE  IInv
  OBVIOUS
<1>1. conf \in Configs  BY DEF Init
<1>2. /\ Concurrency \in Nat \ {0}
      /\ Len(conf.paras) \in Nat /\ Paras = 1..Len(conf.paras)
  BY <1>1, GenesisAssumption DEF Paras
<1>3. NamesInv  BY DEF Init, NamesInit, NamesInv
<1>4. SeedInv  BY DEF Init, SeedInv
<1>5. TaskInv
  <2>1. /\ taken = 0 /\ task = [p \in Paras |-> "todo"] /\ files = {}
        /\ DOMAIN plain = Paras
        /\ shared = [c \in Chains |-> [writers |-> {}, whole |-> FALSE, mixed |-> FALSE]]
    BY DEF Init, Chains
  <2>2. \A c \in Chains : WritersOf(c) = {}  BY <2>1 DEF WritersOf
  <2>3. taken \in 0..Len(conf.paras)  BY <1>2, <2>1
  <2>4. /\ task \in [Paras -> TaskState]
        /\ \A p \in Paras : task[p] = "todo" /\ p > taken
    BY <1>2, <2>1 DEF TaskState
  <2>5. /\ shared \in [Chains -> SharedFile]
        /\ \A c \in Chains : shared[c].writers = {}
    BY <2>1 DEF SharedFile
  <2> QED  BY <2>1, <2>2, <2>3, <2>4, <2>5 DEF TaskInv
<1>7. BatchInv
  <2>1. /\ taken = 0 /\ task = [p \in Paras |-> "todo"] /\ exit = "none"
        /\ plain = [p \in Paras |-> "none"]
    BY DEF Init
  <2>2. 0 \in 0..taken /\ taken = 0 * Concurrency  BY <1>2, <2>1
  <2> QED  BY <2>1, <2>2 DEF BatchInv, InBatch
<1>8. /\ stage = "config" /\ relay = Untouched /\ relayRaw = Untouched
      /\ stakingBond = FALSE /\ included = {} /\ registered = {} /\ exit = "none"
  BY DEF Init, Untouched
<1>9. StageInv  BY <1>8 DEF StageInv, Stages
<1>10. GenesisInv  BY <1>8 DEF GenesisInv
<1>11. OnboardInv  BY <1>8 DEF OnboardInv, Untouched
<1> QED  BY <1>1, <1>3, <1>4, <1>5, <1>7, <1>9, <1>10, <1>11 DEF IInv

LEMMA IInvKept == IInv /\ [Next]_vars => IInv'
BY SeedKept, TaskKept, BatchKept, StageKept, GenesisKept, OnboardKept DEF IInv

LEMMA Invariance == Spec => []IInv
BY InitIInv, IInvKept, PTL DEF Spec

\* The type invariant: the writers of a shared file are the tasks that build in it,
\* the files are of tasks that are done, and a spec names only nodes.
THEOREM TypeCorrect == Spec => []TypeOK
<1>1. IInv => TypeOK
  <2> SUFFICES ASSUME IInv
               PROVE  TypeOK
    OBVIOUS
  <2>1. DOMAIN shared = Chains  BY DEF IInv, TaskInv
  <2>2. \A c \in DOMAIN shared :
          shared[c].writers = {p \in Paras : task[p] = "building" /\ Para(p).chain = c}
    BY <2>1 DEF IInv, TaskInv, WritersOf
  <2>3. /\ stage # "config" => AllNamed /\ relay \in SpecType /\ relayRaw \in SpecType
        /\ stakingBond => HasStaking
        /\ registered \subseteq included /\ included \subseteq ToRegister
        /\ exit \in {"none", "torn", "paras", "hrmp", "catch"}
        /\ stage \in Stages
    BY DEF IInv, StageInv
  <2>4. DOMAIN seed \subseteq Calls  BY DEF IInv, SeedInv
  <2>5. /\ taken \in 0..Len(conf.paras)
        /\ \A p \in Paras : task[p] = "todo" <=> p > taken
        /\ files \subseteq {p \in Paras : task[p] = "done"}
    BY DEF IInv, TaskInv
  <2> QED  BY <2>2, <2>3, <2>4, <2>5 DEF TypeOK, Stages
<1> QED  BY <1>1, Invariance, PTL

\* Two nodes, parachains or temporary nodes have one name only if it was asked for
\* as it is and made by getUniqueName() of another one too.
THEOREM NamesClashOnlyAsMade == Spec => []ClashOnlyIfAmbiguous
<1>1. IInv => ClashOnlyIfAmbiguous  BY NamesInvImplies DEF IInv
<1> QED  BY <1>1, Invariance, PTL

\* Two collators of a parachain have the same keys only if the name they are made
\* from is one that clashes, or if nameCase() makes one of the letters they begin with.
THEOREM KeysAreOfOneCollator == Spec => []SameKeysOnlyIfAmbiguous
<1>1. IInv => SameKeysOnlyIfAmbiguous
  <2> SUFFICES ASSUME IInv, NEW p \in Paras, NEW c \in CollatorsOf(p), NEW d \in CollatorsOf(p),
                      c # d, Key(c) = Key(d)
               PROVE  \/ Ambiguous(seed[c])
                      \/ DifferInCase(Requested(c).name, Requested(d).name)
    BY DEF SameKeysOnlyIfAmbiguous
  <2>1. /\ c \in DOMAIN seed /\ d \in DOMAIN seed /\ c[1] = p /\ d[1] = p
        /\ IsCollator(c) /\ IsCollator(d)
    BY DEF CollatorsOf
  \* One of them has its name for a seed; the other's is made of its name.
  <2>2. ASSUME NEW a \in DOMAIN seed, NEW b \in DOMAIN seed, a # b, seed[a] = seed[b],
               a[1] = b[1], IsCollator(a), IsCollator(b), seed[a] = Name(a)
        PROVE  Ambiguous(seed[a])
    <3>1. seed[b] # Name(b)
      <4>1. Name(a) = Name(b) => ParaName(a) = ParaName(b)  BY <2>2 DEF ParaName
      <4> QED  BY <2>2, <4>1 DEF IInv, SeedInv
    <3>2. \E k \in 1..(mUsedNames[Name(b)] - 1) : seed[b] = Append(Name(b), k)
      BY <3>1 DEF IInv, SeedInv
    <3>3. Name(a) \in DOMAIN mUsedNames /\ Name(b) \in DOMAIN mUsedNames
      BY DEF IInv, SeedInv
    <3> QED  BY <2>2, <3>2, <3>3 DEF Ambiguous
  <2>3. CASE seed[c] = seed[d]
    <3>1. seed[c] = Name(c) \/ seed[d] = Name(d)
      BY <2>1, <2>3 DEF IInv, SeedInv
    <3> QED  BY <2>1, <2>2, <2>3, <3>1
  \* Otherwise only what nameCase() changes can differ, the first words.
  <2>4. CASE seed[c] # seed[d]
    <3>1. /\ IsName(seed[c]) /\ seed[c][1] = Name(c)[1]
          /\ IsName(seed[d]) /\ seed[d][1] = Name(d)[1]
      BY <2>1, SeedFacts DEF IInv
    <3>s. PICK s, t : s = seed[c] /\ t = seed[d]
      OBVIOUS
    <3>2. nameCase(s) = nameCase(t) /\ s # t /\ IsName(s) /\ IsName(t)
      BY <2>4, <3>1, <3>s DEF Key
    <3>3. s[1] # t[1] /\ Capitalised(s[1]) = Capitalised(t[1])
      BY <3>2, nameCaseFacts
    <3> QED  BY <3>1, <3>s, <3>3 DEF DifferInCase, Name
  <2> QED  BY <2>3, <2>4
<1> QED  BY <1>1, Invariance, PTL

\* A launch dies of a chain spec it cannot parse only when two parachains of a batch
\* have theirs made in the same file.
THEOREM TornSpecsAreShared == Spec => []TornOnlyWhenShared
<1>1. IInv => TornOnlyWhenShared
  <2> SUFFICES ASSUME IInv, exit = "torn"
               PROVE  \E p, q \in Paras :
                        /\ p # q /\ SameBatch(p, q)
                        /\ Para(p).chain = Para(q).chain
                        /\ \A r \in {p, q} : Para(r).cumulus /\ Para(r).spec = "command"
    BY DEF TornOnlyWhenShared
  <2>1. PICK p \in Paras : Sharer(p)  BY DEF IInv, BatchInv
  <2> QED  BY <2>1 DEF Sharer, ByCommand
<1> QED  BY <1>1, Invariance, PTL

\* The relay chain's genesis has what the network definition asks for, unless an
\* error was swallowed, and never the authorities of two networks.
THEOREM GenesisIsAsAsked == Spec => []GenesisAsAsked
<1>1. IInv => GenesisAsAsked
  <2> SUFFICES ASSUME IInv, stage \in {"nodes", "up"}, ~RelayIsRaw
               PROVE  /\ Default \in relayRaw.authorities => relayRaw.authorities = {Default}
                      /\ relayRaw.stakers \subseteq relayRaw.funded \cup {Default}
                      /\ swallowed \/
                           /\ HasAuthorityKeys => relayRaw.authorities = ValidatorKeys
                           /\ HasStaking => relayRaw.stakers = ValidatorKeys
                           /\ NodeKeys = relayRaw.funded
                           /\ conf.hrmp => relayRaw.hrmp
                           /\ conf.nominators /\ HasStaking => relayRaw.nominators
    BY DEF GenesisAsAsked
  <2>1. relayRaw = relay /\ AllNamed /\ exit # "hrmp"
    BY DEF IInv, StageInv
  <2>2. Default \notin NodeKeys
    <3>1. ASSUME NEW i \in DOMAIN conf.nodes
          PROVE  Key(<<0, i>>) # Default
      <4>1. PICK c : c = <<0, i>>
        OBVIOUS
      <4>2. c \in Calls  BY <4>1 DEF Calls
      <4>3. c \in DOMAIN seed  BY <2>1, <4>2 DEF AllNamed
      <4>4. IsName(seed[c])  BY <4>3, SeedFacts DEF IInv
      <4>5. 1 \in DOMAIN nameCase(seed[c])  BY <4>4 DEF IsName, nameCase
      <4>6. 1 \notin DOMAIN Default  BY DEF Default
      <4> QED  BY <4>1, <4>5, <4>6 DEF Key
    <3> QED  BY <3>1 DEF NodeKeys, KeysOf
  <2>3. /\ relay.authorities = {Default} \/ relay.authorities \subseteq NodeKeys
        /\ relay.stakers \subseteq relay.funded \cup {Default}
        /\ AllSteps =>
             /\ relay.funded = NodeKeys
             /\ HasAuthorityKeys => relay.authorities = ValidatorKeys
             /\ HasStaking => relay.stakers = ValidatorKeys
             /\ conf.nominators /\ HasStaking => relay.nominators
             /\ conf.hrmp => relay.hrmp
    BY DEF IInv, GenesisInv
  <2>4. swallowed \/ AllSteps  BY <2>1 DEF AllSteps
  <2> QED  BY <2>1, <2>2, <2>3, <2>4
<1> QED  BY <1>1, Invariance, PTL

\* In a launched network every parachain that is to be has its files and is in the
\* genesis, or its registration in a block, and not both.
THEOREM ParachainsAreOnboard == Spec => []ParasOnboard
<1>1. IInv => ParasOnboard
  <2> SUFFICES ASSUME IInv, stage = "up", NEW p \in Paras
               PROVE  /\ ~(p \in relayRaw.paras /\ p \in included)
                      /\ LeftOut(p) \/ p \in relayRaw.paras \cup included
                      /\ p \in relayRaw.paras \cup included => p \in files
    BY DEF ParasOnboard
  <2>1. relayRaw = relay /\ included \subseteq ToRegister
    BY DEF IInv, StageInv
  <2>2. /\ relay.paras \subseteq {q \in Paras : Para(q).add}
        /\ RelayIsRaw => relay.paras = {}
        /\ RelayIsRaw \/ conf.override = "paras" \/ relay.paras = {q \in Paras : Para(q).add}
        /\ task[p] = "done"
        /\ ToRegister \subseteq included
    BY DEF IInv, OnboardInv
  <2>3. p \in files \/ (RelayIsRaw /\ Para(p).add)
    BY <2>2 DEF IInv, TaskInv, FilesNeeded
  <2> QED  BY <2>1, <2>2, <2>3 DEF ToRegister, LeftOut
<1> QED  BY <1>1, Invariance, PTL
=============================================================================
