-------------------------------- MODULE Names --------------------------------
(***************************************************************************)
(* The names of nodes, parachains and temporary nodes (configGenerator.ts):*)
(* getUniqueName() and its two tables.  A name is a sequence, its words    *)
(* joined by dashes: <<"bob", 1>> is "bob-1", whether a configuration says *)
(* so, a group of nodes has it as its second member, or getUniqueName()    *)
(* made it.  The configuration's names have no spaces (sanitizeName()).    *)
(***************************************************************************)
EXTENDS Naturals, Sequences

CONSTANT NoPara     \* the paraId of a call that does not give one

VARIABLES
    mUsedNames,       \* how often each name was asked for
    mParasUsedNames,  \* the same by parachain, for <<paraId, name>>
    given             \* how often each name was returned, a history variable

nameVars == <<mUsedNames, mParasUsedNames, given>>

IsName(n) == Len(n) \in Nat \ {0} /\ n = [i \in 1..Len(n) |-> n[i]]

Put(table, key, value) ==
    [k \in DOMAIN table \cup {key} |-> IF k = key THEN value ELSE table[k]]

Times(table, key) == IF key \in DOMAIN table THEN table[key] ELSE 0
OnceMore(table, key) == Put(table, key, Times(table, key) + 1)

NamesInit ==
    /\ mUsedNames = <<>>
    /\ mParasUsedNames = <<>>
    /\ given = <<>>

\* Mutant of UniqueName: the counter is not part of the name.
NotUnique(name) == name

\* uniqueName: the name itself the first time, and then with a number.
UniqueName(name) ==
    IF Times(mUsedNames, name) = 0
    THEN name
    ELSE Append(name, mUsedNames[name])

\* getUniqueName(name, paraId)
GetUniqueName(name, para) ==
    /\ mUsedNames' = OnceMore(mUsedNames, name)
    /\ mParasUsedNames' = IF para = NoPara
                          THEN mParasUsedNames
                          ELSE OnceMore(mParasUsedNames, <<para, name>>)
    /\ given' = OnceMore(given, UniqueName(name))

\* Mutant of CanUseSanitizedNameAsSeed: the names of the parachain are not looked at.
AnySeed(para, name) == TRUE

\* canUseSanitizedNameAsSeed(), called after getUniqueName(): a collator has the
\* keys of its name, though a validator has it too, unless its parachain has.
CanUseSanitizedNameAsSeed(para, name) == Times(mParasUsedNames', <<para, name>>) <= 1

-----------------------------------------------------------------------------
\* A name was asked for that getUniqueName() has made of another one as well.
Ambiguous(name) ==
    /\ name \in DOMAIN mUsedNames
    /\ \E other \in DOMAIN mUsedNames :
         \E k \in 1..(mUsedNames[other] - 1) : name = Append(other, k)

(***************************************************************************)
(* getUniqueName(), which names processes, pods, directories and spec      *)
(* files: two of all the nodes, parachains and temporary nodes have one    *)
(* name only when it was asked for as it is, and made of another one too - *)
(* collators "bob" and "bob", and the second of a group "bob".             *)
(***************************************************************************)
ClashOnlyIfAmbiguous ==
    \A name \in DOMAIN given : given[name] > 1 => Ambiguous(name)
=============================================================================
