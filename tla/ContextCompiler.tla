-------------------------- MODULE ContextCompiler --------------------------
(***************************************************************************)
(* ContextCompiler.compile() of context.py: which of the items of a call   *)
(* go into the context of a request, in one greedy pass.  An item is its   *)
(* rank among the others and the characters of its text; items are named   *)
(* by their position, so that their identities are unique.                 *)
(***************************************************************************)
EXTENDS Integers, Sequences, FiniteSets, SequencesExt, Folds, Functions

CONSTANTS
    MaxCharacters,  \* max_characters of the compiler
    Separator,      \* characters between two parts
    MaxItems,       \* bound: items of a call
    Sizes,          \* bound: characters of an item with its heading
    Priorities      \* bound: priorities of items

ASSUME ContextAssumption ==
    /\ MaxCharacters \in Nat \ {0} /\ Separator \in Nat /\ MaxItems \in Nat
    /\ Sizes \subseteq Nat /\ Priorities \subseteq Int

ContextItem == [size : Sizes, priority : Priorities, required : BOOLEAN]

VARIABLES
    items,   \* the argument of compile(), <<>> before a call
    packet   \* its ContextPacket: the items included and omitted, and whether it was refused

contextVars == <<items, packet>>

Empty == [included |-> <<>>, omitted |-> <<>>, size |-> 0, refused |-> FALSE]

ContextInit == items = <<>> /\ packet = Empty

-----------------------------------------------------------------------------

\* Mutant: by priority alone
ByPriority(given, i, j) ==
    \/ given[i].priority > given[j].priority
    \/ given[i].priority = given[j].priority /\ i < j

\* the key of sorted(): required items first, then by priority; equal items keep their order
Before(given, i, j) ==
    LET x == given[i]
        y == given[j]
    IN \/ x.required /\ ~y.required
       \/ /\ x.required = y.required
          /\ x.priority > y.priority \/ (x.priority = y.priority /\ i < j)

\* an item that does not fit is omitted, or the call raises when it is required
Consider(given, sofar, i) ==
    LET cost == given[i].size + (IF sofar.included = <<>> THEN 0 ELSE Separator) IN
    IF sofar.refused THEN sofar
    ELSE IF sofar.size + cost <= MaxCharacters
    THEN [sofar EXCEPT !.included = Append(@, i), !.size = @ + cost]
    ELSE IF given[i].required THEN [Empty EXCEPT !.refused = TRUE]
    ELSE [sofar EXCEPT !.omitted = Append(@, i)]

\* the item of s that the pass comes to last
LastOf(given, s) == CHOOSE i \in s : \A j \in s \ {i} : Before(given, j, i)

Compiled(given) ==
    MapThenFoldSet(LAMBDA i, sofar : Consider(given, sofar, i), Empty,
                   LAMBDA i : i, LAMBDA s : LastOf(given, s), DOMAIN given)

Compile(given) ==
    items = <<>> /\ given # <<>> /\ items' = given /\ packet' = Compiled(given)

TakePacket == items # <<>> /\ items' = <<>> /\ packet' = Empty

ContextNext ==
    \/ items = <<>> /\ \E given \in BoundedSeq(ContextItem, MaxItems) : Compile(given)
    \/ TakePacket

ContextSpec == ContextInit /\ [][ContextNext]_contextVars

-----------------------------------------------------------------------------
(* Properties *)

ContextTypeOK ==
    /\ items \in Seq(ContextItem)
    /\ ToSet(packet.included) \cup ToSet(packet.omitted) \subseteq DOMAIN items
    /\ packet.size \in 0..MaxCharacters /\ packet.refused \in BOOLEAN

\* characters of a context made of these items
Characters(given, chosen) ==
    SumFunctionOnSet([i \in DOMAIN given |-> given[i].size], chosen)
        + (IF chosen = {} THEN 0 ELSE Separator * (Cardinality(chosen) - 1))

\* compile() refuses exactly when the required items do not fit together, whatever the
\* priorities of the others.  Otherwise every required item is in, what is in fits, every
\* item is in or named as omitted, and an omitted item has no room beside the required
\* items and those of its priority or above.
ContextSelection ==
    LET included == ToSet(packet.included)
        omitted  == ToSet(packet.omitted)
        needed   == {i \in DOMAIN items : items[i].required}
    IN items # <<>> =>
         /\ packet.refused <=> Characters(items, needed) > MaxCharacters
         /\ ~packet.refused =>
               /\ needed \subseteq included /\ Characters(items, included) <= MaxCharacters
               /\ included \cup omitted = DOMAIN items /\ included \cap omitted = {}
               /\ \A i \in omitted :
                     Characters(items, {i} \cup {j \in included :
                                          items[j].required \/ items[j].priority >= items[i].priority})
                        > MaxCharacters
=============================================================================
