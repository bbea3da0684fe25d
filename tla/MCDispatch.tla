------------------------------- MODULE MCDispatch -------------------------------
(***************************************************************************)
(* Instances of Dispatch for TLC.  Memory is counted in GiB.               *)
(***************************************************************************)
EXTENDS DispatchProperties, TLC

CONSTANTS c1, c2

\* Three models of the shipped catalogue, and one that no catalogue describes.
tiny == "tinyllama:latest"
small == "qwen2.5-coder:1.5b"
large == "qwen2.5-coder:7b"
own == "phi:2b"

Shipped ==
  tiny :> [caps |-> {"chat", "simple"}, tier |-> 1, vram |-> 1, prio |-> 10]
  @@ small :> [caps |-> {"code", "chat", "tools"}, tier |-> 2, vram |-> 2, prio |-> 40]
  @@ large :> [caps |-> {"code", "chat", "reasoning", "tools"}, tier |-> 3, vram |-> 6, prio |-> 50]

Described(S) == [m \in S |-> Shipped[m]]

TextCatalog == {tiny, small, large}
TextEntry == Described(TextCatalog)
TextModels == TextCatalog \cup {own}

SmallCatalog == {tiny, small}
SmallEntry == Described(SmallCatalog)
SmallModels == SmallCatalog

NamesWithTools == {small, large} \cap Models

Sizes == [m \in Models |-> IF m = own THEN 2 ELSE 1]

\* An idle 8 GiB card, and one with 3 GiB left.
Roomy == <<[total |-> 8, used |-> 0]>>
Tight == <<[total |-> 8, used |-> 5]>>

\* Those, a full one, two cards of which the second is larger, and none.
Cards == {Roomy, Tight,
          <<[total |-> 8, used |-> 8]>>,
          <<[total |-> 2, used |-> 0], [total |-> 8, used |-> 0]>>, <<>>}

Inventory(S, L) == [m \in Models |-> IF m \in L THEN "loaded" ELSE
                                     IF m \in S THEN "available" ELSE "absent"]

\* Many inventories, for the agreement of router and scheduler: any card,
\* three sets of models with the large one loaded or not, or no runtime at all.
AllReports ==
  {[gpus |-> g, serves |-> TRUE, models |-> Inventory(S, L)] :
     g \in Cards, S \in {{tiny, small}, {small, large}, {own, large}}, L \in {{}, {large}}}
  \cup {[gpus |-> Roomy, serves |-> FALSE, models |-> Inventory({}, {})]}

\* Two, when the order of events matters more: room for a model that takes
\* tools, or only for one that does not.
TwoReports ==
  {[gpus |-> Roomy, serves |-> TRUE, models |-> Inventory({small}, {small})],
   [gpus |-> Tight, serves |-> TRUE, models |-> Inventory({tiny}, {})]}

\* One prompt of each kind the router treats differently.
SomePrompts ==
  {p \in Analyzed : \/ p.modality = "vision"
                    \/ "reasoning" \notin p.caps /\ <<p.modality, p.tier>> \in
                         {<<"text", 1>>, <<"code", 2>>, <<"text", 3>>}}

OnePrompt == {p \in SomePrompts : p.modality = "code"}

Symmetry == Permutations(Clients)
=============================================================================
