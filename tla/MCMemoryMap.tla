----------------------------- MODULE MCMemoryMap ------------------------------
(* Every plausible map of nine units below 2^32, of which three are reserved, *)
(* with or without memory above: each unit is absent, usable or reserved, and *)
(* an entry is a run of units of a kind.                                      *)
EXTENDS MemoryMap, FiniteSets

Units == 0 .. Narrow - 1

Runs(kind) ==
  LET starts == {u \in Units : kind[u] # 0 /\ (u = 0 \/ kind[u - 1] # kind[u])}
      length(u) == CHOOSE n \in 1 .. Narrow - u :
                     /\ \A v \in u .. u + n - 1 : kind[v] = kind[u]
                     /\ u + n \in Units => kind[u + n] # kind[u]
      start(k) == CHOOSE u \in starts : Cardinality({v \in starts : v <= u}) = k
  IN  [k \in 1 .. Cardinality(starts) |->
         [BaseAddr |-> start(k), Length |-> length(start(k)), Type |-> kind[start(k)]]]

High == <<[BaseAddr |-> Narrow, Length |-> 2, Type |-> Free]>>

MCBiosMaps ==
  LET low == {Runs(kind) : kind \in {k \in [Units -> {0, Free, Reserved}] :
                                       k[ResBase] = Free /\ k[Narrow - 1] # Free}}
  IN  {b \in low \cup {l \o High : l \in low} : PlausibleBios(b)}

\* Of the drives' data, what most looks like an entry worth clipping.
MCBehind == [j \in Room .. Cells |-> [BaseAddr |-> 1, Length |-> 1, Type |-> Free]]
===============================================================================
