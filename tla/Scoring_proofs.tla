---------------------------- MODULE Scoring_proofs ----------------------------
(***************************************************************************)
(* The ranking of candidates (services/decision_engine.py) is a strict     *)
(* total order, whatever the amounts, probabilities and costs: the         *)
(* decision does not depend on the order the candidates come in.           *)
(***************************************************************************)
EXTENDS Scoring, TLAPS

Valuations == [action : ActionType, probability : Int, cost : Int, value : Int]

LEMMA DeclarationOrderInjective ==
    /\ \A a \in ActionType : DeclarationOrder[a] \in Int
    /\ \A a, b \in ActionType : DeclarationOrder[a] = DeclarationOrder[b] => a = b
  BY DEF DeclarationOrder, ActionType

\* No candidate is ranked before itself, and no two before each other
\* (decision_engine.py:192-216).
THEOREM BeforeAsymmetric ==
    ASSUME NEW u \in Valuations, NEW v \in Valuations, Before(u, v)
    PROVE  ~Before(v, u)
  BY DeclarationOrderInjective DEF Before, Valuations

\* The ranking of any three candidates is consistent, ties included.
THEOREM BeforeTransitive ==
    ASSUME NEW u \in Valuations, NEW v \in Valuations, NEW w \in Valuations,
           Before(u, v), Before(v, w)
    PROVE  Before(u, w)
  BY DeclarationOrderInjective DEF Before, Valuations

\* Two different actions are always ranked, also when value, probability and cost
\* tie: the order in which ActionType declares them is the last key.
THEOREM BeforeTotal ==
    ASSUME NEW u \in Valuations, NEW v \in Valuations, u.action # v.action
    PROVE  Before(u, v) \/ Before(v, u)
<1>1. DeclarationOrder[u.action] # DeclarationOrder[v.action]
  BY DeclarationOrderInjective DEF Valuations
<1> QED
  BY <1>1, DeclarationOrderInjective DEF Before, Valuations

\* So no set of valuations has two candidates ranked before all the others: the
\* action that is selected is the only one that could be.
THEOREM AtMostOneIsBest ==
    ASSUME NEW S \in SUBSET Valuations, NEW u \in S, NEW v \in S,
           \A w \in S \ {u} : Before(u, w), \A w \in S \ {v} : Before(v, w)
    PROVE  u = v
<1>1. CASE u # v
  <2>1. Before(u, v) /\ Before(v, u)
    BY <1>1
  <2> QED
    BY <2>1, BeforeAsymmetric
<1> QED
  BY <1>1
=============================================================================
