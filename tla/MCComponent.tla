---------------------------- MODULE MCComponent -----------------------------
(***************************************************************************)
(* Bounded instances of Component.  Clients are model values that no       *)
(* definition tells apart; works are numbers in the order of acceptance.   *)
(***************************************************************************)
EXTENDS Component

Renamings == Permutations(Clients)

=============================================================================
