------------------------- MODULE MCProviderService -------------------------
(* The ProviderService with one or two providers, on small instances. *)
EXTENDS ProviderService, TLC

ProviderSymmetry == Permutations(Providers)
=============================================================================
