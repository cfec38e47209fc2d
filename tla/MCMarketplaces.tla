--------------------------- MODULE MCMarketplaces ---------------------------
(* Two callers.  Of each facade they use its ping and what shares a host     *)
(* with other methods: reading and answering feedbacks are a GET and a POST. *)
EXTENDS Marketplaces, TLC

CONSTANTS c1, c2

MCBadUrls == {"none", "statistics"}
MCUsed == {"ping", "list_feedbacks", "answer_feedback"}
Symmetry == Permutations(Calls)
=============================================================================
