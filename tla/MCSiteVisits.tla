---------------------------- MODULE MCSiteVisits ----------------------------
(***************************************************************************)
(* SiteVisits on a small instance.  The members are interchangeable; the   *)
(* tasks are not, because Fresh chooses among them.  Only safety is        *)
(* checked here, for which the symmetry is sound.                          *)
(***************************************************************************)
EXTENDS SiteVisits, TLC

Symmetry == Permutations(Member)

=============================================================================
