---------------------------- MODULE MCScopeList ----------------------------
(***************************************************************************)
(* ScopeList at its real size: as many scopes as SCOPES_MAX_SCOPES.        *)
(***************************************************************************)
EXTENDS ScopeList, TLC

CONSTANTS i1, i2, i3, i4, i5

FiveIds == {i1, i2, i3, i4, i5}
AnyOrder == Permutations(FiveIds)
=============================================================================
