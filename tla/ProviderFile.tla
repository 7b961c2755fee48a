---------------------------- MODULE ProviderFile ----------------------------
(***************************************************************************)
(* The provider file of Discovery beside the other things that are kept.   *)
(***************************************************************************)
EXTENDS Naturals

CONSTANTS
  Seeds,
  CatalogOnly,   \* seeds with probe: false, which are not tested
  Endpoints      \* number of endpoints

ASSUME DaemonAssumption == Endpoints \in Nat

VARIABLES file, scan, keyed, proxy, proven

Disc == INSTANCE Discovery

dVars == <<file, scan, keyed, proxy, proven>>

-----------------------------------------------------------------------------
(* The proxy takes a dead provider for alive only after a probe succeeded    *)
(* (llm-discovery.js, providers.js:getDiscoveredProviders).                  *)
RevivedByProofOnly == Disc!RevivedByProofOnly
=============================================================================
