--------------------------- MODULE MCRegistryClient ---------------------------
(***************************************************************************)
(* A small instance of the registry client: a repository on a registry that  *)
(* issues tokens, one on a registry with basic credentials, and one on a     *)
(* host no client serves.                                                    *)
(***************************************************************************)
EXTENDS RegistryClient, TLC

CONSTANTS tool, corp, stray, ghcr, harbor, lost, d1, d2

MCHostOf == tool :> ghcr @@ corp :> harbor @@ stray :> lost
MCAuth == ghcr :> "token" @@ harbor :> "basic" @@ lost :> "token"
MCNames == d1 :> "expected" @@ d2 :> "other"
MCLayers == d1 :> {"readme", "logo"} @@ d2 :> {"logo"}
=============================================================================
