--------------------------- MODULE MCOAuthRefresh ----------------------------
(* One process that refreshes, while the user disconnects.                   *)
EXTENDS OAuthRefresh
==============================================================================
