-------------------------------- MODULE MCMcp --------------------------------
(***************************************************************************)
(* One user's OAuth credential in a store that processes share, and one    *)
(* process's connections to a server. A connection reads the credential's  *)
(* account and does nothing else to it, so the two are checked side by     *)
(* side: a behaviour is of one part, and the other stays as it began.      *)
(***************************************************************************)
EXTENDS OAuthRefresh, McpLinks, TLC

VARIABLE part

McpInit ==
  /\ Init /\ LinksInit
  /\ part \in {"credentials", "links"}
  /\ part = "links" => policy = "keeps"

McpNext ==
  \/ part = "credentials" /\ Next /\ UNCHANGED <<part, linksVars>>
  \/ part = "links" /\ LinksNext /\ UNCHANGED <<part, vars>>

McpSpec == McpInit /\ [][McpNext]_<<part, vars, linksVars>>

Alike == Permutations(Users) \union Permutations(Calls)
==============================================================================
