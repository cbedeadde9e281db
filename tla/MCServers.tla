------------------------------ MODULE MCServers ------------------------------
(***************************************************************************)
(* What servers over one store do to a row that they share: requests that  *)
(* take the lease of a conversation, the wake turns each server shows, and *)
(* one user's sign-ins as each knows them. None reads anything of another, *)
(* so the three are checked side by side: a behaviour is of one part, and  *)
(* the others stay as they began. Requests are interchangeable, and so are *)
(* the servers, and the checks of a sign-in.                               *)
(*                                                                         *)
(* A request may run again after another: over three leases, a third       *)
(* holder can come after a lapse and a sweep.                              *)
(***************************************************************************)
EXTENDS ConversationLease, WakeFrames, Revocation, TLC

VARIABLE part

ServersInit ==
  /\ LeaseInit /\ Init /\ SignInInit
  /\ part \in {"lease", "frames", "signIns"}

ServersNext ==
  \/ part = "lease" /\ LeaseNext /\ UNCHANGED <<part, vars, signInVars>>
  \/ part = "frames" /\ Next /\ UNCHANGED <<part, leaseVars, signInVars>>
  \/ part = "signIns" /\ SignInNext /\ UNCHANGED <<part, leaseVars, vars>>

ServersSpec ==
  ServersInit /\ [][ServersNext]_<<part, leaseVars, vars, signInVars>>

\* Two sign-ins are judged at once beside one revoke, and one beside two.
FewAtOnce == Cardinality({c \in Checks : checks[c].at # "none"}) + Len(revokes) <= 3

Alike ==
  Permutations(Request) \union Permutations(Server)
==============================================================================
