------------------------------ MODULE Registry ------------------------------
(***************************************************************************)
(* What the registration of clients promises, whichever registrations      *)
(* overlap and whatever replica or acknowledgement is late: no two clients *)
(* share an e-mail, "created" is only said of a client that exists or has  *)
(* been deleted since, and "conflict" only to one who lost the e-mail to   *)
(* another.                                                                *)
(***************************************************************************)
CONSTANTS
    Registrations,  \* calls of register; each makes one client at most
    Email           \* the e-mail of a registration

VARIABLES
    rows,     \* the clients that exist
    claimed,  \* the clients that have ever existed
    answer    \* what each registration has been told

registryVars == <<rows, claimed, answer>>

RegistryInit ==
    /\ rows = {}
    /\ claimed = {}
    /\ answer = [r \in Registrations |-> "none"]

\* A client comes to exist.
Claim(r) ==
    /\ r \notin claimed
    /\ answer[r] = "none"
    /\ \A s \in rows : Email[s] # Email[r]
    /\ rows' = rows \cup {r}
    /\ claimed' = claimed \cup {r}
    /\ UNCHANGED answer

\* A client is deleted, and its e-mail is free again.
Release(r) ==
    /\ rows' = rows \ {r}
    /\ UNCHANGED <<claimed, answer>>

\* A failure says nothing of whether the client exists: the acknowledgement of its
\* commit may have been lost.
Tell(r, what) ==
    /\ answer[r] = "none"
    /\ \/ what = "created" /\ r \in claimed
       \/ /\ what = "conflict" /\ r \notin claimed
          /\ \E s \in claimed : s # r /\ Email[s] = Email[r]
       \/ what = "failed"
    /\ answer' = [answer EXCEPT ![r] = what]
    /\ UNCHANGED <<rows, claimed>>

RegistryNext ==
    \E r \in Registrations :
      \/ Claim(r)
      \/ Release(r)
      \/ \E what \in {"created", "conflict", "failed"} : Tell(r, what)

RegistrySpec == RegistryInit /\ [][RegistryNext]_registryVars

-----------------------------------------------------------------------------
\* No two clients share an e-mail.
OneClientPerEmail ==
    \A r, s \in rows : Email[r] = Email[s] => r = s
=============================================================================
