--------------------------- MODULE UserWorkspace ---------------------------
(***************************************************************************)
(* One user's workspace under requests that overlap, and under a client    *)
(* that waits for each answer.                                             *)
(***************************************************************************)
EXTENDS AccountBook

\* A request starts when no other is being answered.
SerialNext == \E r \in Request :
    /\ Idle \/ Busy(r)
    /\ SignIn(r) \/ RegistryStep(r) \/ BookStep(r)

\* Requests overlap, but for sign-ins with one another.
ApartNext == \E r \in Request :
    \/ SignIn(r) /\ \A q \in Request : req[q].op # "signIn" \/ req[q].pc # "write"
    \/ RegistryStep(r) \/ BookStep(r)

ApartSpec == Init /\ [][ApartNext]_vars
SerialSpec == Init /\ [][SerialNext]_vars

---------------------------------------------------------------------------
\* An address book made for an account's address comes with the account, though the
\* account that was looked up, and the one matched by the write, may be gone by the time
\* the book is written.
BookMadeWithItsAccount ==
    [][\A b \in DOMAIN books' \ DOMAIN books : req[b].address # None =>
           \E a \in DOMAIN accounts' : <<b, a>> \in has']_vars

\* "Create user if not exist": one user node per public key.
OneUser == \A u, v \in users : u = v

\* "Create tag if not exist": one tag per label.
OneTagPerLabel == \A s, t \in tags : s.label = t.label => s = t

\* "Create group if not exist": one group of the user per label.
OneGroupPerLabel == \A g, h \in DOMAIN groups : groups[g] = groups[h] => g.id = h.id

\* "Account already exist": one account of the user per address.
OneAccountPerAddress ==
    \A a, b \in DOMAIN accounts : accounts[a].address = accounts[b].address => a = b

\* "Update account data": an update that is answered without an error has written the
\* account.
AnsweredUpdateWrote ==
    [][\A r \in Request : /\ req[r].op = "updateAccount" /\ req[r].pc # "done"
                          /\ req'[r].pc = "done"
           => accounts'[req[r].id].data = r]_vars
=============================================================================
