--------------------------- MODULE CredentialLoss ---------------------------
(* CredentialRotation with one bit of history: whether, since the last consent, *)
(* something happened that may lose a rotated refresh token for good.          *)
EXTENDS CredentialRotation

VARIABLE lost

\* A token that was not rotated is stored under another encryption, and an exchange that
\* started from the one it replaces can no longer be stored, whatever it is answered.
Overtakes ==
    /\ row'.cred # row.cred /\ Token(row'.cred) = Token(row.cred)
    /\ \E x \in Processes : flight'[x].pc # "idle" /\ flight'[x].cred = row.cred

\* An answer that never comes, a process that dies, a row someone else holds, a permission
\* that is gone when the answer is to be saved, an exchange overtaken.
Losses ==
    \/ \E x \in Processes : GiveUp(x) \/ Die(x)
    \/ \E c \in Callers : Busy(c) \/ (Persist(c) /\ (~permitted \/ Overtakes))
    \/ \E p \in Samplers : Swap(p) /\ Overtakes

Others ==
    \/ \E x \in Processes : Snapshot(x) \/ Answer(x)
    \/ \E c \in Callers : Persist(c) /\ permitted /\ ~Overtakes
    \/ \E p \in Samplers : Swap(p) /\ ~Overtakes
    \/ \E u \in Users : BeginLink(u)
    \/ Unlink \/ LoseRole

Init == CredentialInit /\ lost = FALSE

Next ==
    \/ Losses /\ lost' = TRUE
    \/ Others /\ UNCHANGED lost
    \/ SaveLink /\ lost' = FALSE

vars == <<credentialVars, lost>>
Spec == Init /\ [][Next]_vars

\* The row's token is good, or an answer that will replace it is on its way.
Recoverable ==
    \/ Token(row.cred) \in live
    \/ \E x \in Processes : /\ flight[x].pc = "answered"
                            /\ flight[x].cred = row.cred /\ Token(flight[x].new) \in live

\* A linked authorization goes bad only by a loss.  Two refreshers of one token are a
\* loss only when the first saves it encrypted again; that one saves a rotation, that
\* Journey was paused, or that its permission went, in between, is none.
OnlyLossesLose == lost \/ row.revoked \/ Recoverable
=============================================================================
