-------------------------- MODULE MCIntelCollection --------------------------
(* Small instances of IntelCollection for TLC.                                *)
EXTENDS IntelCollection, TLC

CONSTANTS s1, s2

\* One dossier: two killmails on its losses feed, the older of them also a kill.
OneFeed == s1 :> ("kills" :> {1} @@ "losses" :> {1, 2})

\* Two dossiers that share a killmail.
SharedFeed ==
    s1 :> ("kills" :> {1} @@ "losses" :> {}) @@ s2 :> ("kills" :> {1} @@ "losses" :> {1})

Feed == [s \in Subjects |-> [f \in Feeds |->
    (IF s2 \in Subjects THEN SharedFeed ELSE OneFeed)[s][f] \cap (1..MaxKills)]]

\* Processes, tokens and requests are interchangeable (safety runs only).
Interchangeable == Permutations(Workers) \cup Permutations(Tokens) \cup Permutations(Requests)
=============================================================================
