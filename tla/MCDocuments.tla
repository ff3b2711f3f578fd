---------------------------- MODULE MCDocuments ----------------------------
(* Documents on a small instance: one indexed document of two chunks, of   *)
(* which a reindex reads the first, and three requests: two at a time      *)
(* while the Chroma server answers, or one after the other while it may    *)
(* be down, each on the server or on the local store.                      *)
EXTENDS Documents, TLC

VARIABLE down   \* the server may be down

MCDocs == 1..2
Symmetry == Permutations(Jobs) \cup Permutations(Texts)

OneAtATime ==
  Cardinality({j \in Jobs : job'[j].pc \notin {"idle", "done"}}) <= 1

OnServer ==
  /\ \A j \in Jobs : job'[j].client = "server"
  /\ local' = local /\ strayed' = strayed

MCInit == Init /\ down \in BOOLEAN
MCNext == Next /\ UNCHANGED down /\ (IF down THEN OneAtATime ELSE OnServer)
MCSpec == MCInit /\ [][MCNext]_<<vars, down>>
=============================================================================
