------------------------------ MODULE MCTurns -------------------------------
(* What a turn of a call leans on: the store of its session (KeyValue),    *)
(* the picture branch (Vision) and the search of the documents (Retrieval).*)
(* A behaviour is a behaviour of one of them; the others stay in one       *)
(* initial state.                                                          *)
EXTENDS KeyValue, Vision, Retrieval

VARIABLE part

Parts == {"keyvalue", "vision", "retrieval"}

(* Two documents with a chunk at the same place, one chunk in two          *)
(* versions, one behind face authentication.                               *)
Chunk(d, i, v, p) == [doc |-> d, index |-> i, version |-> v, protected |-> p]
MCChunks ==
  {Chunk("a", 0, 1, FALSE), Chunk("a", 0, 2, FALSE),
   Chunk("b", 0, 1, TRUE), Chunk("b", 1, 1, FALSE)}

TurnsInit ==
  /\ part \in Parts
  /\ KvInit /\ VisionInit /\ RetrievalInit
  /\ part # "keyvalue" => configured = TRUE
  /\ part # "retrieval" => store = {}

TurnsNext ==
  /\ UNCHANGED part
  /\ \/ part = "keyvalue" /\ KvNext /\ UNCHANGED <<visionVars, retrievalVars>>
     \/ part = "vision" /\ VisionNext /\ UNCHANGED <<kvVars, retrievalVars>>
     \/ part = "retrieval" /\ RetrievalNext /\ UNCHANGED <<kvVars, visionVars>>

(* The time to live of a link runs out, and a picture that is being looked *)
(* at gets an answer or a failure.                                         *)
TurnsSpec ==
  /\ TurnsInit /\ [][TurnsNext]_<<part, kvVars, visionVars, retrievalVars>>
  /\ WF_visionVars(Predict)
  /\ \A l \in Links : WF_visionVars(ExpireLink(l))
=============================================================================
