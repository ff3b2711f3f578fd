---------------------------- MODULE MCAlgorithms ----------------------------
(* The two pieces of the system that only compute: the chunks of one file  *)
(* (Chunking) and the rows of one analysis (Normalizer). A behaviour is a  *)
(* behaviour of one of them; the other stays in one initial state.         *)
EXTENDS Chunking, Normalizer

VARIABLE part

Kid(t, l, p, y, n, s) == [type |-> t, level |-> l, page |-> p, top |-> y, size |-> n, nums |-> s]

(* Headings of two levels, one without a level and one on top of the next  *)
(* page; texts that join, that add up to a chunk, that fill one; a table;  *)
(* one text further down the page, one on the next page, a picture.        *)
MCKids ==
  {Kid("heading", 1, 1, 7, 9, {}), Kid("heading", 2, 1, 7, 9, {}),
   Kid("heading", 0, 1, 7, 9, {}), Kid("heading", 1, 2, 9, 9, {}),
   Kid("paragraph", 0, 1, 7, 90, {5}), Kid("list", 0, 1, 2, 420, {15, 7}),
   Kid("paragraph", 0, 2, 7, 900, {}), Kid("table", 0, 1, 7, 100, {5}),
   Kid("image", 0, 1, 7, 1, {})}
MCFiles == UNION {[1..n -> MCKids] : n \in 0..4}

(* Nothing, a summary, a text that keeps all numbers, one that loses one.  *)
MCReplies ==
  {[size |-> 0, nums |-> {}], [size |-> 100, nums |-> {15}],
   [size |-> 1400, nums |-> {7, 15}], [size |-> 1400, nums |-> {7}]}

(* A word of each list, two that fall under two rules, none, nothing.      *)
MCWordings ==
  {{}, {"other"}, {"clinic"}, {"emergency"}, {"diner"}, {"protest"}, {"delay"},
   {"welfare"}, {"payment"}, {"complaint", "booking"}, {"parking", "papers"}}
MCBriefs == {{}, {"seat", "delay"}}

Parts == {"chunking", "normalizer"}

AlgorithmsInit ==
  /\ part \in Parts
  /\ Init /\ NormInit
  /\ part = "chunking" => industry = ""
  /\ part = "normalizer" => kids = <<>>

AlgorithmsNext ==
  /\ UNCHANGED part
  /\ \/ part = "chunking" /\ Next /\ UNCHANGED normVars
     \/ part = "normalizer" /\ NormNext /\ UNCHANGED vars

AlgorithmsSpec == AlgorithmsInit /\ [][AlgorithmsNext]_<<part, vars, normVars>>
=============================================================================
