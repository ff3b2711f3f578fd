---------------------------- MODULE TurnsProofs ----------------------------
(* What a turn of a call leans on, for any number of services, keys,       *)
(* starts, turns, links, pictures, callers and events: the store of its    *)
(* session (KeyValue), the picture branch (Vision) and the calendar        *)
(* (Booking).  Each part has an invariant of its own; none speaks of       *)
(* another's variables.                                                    *)
EXTENDS KeyValue, Vision, Booking,
  FiniteSetTheorems, WellFoundedInduction, TLAPS

-----------------------------------------------------------------------------
(* A set of naturals that is not empty has a least member.                 *)
LEMMA LeastIn ==
  ASSUME NEW S \in SUBSET Nat, S # {}
  PROVE  \E m \in S : \A n \in S : m <= n
<1> DEFINE Less == OpToRel(<, Nat)
<1>1. IsWellFoundedOn(Less, Nat)
  BY NatLessThanWellFounded
<1>2. \A a, b \in Nat : a < b => <<a, b>> \in Less
  BY DEF OpToRel
<1> HIDE DEF Less
<1>3. PICK m \in S : \A n \in S : <<n, m>> \notin Less
  BY <1>1, WFMin
<1>4. ASSUME NEW n \in S PROVE m <= n
  <2>1. m \in Nat /\ n \in Nat /\ ~(n < m)
    BY <1>2, <1>3
  <2> QED
    BY <2>1
<1> QED
  BY <1>4

-----------------------------------------------------------------------------
(* KeyValue                                                                *)

(* A store of this process: there is never a second one.                   *)
Stores == {[type |-> t, n |-> 1] : t \in {"wrapper", "memory"}}

(* Who builds the store holds the lock, and there is none yet.             *)
BuildOK ==
  /\ singleton \in Stores \cup {NoStore}
  /\ singleton = NoStore => made = 0 /\ down = {}
  /\ \A s \in Services :
       /\ doing[s] = "connecting" => initLock = s /\ singleton = NoStore
       /\ doing[s] = "ready" => held[s] # NoStore
       /\ doing[s] = "sent" => held[s].type = "wrapper"

(* A service that keeps a wrapper while the next one would get a           *)
(* dictionary keeps a wrapper that gave up on Redis.                       *)
HeldOK ==
  /\ down \subseteq {1}
  /\ singleton.type = "wrapper" => down = {}
  /\ \A s \in Services :
       /\ held[s] \in Stores \cup {NoStore}
       /\ held[s] # NoStore => singleton # NoStore
       /\ held[s].type = "memory" => singleton.type = "memory"
       /\ held[s].type = "wrapper" /\ singleton.type = "memory" => 1 \in down

ServiceSteps == {"off", "waiting", "connecting", "ready", "sent"}

HandlesOK == doing \in [Services -> ServiceSteps] /\ held \in [Services -> Stores \cup {NoStore}]

KvInv == HandlesOK /\ BuildOK /\ HeldOK

LEMMA StoreFacts ==
  /\ NoStore.type = "none" /\ NoStore \notin Stores
  /\ \A h \in Stores : h.n = 1 /\ h.type \in {"wrapper", "memory"}
  /\ \A t \in {"wrapper", "memory"} : [type |-> t, n |-> 1] \in Stores
BY DEF Stores, NoStore

LEMMA KvInitInv == KvInit => KvInv
<1> SUFFICES ASSUME KvInit PROVE KvInv
  OBVIOUS
<1> USE DEF KvInit
<1>1. HandlesOK
  BY DEF HandlesOK, ServiceSteps
<1>2. BuildOK
  BY StoreFacts DEF BuildOK
<1>3. HeldOK
  BY StoreFacts DEF HeldOK
<1> QED
  BY <1>1, <1>2, <1>3 DEF KvInv

(* A service that is given the store of the process.                       *)
LEMMA HoldInv ==
  ASSUME KvInv, NEW s \in Services, singleton # NoStore,
         doing[s] # "connecting",
         Hold(s, singleton), UNCHANGED <<down, made, singleton, initLock>>
  PROVE  KvInv'
<1>1. singleton \in Stores
  BY DEF KvInv, BuildOK
<1>2. HandlesOK'
  BY <1>1 DEF KvInv, HandlesOK, ServiceSteps, Hold, Now
<1>3. BuildOK'
  BY <1>1 DEF KvInv, HandlesOK, ServiceSteps, BuildOK, Hold, Now
<1>4. HeldOK'
  BY <1>1, StoreFacts DEF KvInv, HandlesOK, ServiceSteps, HeldOK, Hold, Now
<1> QED
  BY <1>2, <1>3, <1>4 DEF KvInv

LEMMA GetKvInv == ASSUME KvInv, NEW s \in Services, GetKv(s) PROVE KvInv'
<1> USE DEF GetKv, stores
<1>1. CASE singleton # NoStore
  BY <1>1, HoldInv
<1>2. CASE singleton = NoStore
  BY <1>2 DEF KvInv, HandlesOK, ServiceSteps, BuildOK, HeldOK, Now
<1> QED
  BY <1>1, <1>2

LEMMA TakeInitLockInv == ASSUME KvInv, NEW s \in Services, TakeInitLock(s) PROVE KvInv'
<1> USE DEF TakeInitLock, stores
<1>1. CASE singleton # NoStore
  BY <1>1, HoldInv
<1>2. CASE singleton = NoStore
  <2>1. \A t \in Services : doing[t] # "connecting"
    BY <1>2, KeyValueAssumption DEF KvInv, BuildOK
  <2> QED
    BY <1>2, <2>1 DEF KvInv, HandlesOK, ServiceSteps, BuildOK, HeldOK, Now
<1> QED
  BY <1>1, <1>2

LEMMA ConnectInv == ASSUME KvInv, NEW s \in Services, Connect(s) PROVE KvInv'
<1> USE DEF Connect, stores
<1>1. singleton = NoStore /\ made = 0 /\ down = {} /\ initLock = s
  BY DEF KvInv, BuildOK
<1>2. PICK h \in Stores : singleton' = h /\ Hold(s, h)
  BY <1>1, StoreFacts
<1>3. \A t \in Services : held[t] = NoStore
  BY <1>1 DEF KvInv, HeldOK
<1>4. \A t \in Services : t # s => doing[t] # "connecting"
  BY <1>1 DEF KvInv, BuildOK
<1>5. HandlesOK'
  BY <1>2 DEF KvInv, HandlesOK, ServiceSteps, Hold, Now
<1>6. BuildOK'
  BY <1>1, <1>2, <1>3, <1>4, StoreFacts DEF KvInv, HandlesOK, ServiceSteps, BuildOK, Hold, Now
<1>7. HeldOK'
  BY <1>1, <1>2, <1>3, StoreFacts DEF KvInv, HandlesOK, ServiceSteps, HeldOK, Hold, Now
<1> QED
  BY <1>5, <1>6, <1>7 DEF KvInv

LEMMA CallInv == ASSUME KvInv, NEW s \in Services, Call(s) PROVE KvInv'
<1> USE DEF Call, setup
<1>1. PICK r \in Requests :
        IF InMemory(held[s]) THEN UNCHANGED doing ELSE Now(s, "sent")
  OBVIOUS
<1>2. CASE InMemory(held[s])
  BY <1>1, <1>2 DEF KvInv, HandlesOK, ServiceSteps, BuildOK, HeldOK
<1>3. CASE ~InMemory(held[s])
  <2>1. held[s].type # "memory"
    BY <1>3 DEF InMemory
  <2>2. held[s] # NoStore
    BY DEF KvInv, BuildOK
  <2> QED
    BY <1>1, <1>3, <2>1, <2>2, StoreFacts DEF KvInv, HandlesOK, ServiceSteps, BuildOK, HeldOK, Now
<1> QED
  BY <1>2, <1>3

LEMMA AnswerInv == ASSUME KvInv, NEW s \in Services, Answer(s) PROVE KvInv'
<1>1. held[s] # NoStore
  BY StoreFacts DEF Answer, KvInv, BuildOK
<1> QED
  BY <1>1 DEF Answer, Done, Now, setup, KvInv, HandlesOK, ServiceSteps, BuildOK, HeldOK

LEMMA BrokenInv == ASSUME KvInv, NEW s \in Services, Broken(s) PROVE KvInv'
<1> USE DEF Broken
<1>1. held[s] \in Stores /\ held[s].type = "wrapper" /\ held[s].n = 1
  BY StoreFacts DEF KvInv, HandlesOK, BuildOK
<1>2. down' = down \cup {1} /\ Done(s) /\ UNCHANGED <<made, initLock, held>>
  BY <1>1 DEF GiveUp
<1>3. singleton # NoStore
  BY <1>1, StoreFacts DEF KvInv, HeldOK
<1>4. singleton' \in Stores /\ singleton'.type = "memory"
  <2>1. CASE 1 \in down
    BY <1>1, <1>3, <2>1, StoreFacts DEF GiveUp, KvInv, BuildOK, HeldOK
  <2>2. CASE 1 \notin down
    BY <1>1, <2>2, StoreFacts DEF GiveUp
  <2> QED
    BY <2>1, <2>2
<1>5. HandlesOK'
  BY <1>2 DEF KvInv, HandlesOK, ServiceSteps, Done, Now
<1>6. BuildOK'
  BY <1>1, <1>2, <1>3, <1>4, StoreFacts DEF KvInv, HandlesOK, ServiceSteps, BuildOK, Done, Now
<1>7. HeldOK'
  BY <1>2, <1>4, StoreFacts DEF KvInv, HeldOK
<1> QED
  BY <1>5, <1>6, <1>7 DEF KvInv

LEMMA RestartInv == ASSUME KvInv, Restart PROVE KvInv'
<1> USE DEF Restart
<1>1. HandlesOK'
  BY DEF HandlesOK, ServiceSteps
<1>2. BuildOK'
  BY StoreFacts DEF BuildOK
<1>3. HeldOK'
  BY StoreFacts DEF HeldOK
<1> QED
  BY <1>1, <1>2, <1>3 DEF KvInv

LEMMA KvNextInv == KvInv /\ [KvNext]_kvVars => KvInv'
<1> SUFFICES ASSUME KvInv, [KvNext]_kvVars PROVE KvInv'
  OBVIOUS
<1>1. CASE UNCHANGED kvVars
  BY <1>1 DEF kvVars, stores, setup, KvInv, HandlesOK, BuildOK, HeldOK
<1>2. CASE \E k \in Keys : Expire(k)
  BY <1>2 DEF Expire, setup, KvInv, HandlesOK, BuildOK, HeldOK
<1> QED
  BY <1>1, <1>2, GetKvInv, TakeInitLockInv, ConnectInv, CallInv, AnswerInv, BrokenInv,
     RestartInv DEF KvNext

LEMMA KvInvImplies == KvInv => OneStore
<1> SUFFICES ASSUME KvInv PROVE OneStore
  OBVIOUS
<1>1. \A h \in Stores : InMemory(h) <=> h.type = "memory" \/ 1 \in down
  BY StoreFacts DEF InMemory
<1>2. \A g, h \in Stores : (InMemory(g) <=> InMemory(h)) => Reaches(g) = Reaches(h)
  BY StoreFacts DEF Reaches
<1>3. ASSUME NEW s \in Services, held[s] # NoStore
      PROVE  /\ held[s] \in Stores /\ singleton \in Stores
             /\ InMemory(held[s]) <=> InMemory(singleton)
  BY <1>1, <1>3, StoreFacts DEF KvInv, BuildOK, HeldOK
<1> QED
  BY <1>2, <1>3 DEF OneStore

(* However many services ask for the store while it is being built, and    *)
(* whenever its connection breaks, they all read and write one store.      *)
THEOREM StoreIsOne == KvSpec => []OneStore
<1> QED
  BY KvInitInv, KvNextInv, KvInvImplies, PTL DEF KvSpec

-----------------------------------------------------------------------------
(* Vision                                                                  *)

(* The shape of what the argument is about.                                *)
LinksOK ==
  /\ link \in [Links -> [status : {"gone", "pending", "analyzing", "analyzed", "failed"},
                         label : {0} \cup Photos, expires : BOOLEAN]]
  /\ photo \in [Photos -> [link : {NoLink} \cup Links,
                           at : {"none", "posted", "analyzing", "done"}]]
  /\ told \in [Photos -> Nat] /\ putBack \in [Links -> Nat]
  /\ created \in Nat /\ created <= MaxLinks
  /\ result \in {0} \cup Photos

(* What is held somewhere as a vision_id was made, or is none.             *)
CountedOK == {remembered, seen, view, heard} \subseteq 0..created

(* Links are numbered as they are made; the phone has none that was not    *)
(* made, and a picture is of a link the phone had.                         *)
NumberedOK ==
  /\ \A l \in delivered : l \in Links /\ l <= created
  /\ \A p \in Photos : photo[p].at # "none" => photo[p].link \in Links /\ photo[p].link <= created
  /\ \A p \in Photos : photo[p].at = "none" => photo[p].link = NoLink

(* The link that is being sent is held by nobody, and nothing was told of  *)
(* its pictures.                                                           *)
FreshOK ==
  turn \in {"sending", "sent", "remembering"} =>
    /\ created \in Links
    /\ created \notin {remembered, seen, heard}
    /\ \A p \in Photos : photo[p].link = created => told[p] = 0

(* A label is that of a picture of the link, and its analysis is over; so  *)
(* is the label the branch read.                                           *)
LabelsOK ==
  /\ \A l \in Links : link[l].label # 0 =>
       photo[link[l].label].link = l /\ photo[link[l].label].at = "done"
  /\ result # 0 =>
       /\ photo[result].link = seen /\ photo[result].at = "done"
       /\ turn \in {"forget", "forgetting", "telling"}
  /\ \A p \in Photos : photo[p].at # "done" => told[p] = 0

(* How often a result of the link may still be told with no further help   *)
(* of the listener: once for the branch that read it and once more if the  *)
(* session has the link after the branch made it forget, or will have it   *)
(* when the turn stores what it loaded.                                    *)
Kept(l)  == remembered = l \/ (turn = "appending" /\ view = l)
Taken(l) == turn \in {"looking", "forget", "forgetting"} /\ seen = l
Due(l)   == IF turn = "telling" /\ seen = l THEN IF Kept(l) THEN 2 ELSE 1
            ELSE IF Kept(l) \/ Taken(l) THEN 1 ELSE 0

DueOK ==
  \A l \in Links :
    /\ Due(l) <= 1 + putBack[l]
    /\ \A p \in Photos : photo[p].link = l => told[p] + Due(l) <= 1 + putBack[l]

VisionInv == LinksOK /\ CountedOK /\ NumberedOK /\ FreshOK /\ LabelsOK /\ DueOK

LEMMA VisionInitInv == VisionInit => VisionInv
<1> SUFFICES ASSUME VisionInit PROVE VisionInv
  OBVIOUS
<1> USE VisionAssumption DEF VisionInit, NoKey, NoPhoto, NoLink, Links
<1>1. LinksOK
  BY DEF LinksOK
<1>2. CountedOK /\ NumberedOK /\ FreshOK /\ LabelsOK
  BY DEF CountedOK, NumberedOK, FreshOK, LabelsOK
<1>3. DueOK
  BY DEF DueOK, Due, Kept, Taken
<1> QED
  BY <1>1, <1>2, <1>3 DEF VisionInv

LEMMA NoneIsHeld == ASSUME VisionInv PROVE NoLink \in 0..created /\ created \in Nat
BY DEF VisionInv, LinksOK, NoLink

LEMMA DueIsSmall == ASSUME NEW l \in Links PROVE Due(l) \in 0..2
BY DEF Due

(* A step that tells nothing, and after which no result is due more often. *)
LEMMA DueShrinks ==
  ASSUME VisionInv, UNCHANGED <<told, photo, putBack>>,
         \A l \in Links : Due(l)' <= Due(l) /\ Due(l)' \in 0..2
  PROVE  DueOK'
<1> SUFFICES ASSUME NEW l \in Links
             PROVE  /\ Due(l)' <= 1 + putBack[l]
                    /\ \A p \in Photos : photo[p].link = l => told[p] + Due(l)' <= 1 + putBack[l]
  BY DEF DueOK
<1>1. Due(l) \in 0..2 /\ Due(l)' \in 0..2 /\ Due(l)' <= Due(l)
  BY DueIsSmall
<1>2. putBack[l] \in Nat /\ \A p \in Photos : told[p] \in Nat
  BY DEF VisionInv, LinksOK
<1>3. /\ Due(l) <= 1 + putBack[l]
      /\ \A p \in Photos : photo[p].link = l => told[p] + Due(l) <= 1 + putBack[l]
  BY DEF VisionInv, DueOK
<1> QED
  BY <1>1, <1>2, <1>3

(* A step of the turn that leaves links, pictures and the history alone.   *)
LEMMA TurnMoves ==
  ASSUME VisionInv, UNCHANGED <<storeVars, told, earVars>>,
         {remembered', seen', view'} \subseteq {NoLink, remembered, seen, view},
         result' \in {0, result},
         result' # 0 => seen' = seen /\ turn' \in {"forget", "forgetting", "telling"},
         turn' \in {"sending", "sent", "remembering"} =>
           /\ turn \in {"sending", "sent", "remembering"}
           /\ remembered' = remembered /\ seen' = seen,
         \A l \in Links : Due(l)' <= Due(l)
  PROVE  VisionInv'
<1> USE DEF storeVars, earVars
<1>1. LinksOK'
  BY DEF VisionInv, LinksOK
<1>6. CountedOK'
  BY NoneIsHeld DEF VisionInv, CountedOK
<1>2. NumberedOK' /\ FreshOK'
  BY DEF VisionInv, NumberedOK, FreshOK
<1>3. LabelsOK'
  BY DEF VisionInv, LabelsOK
<1>4. \A l \in Links : Due(l)' \in 0..2
  BY DEF Due
<1>5. DueOK'
  BY <1>4, DueShrinks
<1> QED
  BY <1>1, <1>2, <1>3, <1>5, <1>6 DEF VisionInv

LEMMA QuietInv ==
  ASSUME VisionInv,
         Hear \/ Goodbye \/ Clarify \/ RouterReads \/ Route \/ Elsewhere \/ NoPhone \/ Wait
           \/ GraphFails \/ AppendLoad \/ BranchReads
  PROVE  VisionInv'
<1> USE DEF callerVars, readVars, NoLink
<1>1. CASE Hear \/ Goodbye \/ Clarify \/ Elsewhere \/ NoPhone \/ Wait \/ GraphFails
  <2>1. \A l \in Links : Due(l)' <= Due(l)
    BY <1>1 DEF Hear, Goodbye, Clarify, Elsewhere, NoPhone, Wait, GraphFails, Answered, Due,
         Kept, Taken, Links
  <2> QED
    BY <1>1, <2>1, TurnMoves DEF Hear, Goodbye, Clarify, Elsewhere, NoPhone, Wait, GraphFails,
         Answered, VisionInv, LabelsOK
<1>2. CASE RouterReads \/ Route \/ BranchReads
  <2>1. result = 0
    BY <1>2 DEF RouterReads, Route, BranchReads, VisionInv, LabelsOK
  <2>2. \A l \in Links : Due(l)' <= Due(l)
    BY <1>2 DEF RouterReads, Route, BranchReads, Due, Kept, Taken, Links
  <2> QED
    BY <1>2, <2>1, <2>2, TurnMoves DEF RouterReads, Route, BranchReads
<1>3. CASE AppendLoad
  <2>1. result = 0
    BY <1>3 DEF AppendLoad, VisionInv, LabelsOK
  <2>2. \A l \in Links : Due(l)' <= Due(l)
    BY <1>3 DEF AppendLoad, Due, Kept, Taken, Links
  <2> QED
    BY <1>3, <2>1, <2>2, TurnMoves DEF AppendLoad
<1> QED
  BY <1>1, <1>2, <1>3

LEMMA ForgetInv ==
  ASSUME VisionInv, ReadFailure \/ ForgetLoad \/ ForgetStore PROVE VisionInv'
<1> USE DEF callerVars, readVars, NoLink
<1>1. CASE ReadFailure
  <2>1. result = 0
    BY <1>1 DEF ReadFailure, VisionInv, LabelsOK
  <2>2. \A l \in Links : Due(l)' <= Due(l)
    BY <1>1 DEF ReadFailure, Due, Kept, Taken
  <2> QED
    BY <1>1, <2>1, <2>2, TurnMoves DEF ReadFailure
<1>2. CASE ForgetLoad \/ ForgetStore
  <2>1. \A l \in Links : Due(l)' <= Due(l)
    BY <1>2 DEF ForgetLoad, ForgetStore, Due, Kept, Taken, Links
  <2> QED
    BY <1>2, <2>1, TurnMoves DEF ForgetLoad, ForgetStore
<1> QED
  BY <1>1, <1>2

LEMMA ReadResultInv == ASSUME VisionInv, ReadResult PROVE VisionInv'
<1> USE DEF ReadResult, callerVars, storeVars, earVars
<1>1. seen \in Links
  BY VisionAssumption DEF Status, VisionInv, LinksOK, CountedOK, NoLink, Links
<1>2. LinksOK' /\ CountedOK'
  BY <1>1 DEF VisionInv, LinksOK, CountedOK
<1>3. NumberedOK' /\ FreshOK'
  BY DEF VisionInv, NumberedOK, FreshOK
<1>4. LabelsOK'
  BY <1>1 DEF VisionInv, LabelsOK
<1>5. \A l \in Links : Due(l)' <= Due(l) /\ Due(l)' \in 0..2
  BY DEF Due, Kept, Taken
<1>6. DueOK'
  BY <1>5, DueShrinks
<1> QED
  BY <1>2, <1>3, <1>4, <1>6 DEF VisionInv

LEMMA AppendStoreInv == ASSUME VisionInv, AppendStore PROVE VisionInv'
<1> USE DEF AppendStore, readVars, storeVars, NoLink
<1>1. result = 0
  BY DEF VisionInv, LabelsOK
<1>2. LinksOK' /\ CountedOK' /\ NumberedOK' /\ FreshOK' /\ LabelsOK'
  BY <1>1, NoneIsHeld DEF VisionInv, LinksOK, CountedOK, NumberedOK, FreshOK, LabelsOK
<1>3. \A l \in Links : Due(l)' <= Due(l) /\ Due(l)' \in 0..2
  BY DEF Due, Kept, Taken, Links
<1>4. DueOK'
  BY <1>3, DueShrinks
<1> QED
  BY <1>2, <1>4 DEF VisionInv

LEMMA CreateLinkInv == ASSUME VisionInv, CreateLink PROVE VisionInv'
<1> USE VisionAssumption DEF CreateLink, NewLink, callerVars, earVars, NoLink
<1>1. created \in Nat /\ created + 1 \in Links /\ \A n \in Nat : n <= created => n # created + 1
  BY DEF VisionInv, LinksOK, Links
<1>2. LinksOK'
  <2>1. NewLink(TRUE) \in [status : {"gone", "pending", "analyzing", "analyzed", "failed"},
                          label : {0} \cup Photos, expires : BOOLEAN]
    OBVIOUS
  <2>2. link' \in [Links -> [status : {"gone", "pending", "analyzing", "analyzed", "failed"},
                            label : {0} \cup Photos, expires : BOOLEAN]]
    BY <1>1, <2>1 DEF VisionInv, LinksOK
  <2>3. created' \in Nat /\ created' <= MaxLinks
    BY <1>1
  <2> QED
    BY <2>2, <2>3 DEF VisionInv, LinksOK
<1>9. CountedOK'
  <2>1. 0..created \subseteq 0..(created + 1) /\ NoLink \in 0..created
    BY <1>1
  <2> QED
    BY <2>1 DEF VisionInv, CountedOK
<1>3. NumberedOK'
  BY <1>1 DEF VisionInv, LinksOK, NumberedOK, Links
<1>4. FreshOK'
  <2>1. created' \notin {remembered', seen', heard'}
    BY <1>1 DEF VisionInv, CountedOK
  <2>2. ASSUME NEW p \in Photos, photo[p].link = created + 1 PROVE told[p] = 0
    <3>1. photo[p].at = "none"
      BY <1>1, <2>2 DEF VisionInv, NumberedOK, Links
    <3> QED
      BY <3>1 DEF VisionInv, LabelsOK
  <2> QED
    BY <1>1, <2>1, <2>2 DEF FreshOK
<1>5. result = 0
  BY DEF VisionInv, LabelsOK
<1>6. LabelsOK'
  BY <1>1, <1>5 DEF VisionInv, LinksOK, LabelsOK
<1>7. \A l \in Links : Due(l)' <= Due(l) /\ Due(l)' \in 0..2
  BY DEF Due, Kept, Taken
<1>8. DueOK'
  BY <1>7, DueShrinks
<1> QED
  BY <1>2, <1>3, <1>4, <1>6, <1>8, <1>9 DEF VisionInv

LEMMA AtMostItself == \A n \in Nat : n <= n
OBVIOUS

LEMMA SendLinkInv == ASSUME VisionInv, SendLink PROVE VisionInv'
<1> USE DEF SendLink, Answered, readVars, earVars, NoLink
<1>1. LinksOK' /\ LabelsOK' /\ FreshOK'
  BY DEF VisionInv, LinksOK, LabelsOK, FreshOK
<1>8. CountedOK'
  BY NoneIsHeld DEF VisionInv, CountedOK
<1>2. created \in Links /\ delivered' \subseteq delivered \cup {created}
  BY DEF VisionInv, FreshOK
<1>3. created <= created
  <2>1. created \in Nat
    BY DEF VisionInv, LinksOK
  <2> QED
    BY <2>1, AtMostItself
<1>4. \A l \in delivered' : l \in Links /\ l <= created
  BY <1>2, <1>3 DEF VisionInv, NumberedOK
<1>5. NumberedOK'
  BY <1>2, <1>3, <1>4 DEF VisionInv, NumberedOK
<1>6. \A l \in Links : Due(l)' <= Due(l) /\ Due(l)' \in 0..2
  BY DEF Due, Kept, Taken
<1>7. DueOK'
  BY <1>6, DueShrinks
<1> QED
  BY <1>1, <1>5, <1>7, <1>8 DEF VisionInv

LEMMA RememberLoadInv == ASSUME VisionInv, RememberLoad PROVE VisionInv'
<1> USE DEF RememberLoad, readVars, storeVars, earVars
<1>1. LinksOK' /\ CountedOK' /\ NumberedOK' /\ LabelsOK' /\ FreshOK'
  BY DEF VisionInv, LinksOK, CountedOK, NumberedOK, LabelsOK, FreshOK
<1>2. \A l \in Links : Due(l)' <= Due(l) /\ Due(l)' \in 0..2
  BY DEF Due, Kept, Taken
<1>3. DueOK'
  BY <1>2, DueShrinks
<1> QED
  BY <1>1, <1>3 DEF VisionInv

(* The new link's pictures were not told of, so one telling is due.        *)
LEMMA RememberStoreInv == ASSUME VisionInv, RememberStore PROVE VisionInv'
<1> USE VisionAssumption DEF RememberStore, Answered, storeVars, earVars, NoLink
<1>1. created \in Links /\ created \in Nat /\ created \in 0..created
  BY DEF VisionInv, FreshOK, LinksOK
<1>2. LinksOK' /\ CountedOK'
  BY <1>1, NoneIsHeld DEF VisionInv, LinksOK, CountedOK
<1>3. NumberedOK' /\ LabelsOK' /\ FreshOK'
  BY DEF VisionInv, NumberedOK, LabelsOK, FreshOK
<1>4. ASSUME NEW l \in Links
      PROVE  /\ Due(l)' <= 1 + putBack[l]
             /\ \A p \in Photos : photo[p].link = l => told[p] + Due(l)' <= 1 + putBack[l]
  <2>1. Due(l)' = IF l = created THEN 1 ELSE 0
    BY <1>1 DEF Due, Kept, Taken, Links
  <2>2. putBack[l] \in Nat /\ Due(l) \in 0..2 /\ \A p \in Photos : told[p] \in Nat
    BY DueIsSmall DEF VisionInv, LinksOK
  <2>3. l = created => \A p \in Photos : photo[p].link = l => told[p] = 0
    BY DEF VisionInv, FreshOK
  <2>4. \A p \in Photos : photo[p].link = l => told[p] + Due(l) <= 1 + putBack[l]
    BY DEF VisionInv, DueOK
  <2> QED
    BY <2>1, <2>2, <2>3, <2>4
<1>5. DueOK'
  BY <1>4 DEF DueOK
<1> QED
  BY <1>2, <1>3, <1>5 DEF VisionInv

(* What is told was due: once more if the session has the link again.      *)
LEMMA TellInv == ASSUME VisionInv, Tell PROVE VisionInv'
<1> USE DEF Tell, Answered, storeVars, earVars, NoLink
<1>1. CASE UNCHANGED told
  <2>1. \A l \in Links : Due(l)' <= Due(l)
    BY <1>1 DEF Due, Kept, Taken
  <2> QED
    BY <1>1, <2>1, TurnMoves
<1>2. CASE result # 0 /\ told' = [told EXCEPT ![result] = @ + 1]
  <2>1. result \in Photos /\ photo[result].link = seen /\ photo[result].at = "done"
    BY <1>2 DEF VisionInv, LinksOK, LabelsOK
  <2>2. /\ told \in [Photos -> Nat] /\ told' \in [Photos -> Nat] /\ told'[result] = told[result] + 1
        /\ \A q \in Photos : q # result => told'[q] = told[q]
    BY <1>2, <2>1 DEF VisionInv, LinksOK
  <2>3. LinksOK' /\ CountedOK'
    BY <2>2, NoneIsHeld DEF VisionInv, LinksOK, CountedOK
  <2>4. NumberedOK' /\ FreshOK'
    BY DEF VisionInv, NumberedOK, FreshOK
  <2>5. LabelsOK'
    BY <2>1, <2>2 DEF VisionInv, LabelsOK
  <2>6. ASSUME NEW l \in Links
        PROVE  /\ Due(l)' <= 1 + putBack[l]
               /\ \A p \in Photos : photo[p].link = l => told'[p] + Due(l)' <= 1 + putBack[l]
    <3>1. Due(l) \in 0..2 /\ Due(l)' \in 0..2 /\ Due(l)' <= Due(l)
      BY DEF Due, Kept, Taken
    <3>2. l = seen => Due(l)' + 1 = Due(l)
      BY DEF Due, Kept, Taken, Links
    <3>3. putBack[l] \in Nat /\ \A p \in Photos : told[p] \in Nat
      BY DEF VisionInv, LinksOK
    <3>4. /\ Due(l) <= 1 + putBack[l]
          /\ \A p \in Photos : photo[p].link = l => told[p] + Due(l) <= 1 + putBack[l]
      BY DEF VisionInv, DueOK
    <3>5. photo[result].link = l => l = seen
      BY <2>1
    <3> QED
      BY <2>1, <2>2, <3>1, <3>2, <3>3, <3>4, <3>5
  <2>7. DueOK'
    BY <2>6 DEF DueOK
  <2> QED
    BY <2>3, <2>4, <2>5, <2>7 DEF VisionInv
<1> QED
  BY <1>1, <1>2

LEMMA TurnInv == ASSUME VisionInv, VisionTurn PROVE VisionInv'
BY QuietInv, ForgetInv, ReadResultInv, AppendStoreInv, CreateLinkInv, SendLinkInv,
   RememberLoadInv, RememberStoreInv, TellInv DEF VisionTurn

(* The store of the listener makes one more telling due, and counts it.    *)
LEMMA ListenerInv == ASSUME VisionInv, Listener PROVE VisionInv'
<1> USE DEF callerVars, readVars, storeVars, NoLink
<1>1. CASE ListenerLoad
  <2>1. LinksOK' /\ CountedOK' /\ NumberedOK' /\ FreshOK' /\ LabelsOK'
    BY <1>1 DEF ListenerLoad, VisionInv, LinksOK, CountedOK, NumberedOK, FreshOK, LabelsOK
  <2>2. \A l \in Links : Due(l)' <= Due(l) /\ Due(l)' \in 0..2
    BY <1>1 DEF ListenerLoad, Due, Kept, Taken
  <2>3. DueOK'
    BY <1>1, <2>2, DueShrinks DEF ListenerLoad
  <2> QED
    BY <2>1, <2>3 DEF VisionInv
<1>2. CASE ListenerStore
  <2> USE <1>2 DEF ListenerStore
  <2>1. heard \in 0..created /\ created <= MaxLinks /\ created \in Nat
    BY DEF VisionInv, LinksOK, CountedOK
  <2>2. putBack \in [Links -> Nat] /\ (heard # NoLink => heard \in Links)
    BY <2>1, VisionAssumption DEF VisionInv, LinksOK, Links
  <2>3. /\ putBack' \in [Links -> Nat]
        /\ \A l \in Links : putBack'[l] = IF l = heard /\ l # remembered THEN putBack[l] + 1 ELSE putBack[l]
    BY <2>2 DEF Links
  <2>4. LinksOK' /\ CountedOK'
    BY <2>3, NoneIsHeld DEF VisionInv, LinksOK, CountedOK
  <2>5. NumberedOK' /\ FreshOK' /\ LabelsOK'
    <3>1. turn \in {"sending", "sent", "remembering"} => created # NoLink
      BY VisionAssumption DEF VisionInv, FreshOK, Links
    <3> QED
      BY <3>1 DEF VisionInv, NumberedOK, FreshOK, LabelsOK
  <2>6. ASSUME NEW l \in Links
        PROVE  /\ Due(l)' <= 1 + putBack'[l]
               /\ \A p \in Photos : photo[p].link = l => told[p] + Due(l)' <= 1 + putBack'[l]
    <3>1. /\ putBack[l] \in Nat
          /\ putBack'[l] = IF l = heard /\ l # remembered THEN putBack[l] + 1 ELSE putBack[l]
      BY <2>2, <2>3
    <3>2. Due(l) \in 0..2 /\ Due(l)' \in 0..2 /\ Due(l)' <= Due(l) + 1
      BY DEF Due, Kept, Taken
    <3>3. ~(l = heard /\ l # remembered) => Due(l)' <= Due(l)
      BY DEF Due, Kept, Taken
    <3>4. /\ Due(l) <= 1 + putBack[l]
          /\ \A p \in Photos : told[p] \in Nat /\ (photo[p].link = l => told[p] + Due(l) <= 1 + putBack[l])
      BY DEF VisionInv, DueOK, LinksOK
    <3> QED
      BY <3>1, <3>2, <3>3, <3>4
  <2>7. DueOK'
    BY <2>6 DEF DueOK
  <2> QED
    BY <2>4, <2>5, <2>7 DEF VisionInv
<1> QED
  BY <1>1, <1>2 DEF Listener

-----------------------------------------------------------------------------
(* The page posts and analyses; deadlines pass.                            *)
LEMMA PageKeepsDue ==
  ASSUME turnVars' = turnVars PROVE \A l \in Links : Due(l)' = Due(l)
BY DEF turnVars, readVars, Due, Kept, Taken

LEMMA PostInv == ASSUME VisionInv, NEW p \in Photos, Post(p) PROVE VisionInv'
<1> USE DEF Post, turnVars, readVars, earVars
<1>1. PICK l \in delivered : photo' = [photo EXCEPT ![p] = [link |-> l, at |-> "posted"]]
  OBVIOUS
<1>2. l \in Links /\ l <= created
  BY DEF VisionInv, NumberedOK
<1>3. LinksOK' /\ CountedOK' /\ NumberedOK'
  BY <1>1, <1>2 DEF VisionInv, LinksOK, CountedOK, NumberedOK
<1>4. told[p] = 0
  BY DEF VisionInv, LabelsOK
<1>5. FreshOK'
  BY <1>1, <1>4 DEF VisionInv, LinksOK, FreshOK
<1>6. LabelsOK'
  BY <1>1, <1>4 DEF VisionInv, LinksOK, LabelsOK
<1>7. ASSUME NEW m \in Links
      PROVE  /\ Due(m)' <= 1 + putBack[m]
             /\ \A q \in Photos : photo'[q].link = m => told[q] + Due(m)' <= 1 + putBack[m]
  <2>1. Due(m)' = Due(m) /\ Due(m) \in 0..2 /\ putBack[m] \in Nat
    BY PageKeepsDue, DueIsSmall DEF VisionInv, LinksOK
  <2>2. /\ Due(m) <= 1 + putBack[m]
        /\ \A q \in Photos : photo[q].link = m => told[q] + Due(m) <= 1 + putBack[m]
    BY DEF VisionInv, DueOK
  <2>3. \A q \in Photos : q # p => photo'[q] = photo[q]
    BY <1>1 DEF VisionInv, LinksOK
  <2> QED
    BY <1>4, <2>1, <2>2, <2>3
<1>8. DueOK'
  BY <1>7 DEF DueOK
<1> QED
  BY <1>3, <1>5, <1>6, <1>8 DEF VisionInv

(* A picture moves on, its link with it.                                   *)
LEMMA PhotoMoves ==
  ASSUME VisionInv, NEW p \in Photos, turnVars' = turnVars, photo[p].at # "none",
         NEW at \in {"analyzing", "done"}, photo' = [photo EXCEPT ![p].at = at],
         photo[p].at = "done" => at = "done"
  PROVE  /\ NumberedOK' /\ FreshOK' /\ DueOK'
         /\ \A q \in Photos : /\ photo'[q].link = photo[q].link
                              /\ q # p => photo'[q] = photo[q]
                              /\ photo[q].at = "done" => photo'[q].at = "done"
<1> USE DEF turnVars, readVars, earVars
<1>1. \A q \in Photos : /\ photo'[q].link = photo[q].link
                        /\ q # p => photo'[q] = photo[q]
                        /\ photo[q].at = "done" => photo'[q].at = "done"
                        /\ photo'[q].at = "none" <=> photo[q].at = "none"
  BY DEF VisionInv, LinksOK
<1>2. NumberedOK' /\ FreshOK'
  BY <1>1 DEF VisionInv, NumberedOK, FreshOK
<1>3. DueOK'
  <2>1. \A l \in Links : Due(l)' = Due(l)
    BY PageKeepsDue
  <2> QED
    BY <1>1, <2>1 DEF VisionInv, DueOK
<1> QED
  BY <1>1, <1>2, <1>3

LEMMA PredictStartInv == ASSUME VisionInv, NEW p \in Photos, PredictStart(p) PROVE VisionInv'
<1> USE DEF PredictStart
<1>1. photo[p].link \in Links
  BY DEF VisionInv, NumberedOK
<1>2. LinksOK' /\ CountedOK'
  <2>1. UNCHANGED <<remembered, seen, view, heard, result, created, told, putBack>>
    BY DEF turnVars, readVars, earVars
  <2> QED
    BY <1>1, <2>1 DEF VisionInv, LinksOK, CountedOK
<1>3. /\ NumberedOK' /\ FreshOK' /\ DueOK'
      /\ \A q \in Photos : /\ photo'[q].link = photo[q].link
                           /\ q # p => photo'[q] = photo[q]
                           /\ photo[q].at = "done" => photo'[q].at = "done"
  BY PhotoMoves
<1>4. \A l \in Links : link'[l].label = link[l].label
  BY <1>1 DEF VisionInv, LinksOK
<1>5. LabelsOK'
  BY <1>3, <1>4 DEF VisionInv, LinksOK, LabelsOK, turnVars, readVars
<1> QED
  BY <1>2, <1>3, <1>5 DEF VisionInv

LEMMA PredictEndInv == ASSUME VisionInv, NEW p \in Photos, PredictEnd(p) PROVE VisionInv'
<1> USE DEF PredictEnd
<1>1. photo[p].link \in Links
  BY DEF VisionInv, NumberedOK
<1>2. LinksOK' /\ CountedOK'
  <2>1. UNCHANGED <<remembered, seen, view, heard, result, created, told, putBack>>
    BY DEF turnVars, readVars, earVars
  <2>2. link' \in [Links -> [status : {"gone", "pending", "analyzing", "analyzed", "failed"},
                            label : {0} \cup Photos, expires : BOOLEAN]]
    <3>1. link \in [Links -> [status : {"gone", "pending", "analyzing", "analyzed", "failed"},
                             label : {0} \cup Photos, expires : BOOLEAN]]
      BY DEF VisionInv, LinksOK
    <3>2. PICK status \in {"analyzed", "failed"}, label \in {0, p, link[photo[p].link].label} :
            link' = [link EXCEPT ![photo[p].link] = [@ EXCEPT !.status = status, !.label = label]]
      BY <1>1, <3>1
    <3> QED
      BY <1>1, <3>1, <3>2
  <2>3. photo' \in [Photos -> [link : {NoLink} \cup Links,
                              at : {"none", "posted", "analyzing", "done"}]]
    BY DEF VisionInv, LinksOK
  <2> QED
    BY <2>1, <2>2, <2>3 DEF VisionInv, LinksOK, CountedOK
<1>3. /\ NumberedOK' /\ FreshOK' /\ DueOK'
      /\ \A q \in Photos : /\ photo'[q].link = photo[q].link
                           /\ q # p => photo'[q] = photo[q]
                           /\ photo[q].at = "done" => photo'[q].at = "done"
  BY PhotoMoves
<1>4. \A l \in Links : link'[l].label \in {0, link[l].label} \/ (l = photo[p].link /\ link'[l].label = p)
  BY <1>1 DEF VisionInv, LinksOK
<1>5. photo'[p].at = "done"
  BY DEF VisionInv, LinksOK
<1>6. LabelsOK'
  BY <1>3, <1>4, <1>5 DEF VisionInv, LinksOK, LabelsOK, turnVars, readVars
<1> QED
  BY <1>2, <1>3, <1>6 DEF VisionInv

LEMMA ExpiryInv ==
  ASSUME VisionInv, (\E l \in Links : ExpireLink(l)) \/ LoseStore PROVE VisionInv'
<1> USE DEF ExpireLink, LoseStore, turnVars, callerVars, readVars, earVars, NoKey
<1>1. remembered' \in {NoLink, remembered}
  OBVIOUS
<1>2. \A l \in Links : link'[l] \in {link[l], NoKey}
  BY DEF VisionInv, LinksOK
<1>3. link' \in [Links -> [status : {"gone", "pending", "analyzing", "analyzed", "failed"},
                          label : {0} \cup Photos, expires : BOOLEAN]]
  <2>1. NoKey \in [status : {"gone", "pending", "analyzing", "analyzed", "failed"},
                   label : {0} \cup Photos, expires : BOOLEAN]
    OBVIOUS
  <2>2. link' = [l \in Links |-> link'[l]]
    BY DEF VisionInv, LinksOK
  <2> QED
    BY ZenonT(30), <1>2, <2>1, <2>2 DEF VisionInv, LinksOK
<1>4. LinksOK'
  BY <1>3 DEF VisionInv, LinksOK
<1>10. CountedOK'
  BY <1>1, NoneIsHeld DEF VisionInv, CountedOK
<1>5. NumberedOK'
  BY DEF VisionInv, NumberedOK
<1>6. FreshOK'
  BY <1>1, VisionAssumption DEF VisionInv, FreshOK, NoLink, Links
<1>7. LabelsOK'
  BY <1>2 DEF VisionInv, LabelsOK
<1>8. \A l \in Links : Due(l)' <= Due(l) /\ Due(l)' \in 0..2
  BY <1>1 DEF Due, Kept, Taken, NoLink, Links
<1>9. DueOK'
  BY <1>8, DueShrinks
<1> QED
  BY <1>4, <1>5, <1>6, <1>7, <1>9, <1>10 DEF VisionInv

LEMMA VisionStutterInv == ASSUME VisionInv, UNCHANGED visionVars PROVE VisionInv'
<1> USE DEF visionVars, callerVars, readVars, earVars, storeVars
<1>1. LinksOK' /\ CountedOK' /\ NumberedOK' /\ FreshOK' /\ LabelsOK'
  BY DEF VisionInv, LinksOK, CountedOK, NumberedOK, FreshOK, LabelsOK
<1>2. DueOK'
  BY DEF VisionInv, DueOK, Due, Kept, Taken
<1> QED
  BY <1>1, <1>2 DEF VisionInv

LEMMA VisionNextInv == VisionInv /\ [VisionNext]_visionVars => VisionInv'
BY VisionStutterInv, TurnInv, ListenerInv, PostInv, PredictStartInv, PredictEndInv, ExpiryInv
   DEF VisionNext, Predict

(* However many links, pictures, turns and stores of the listener there    *)
(* are, and whatever Redis forgets between them, what was seen in a        *)
(* picture is told once, and once more for each time the listener put its  *)
(* link back.                                                              *)
THEOREM ResultToldAgainOnlyWhenPutBack == VisionSpec => []ToldAgainOnlyWhenPutBack
<1>1. VisionInv => ToldAgainOnlyWhenPutBack
  <2> SUFFICES ASSUME VisionInv, NEW p \in Photos, photo[p].link # NoLink
               PROVE  told[p] <= 1 + putBack[photo[p].link]
    BY DEF ToldAgainOnlyWhenPutBack
  <2> DEFINE l == photo[p].link
  <2>1. l \in Links
    BY DEF VisionInv, NumberedOK
  <2>2. told[p] + Due(l) <= 1 + putBack[l]
    BY <2>1 DEF VisionInv, DueOK
  <2>3. told[p] \in Nat /\ putBack[l] \in Nat /\ Due(l) \in 0..2
    BY <2>1, DueIsSmall DEF VisionInv, LinksOK
  <2> HIDE DEF l
  <2>4. told[p] <= 1 + putBack[l]
    BY <2>2, <2>3
  <2> QED
    BY <2>4 DEF l
<1> QED
  BY <1>1, VisionInitInv, VisionNextInv, PTL DEF VisionSpec

-----------------------------------------------------------------------------
(* Booking                                                                 *)

LEMMA MinIn == ASSUME NEW S \in SUBSET Nat, S # {} PROVE Min(S) \in S
BY LeastIn DEF Min

(* Of the slots that are least far from a time the first is the nearest.   *)
LEMMA NearestIn == ASSUME NEW S \in SUBSET Nat, S # {}, NEW t \in Nat PROVE Nearest(S, t) \in S
<1> DEFINE Far == {Distance(s, t) : s \in S}
<1>1. Far \in SUBSET Nat /\ Far # {}
  <2>1. \A s \in S : Distance(s, t) \in Nat
    BY DEF Distance
  <2> QED
    BY <2>1
<1>2. PICK f \in Far : \A g \in Far : f <= g
  BY <1>1, LeastIn
<1> DEFINE Close == {s \in S : Distance(s, t) = f}
<1>3. PICK s \in Close : \A r \in Close : s <= r
  BY LeastIn
<1>4. ASSUME NEW r \in S
      PROVE  Distance(s, t) < Distance(r, t) \/ (Distance(s, t) = Distance(r, t) /\ s <= r)
  <2>1. Distance(s, t) = f /\ f \in Nat /\ Distance(r, t) \in Far /\ Distance(r, t) \in Nat
    BY <1>1, <1>3
  <2>2. f <= Distance(r, t)
    BY <1>2, <2>1
  <2>3. CASE Distance(r, t) = f
    BY <1>3, <2>1, <2>3
  <2>4. CASE Distance(r, t) # f
    BY <2>1, <2>2, <2>4
  <2> QED
    BY <2>3, <2>4
<1>5. s \in S
  BY <1>3
<1> HIDE DEF Close, Far
<1> QED
  BY <1>4, <1>5 DEF Nearest

(* Days and half hours.                                                    *)
LEMMA DayFacts ==
  ASSUME NEW t \in Nat
  PROVE  /\ Day(t) \in Nat /\ Day(t) * PerDay <= t /\ t < (Day(t) + 1) * PerDay
         /\ t % PerDay \in 0..47 /\ t = Day(t) * PerDay + (t % PerDay)
         /\ Weekday(Day(t)) \in 0..6
<1>1. /\ Day(t) \in Nat /\ Day(t) * PerDay <= t /\ t < (Day(t) + 1) * PerDay
      /\ t % PerDay \in 0..47 /\ t = Day(t) * PerDay + (t % PerDay)
  BY DEF Day, PerDay
<1>2. Weekday(Day(t)) \in 0..6
  BY <1>1 DEF Weekday
<1> QED
  BY <1>1, <1>2

LEMMA DayIs ==
  ASSUME NEW t \in Nat, NEW d \in Nat, d * PerDay <= t, t < (d + 1) * PerDay
  PROVE  Day(t) = d
BY DEF Day, PerDay

(* A known hour of the day, or none.                                       *)
LEMMA ExtractFacts ==
  ASSUME NEW u \in Sayings PROVE ExtractTime(u) = NoTime \/ ExtractTime(u) \in Nat
<1>1. /\ u.week \in {"relative", "this", "next", "after"} /\ u.day \in Nat
      /\ u.hour \in 0..24 /\ u.half \in 0..1 /\ Today \in Nat
  BY BookingAssumption
<1>2. ResolveHour(u.qual, u.hour) \in Nat
  BY <1>1 DEF ResolveHour
<1>3. ExtractDay(u) \in Nat
  BY <1>1 DEF ExtractDay, ResolveWeekWeekday, Weekday
<1> QED
  BY <1>1, <1>2, <1>3 DEF ExtractTime, PerDay

(* What the assistant says of an hour is understood as that hour.          *)
LEMMA HourUnderstood ==
  ASSUME NEW h \in 0..23
  PROVE  ResolveHour(HourLabel(h).qual, HourLabel(h).hour) = h
BY DEF ResolveHour, HourLabel

LEMMA TimeUnderstood == ASSUME NEW t \in Nat PROVE ExtractTime(SaidBack(t)) = t
<1> DEFINE h == (t % PerDay) \div 2
           l == HourLabel(h)
<1>1. h \in 0..23 /\ t % PerDay = 2 * h + (t % 2)
  <2>1. t % PerDay \in 0..47
    BY DayFacts
  <2>2. h \in 0..23 /\ t % PerDay = 2 * h + ((t % PerDay) % 2)
    BY <2>1
  <2>3. (t % PerDay) % 2 = t % 2
    BY DEF PerDay
  <2> QED
    BY <2>2, <2>3
<1>2. ResolveHour(l.qual, l.hour) = h
  BY <1>1, HourUnderstood
<1>3. SaidBack(t) = [week |-> "relative", day |-> Day(t) - Today, qual |-> l.qual,
                     hour |-> l.hour, half |-> t % 2]
  BY DEF SaidBack
<1> HIDE DEF h, l
<1>4. /\ SaidBack(t).week = "relative" /\ SaidBack(t).day = Day(t) - Today
      /\ SaidBack(t).qual = l.qual /\ SaidBack(t).hour = l.hour /\ SaidBack(t).half = t % 2
  BY <1>3
<1>5. Today \in Nat /\ Day(t) \in Nat /\ t = Day(t) * PerDay + (t % PerDay)
  BY BookingAssumption, DayFacts
<1>6. ExtractDay(SaidBack(t)) = Day(t)
  BY <1>4, <1>5 DEF ExtractDay
<1>7. ExtractTime(SaidBack(t)) = Day(t) * PerDay + 2 * h + (t % 2)
  BY <1>1, <1>2, <1>4, <1>6 DEF ExtractTime
<1> QED
  BY <1>1, <1>5, <1>7 DEF PerDay

(* Every time of an event is a time.                                       *)
EventsOK == \A e \in events : e.from \in Nat /\ e.to \in Nat

OnOneDay(t) == Day(t) = Day(t + Dur - 1)

(* A time other than the one asked for.                                    *)
WithinHours(t, want) ==
  LET d == Day(t)  h == BusinessHours(Weekday(d)) IN
  /\ h # Closed /\ d - Day(want) \in 0..7
  /\ t >= d * PerDay + h[1] /\ t + Dur <= d * PerDay + h[2]

(* What may be offered, and then booked.                                   *)
Offered(q) ==
  /\ q.offer \in Nat /\ q.want \in Nat
  /\ OnOneDay(q.offer) => ~q.met

CallOK(q) ==
  /\ q.pc \in {"idle", "check", "wait", "insert"} /\ q.offer \in Nat \cup {NoTime}
  /\ q.pc = "check" => q.want \in Nat /\ ~q.met
  /\ q.pc \in {"wait", "insert"} => Offered(q)
  /\ q.pc = "wait" => q.offer = q.want \/ WithinHours(q.offer, q.want)

(* Between the offer and the insertion the calendar may change, but what   *)
(* was offered is remembered as it was found.                              *)
BookingInv ==
  /\ EventsOK
  /\ \A e \in events : Day(e.from) = Day(e.to - 1) => ~e.met
  /\ DOMAIN call = Calls /\ \A c \in Calls : CallOK(call[c])

LEMMA HoursFacts ==
  ASSUME NEW wd
  PROVE  LET h == BusinessHours(wd) IN h[1] \in 0..48 /\ h[2] \in 0..48
BY DEF BusinessHours, Closed

(* A time is in the way of an event only if that is in its day's list.     *)
LEMMA FreeIsFree ==
  ASSUME EventsOK, NEW t \in Nat, OnOneDay(t),
         \A e \in Busy(Day(t)) : ~Overlaps(t, t + Dur, e)
  PROVE  ~Meets(t)
<1>1. Dur \in Nat \ {0} /\ t + Dur - 1 \in Nat
  BY BookingAssumption
<1>2. /\ Day(t) \in Nat /\ Day(t) * PerDay <= t
      /\ t + Dur - 1 < (Day(t) + 1) * PerDay
  BY <1>1, DayFacts DEF OnOneDay
<1>3. ASSUME NEW e \in events, Overlaps(t, t + Dur, e) PROVE e \in Busy(Day(t))
  BY <1>1, <1>2, <1>3 DEF EventsOK, Overlaps, Busy, PerDay
<1> QED
  BY <1>3 DEF Meets

LEMMA SlotFacts ==
  ASSUME EventsOK, NEW d \in Nat, NEW s \in FreeSlots(d)
  PROVE  /\ s \in Nat /\ Day(s) = d /\ ~Meets(s)
         /\ LET h == BusinessHours(Weekday(d)) IN
              s >= d * PerDay + h[1] /\ s + Dur <= d * PerDay + h[2] /\ h # Closed
<1> DEFINE h == BusinessHours(Weekday(d))
<1>1. h[1] \in 0..48 /\ h[2] \in 0..48 /\ Dur \in Nat \ {0}
  BY HoursFacts, BookingAssumption
<1>2. /\ s \in (d * PerDay + h[1])..(d * PerDay + h[2]) /\ s + Dur <= d * PerDay + h[2]
      /\ \A e \in Busy(d) : ~Overlaps(s, s + Dur, e)
  BY DEF FreeSlots
<1>3. h # Closed
  <2>1. h = Closed => h[1] = 0 /\ h[2] = 0
    BY DEF Closed
  <2> QED
    BY <1>1, <1>2, <2>1 DEF PerDay
<1> HIDE DEF h
<1>4. s \in Nat /\ d * PerDay <= s /\ s + Dur <= (d + 1) * PerDay
  BY <1>1, <1>2 DEF PerDay
<1>5. Day(s) = d /\ Day(s + Dur - 1) = d
  BY <1>1, <1>4, DayIs DEF PerDay
<1>6. ~Meets(s)
  BY <1>2, <1>4, <1>5, FreeIsFree DEF OnOneDay
<1> QED
  BY <1>2, <1>3, <1>4, <1>5, <1>6 DEF h

(* Whatever is suggested is a free slot of one of the next seven days.     *)
LEMMA NextFacts ==
  ASSUME EventsOK, NEW t \in Nat, NEW unread, NextFreeSlot(t, unread) # NoTime
  PROVE  \E d \in (Day(t) + 1)..(Day(t) + 7) : NextFreeSlot(t, unread) \in FreeSlots(d)
<1> DEFINE days == {d \in (Day(t) + 1)..(Day(t) + 7) :
                      BusinessHours(Weekday(d)) # Closed /\ d \notin unread /\ FreeSlots(d) # {}}
<1>1. days # {} /\ NextFreeSlot(t, unread) = Min(FreeSlots(Min(days)))
  BY DEF NextFreeSlot
<1>2. Day(t) \in Nat
  BY DayFacts
<1>3. days \in SUBSET Nat
  BY <1>2
<1>4. Min(days) \in days
  BY <1>1, <1>3, MinIn
<1>5. Min(days) \in (Day(t) + 1)..(Day(t) + 7) /\ Min(days) \in Nat /\ FreeSlots(Min(days)) # {}
  BY <1>3, <1>4
<1> HIDE DEF days
<1>6. FreeSlots(Min(days)) \in SUBSET Nat
  BY <1>5, SlotFacts
<1>7. Min(FreeSlots(Min(days))) \in FreeSlots(Min(days))
  BY <1>5, <1>6, MinIn
<1> QED
  BY <1>1, <1>5, <1>7

LEMMA SlotWithin ==
  ASSUME EventsOK, NEW t \in Nat, NEW d \in Nat, d - Day(t) \in 0..7, NEW s \in FreeSlots(d)
  PROVE  s \in Nat /\ WithinHours(s, t) /\ ~Meets(s)
<1>1. /\ s \in Nat /\ Day(s) = d /\ ~Meets(s)
      /\ s >= d * PerDay + BusinessHours(Weekday(d))[1]
      /\ s + Dur <= d * PerDay + BusinessHours(Weekday(d))[2]
      /\ BusinessHours(Weekday(d)) # Closed
  BY SlotFacts
<1> QED
  BY <1>1 DEF WithinHours

LEMMA AvailabilityFacts ==
  ASSUME EventsOK, NEW t \in Nat, NEW unread, Availability(t, unread).slot # NoTime
  PROVE  LET s == Availability(t, unread).slot IN
         /\ s \in Nat /\ (s = t \/ WithinHours(s, t))
         /\ OnOneDay(s) => ~Meets(s)
<1> DEFINE s == Availability(t, unread).slot
<1>1. Day(t) \in Nat
  BY DayFacts
<1>2. CASE BusinessHours(Weekday(Day(t))) = Closed
  <2>1. s = NextFreeSlot(t, unread)
    BY <1>2 DEF Availability
  <2>2. PICK d \in (Day(t) + 1)..(Day(t) + 7) : s \in FreeSlots(d)
    BY <2>1, NextFacts
  <2>3. d \in Nat /\ d - Day(t) \in 0..7
    BY <1>1
  <2> QED
    BY <2>2, <2>3, SlotWithin
<1>3. CASE /\ BusinessHours(Weekday(Day(t))) # Closed
           /\ \A e \in Busy(Day(t)) : ~Overlaps(t, t + Dur, e)
  <2>1. s = t
    BY <1>3 DEF Availability
  <2> QED
    BY <1>3, <2>1, FreeIsFree
<1>4. CASE /\ BusinessHours(Weekday(Day(t))) # Closed
           /\ ~\A e \in Busy(Day(t)) : ~Overlaps(t, t + Dur, e)
  <2>1. s = IF FreeSlots(Day(t)) = {} THEN NoTime ELSE Nearest(FreeSlots(Day(t)), t)
    BY <1>4 DEF Availability
  <2>2. FreeSlots(Day(t)) # {} /\ s = Nearest(FreeSlots(Day(t)), t)
    BY <2>1
  <2>3. FreeSlots(Day(t)) \in SUBSET Nat
    BY <1>1, SlotFacts
  <2>4. s \in FreeSlots(Day(t))
    BY <2>2, <2>3, NearestIn
  <2>5. Day(t) - Day(t) \in 0..7
    BY <1>1
  <2> QED
    BY <1>1, <2>4, <2>5, SlotWithin
<1> QED
  BY <1>2, <1>3, <1>4

-----------------------------------------------------------------------------
LEMMA IdleFacts ==
  /\ CallOK(Idle)
  /\ \A t \in Nat : CallOK([Idle EXCEPT !.pc = "check", !.want = t])
BY DEF Idle, CallOK, NoTime

LEMMA BookingInitInv == BookingInit => BookingInv
BY IdleFacts DEF BookingInit, BookingInv, EventsOK

(* A step of one call that leaves the calendar alone.                      *)
LEMMA CallStep ==
  ASSUME BookingInv, UNCHANGED <<industry, events>>, NEW c \in Calls, NEW q, CallOK(q),
         call' = [call EXCEPT ![c] = q]
  PROVE  BookingInv'
<1>1. ASSUME NEW b \in Calls PROVE call'[b] = call[b] \/ call'[b] = q
  BY DEF BookingInv
<1>2. \A b \in Calls : CallOK(call'[b])
  BY <1>1 DEF BookingInv
<1>3. \A b \in Calls : CallOK(call[b])'
  BY <1>2 DEF CallOK, Offered, WithinHours, BusinessHours
<1> QED
  BY <1>3 DEF BookingInv, EventsOK

LEMMA AskForInv ==
  ASSUME BookingInv, UNCHANGED <<industry, events>>, NEW c \in Calls, NEW u \in Sayings,
         AskFor(c, ExtractTime(u))
  PROVE  BookingInv'
<1> DEFINE t == ExtractTime(u)
<1>1. CASE t = NoTime
  BY <1>1 DEF AskFor, BookingInv, EventsOK, CallOK, Offered, WithinHours, BusinessHours
<1>2. CASE t # NoTime
  <2>1. t \in Nat
    BY <1>2, ExtractFacts
  <2>2. call' = [call EXCEPT ![c] = [Idle EXCEPT !.pc = "check", !.want = t]]
    BY <1>2 DEF AskFor
  <2> QED
    BY <2>1, <2>2, CallStep, IdleFacts
<1> QED
  BY <1>1, <1>2

LEMMA AskTimeInv == ASSUME BookingInv, NEW c \in Calls, AskTime(c) PROVE BookingInv'
BY AskForInv DEF AskTime

(* What is offered, or booked at once when the calendar cannot be asked.   *)
LEMMA CheckInv == ASSUME BookingInv, NEW c \in Calls, CheckThenConfirm(c) PROVE BookingInv'
<1>1. call[c].pc = "check" /\ UNCHANGED <<industry, events>>
  BY DEF CheckThenConfirm
<1>2. call[c].want \in Nat /\ ~call[c].met /\ EventsOK
  BY <1>1 DEF BookingInv, CallOK
<1>3. CASE DirectSchedule(c)
  <2> DEFINE q == [call[c] EXCEPT !.pc = "insert", !.offer = call[c].want]
  <2>1. call' = [call EXCEPT ![c] = q]
    BY <1>3 DEF DirectSchedule, BookingInv
  <2>2. CallOK(q)
    BY <1>2 DEF CallOK, Offered
  <2> QED
    BY <1>1, <2>1, <2>2, CallStep
<1>4. ASSUME NEW unread,
             call' = [call EXCEPT ![c] = IF Availability(call[c].want, unread).slot = NoTime THEN Idle
                        ELSE [@ EXCEPT !.pc = "wait", !.offer = Availability(call[c].want, unread).slot,
                                       !.met = Meets(Availability(call[c].want, unread).slot)]]
      PROVE  BookingInv'
  <2> DEFINE s == Availability(call[c].want, unread).slot
             q == [call[c] EXCEPT !.pc = "wait", !.offer = s, !.met = Meets(s)]
  <2>1. CASE s = NoTime
    BY <1>1, <1>4, <2>1, CallStep, IdleFacts
  <2>2. CASE s # NoTime
    <3>1. s \in Nat /\ (s = call[c].want \/ WithinHours(s, call[c].want)) /\ (OnOneDay(s) => ~Meets(s))
      BY <1>2, <2>2, AvailabilityFacts
    <3>2. call' = [call EXCEPT ![c] = q]
      BY <1>4, <2>2
    <3>3. q.pc = "wait" /\ q.offer = s /\ q.want = call[c].want /\ q.met = Meets(s)
      OBVIOUS
    <3> HIDE DEF q, s
    <3>4. CallOK(q)
      BY <1>2, <3>1, <3>3 DEF CallOK, Offered
    <3> QED
      BY <1>1, <3>2, <3>4, CallStep
  <2> QED
    BY <2>1, <2>2
<1>5. \/ DirectSchedule(c)
      \/ \E unread :
           call' = [call EXCEPT ![c] = IF Availability(call[c].want, unread).slot = NoTime THEN Idle
                      ELSE [@ EXCEPT !.pc = "wait", !.offer = Availability(call[c].want, unread).slot,
                                     !.met = Meets(Availability(call[c].want, unread).slot)]]
  BY Zenon DEF CheckThenConfirm
<1> QED
  BY <1>3, <1>4, <1>5

LEMMA ReplyInv == ASSUME BookingInv, NEW c \in Calls, Reply(c) PROVE BookingInv'
<1>1. call[c].pc = "wait" /\ UNCHANGED <<industry, events>>
  BY DEF Reply
<1>2. CASE call' = [call EXCEPT ![c].pc = "insert"]
  <2> DEFINE q == [call[c] EXCEPT !.pc = "insert"]
  <2>1. call' = [call EXCEPT ![c] = q]
    BY <1>2
  <2>2. CallOK(q)
    BY <1>1 DEF BookingInv, CallOK, Offered
  <2> QED
    BY <1>1, <2>1, <2>2, CallStep
<1>3. CASE call' = [call EXCEPT ![c] = Idle]
  BY <1>1, <1>3, CallStep, IdleFacts
<1>4. CASE \E u \in Sayings : AskFor(c, ExtractTime(u))
  BY <1>1, <1>4, AskForInv
<1> QED
  BY <1>2, <1>3, <1>4 DEF Reply

LEMMA InsertInv == ASSUME BookingInv, NEW c \in Calls, Insert(c) PROVE BookingInv'
<1>1. call' = [call EXCEPT ![c] = Idle] /\ call[c].pc = "insert" /\ industry' = industry
  BY DEF Insert
<1>2. Offered(call[c]) /\ Dur \in Nat
  BY <1>1, BookingAssumption DEF BookingInv, CallOK
<1> DEFINE e == Event(c)
<1>3. e.from = call[c].offer /\ e.to = call[c].offer + Dur /\ e.met = call[c].met
  BY DEF Event
<1> HIDE DEF e
<1>4. e.from \in Nat /\ e.to \in Nat /\ (Day(e.from) = Day(e.to - 1) => ~e.met)
  BY <1>2, <1>3 DEF Offered, OnOneDay
<1>5. events' \subseteq events \cup {e}
  BY DEF Insert, e
<1>6. EventsOK' /\ \A x \in events' : Day(x.from) = Day(x.to - 1) => ~x.met
  BY <1>4, <1>5 DEF BookingInv, EventsOK
<1>7. \A b \in Calls : call'[b] = call[b] \/ call'[b] = Idle
  BY <1>1 DEF BookingInv
<1>8. \A b \in Calls : CallOK(call'[b])
  BY <1>7, IdleFacts DEF BookingInv
<1>9. \A b \in Calls : CallOK(call[b])'
  BY <1>1, <1>8 DEF CallOK, Offered, WithinHours, BusinessHours
<1> QED
  BY <1>1, <1>6, <1>9 DEF BookingInv

LEMMA StaffInv == ASSUME BookingInv, Staff PROVE BookingInv'
<1>1. UNCHANGED <<industry, call>> /\ Dur \in Nat
  BY BookingAssumption DEF Staff
<1>2. ASSUME NEW x \in events', x \notin events
      PROVE  x.from \in Nat /\ x.to \in Nat /\ ~x.met
  <2>1. PICK t \in StaffTimes : x = [from |-> t, to |-> t + Dur, by |-> "staff", met |-> FALSE]
    BY <1>2 DEF Staff
  <2>2. t \in Nat
    BY BookingAssumption
  <2> QED
    BY <1>1, <2>1, <2>2
<1>3. EventsOK' /\ \A x \in events' : Day(x.from) = Day(x.to - 1) => ~x.met
  BY <1>2 DEF BookingInv, EventsOK
<1>4. \A b \in Calls : CallOK(call[b])'
  BY <1>1 DEF BookingInv, CallOK, Offered, WithinHours, BusinessHours
<1> QED
  BY <1>1, <1>3, <1>4 DEF BookingInv

LEMMA BookingNextInv == BookingInv /\ [BookingNext]_bookingVars => BookingInv'
<1> SUFFICES ASSUME BookingInv, [BookingNext]_bookingVars PROVE BookingInv'
  OBVIOUS
<1>1. CASE UNCHANGED bookingVars
  BY <1>1 DEF bookingVars, BookingInv, EventsOK, CallOK, Offered, WithinHours, BusinessHours
<1> QED
  BY <1>1, StaffInv, AskTimeInv, CheckInv, ReplyInv, InsertInv DEF BookingNext

LEMMA AlwaysBookingInv == BookingSpec => []BookingInv
BY BookingInitInv, BookingNextInv, PTL DEF BookingSpec

(* A time that is booked met no event that was in the calendar when it was *)
(* offered, for any number of callers, events, and sayings, and any        *)
(* length of an event; what the staff or another call enters between the   *)
(* question and the insertion is all that can collide.                     *)
THEOREM BookedWasFree == BookingSpec => []BookedTimeWasFree
<1>1. BookingInv => BookedTimeWasFree
  BY DEF BookingInv, BookedTimeWasFree
<1> QED
  BY <1>1, AlwaysBookingInv, PTL

(* Another time is suggested only in opening hours of one of the next      *)
(* seven days, whatever is in the calendar and whichever list fails.       *)
THEOREM SuggestionsAreOpen == BookingSpec => []SuggestionIsOpen
<1>1. BookingInv => SuggestionIsOpen
  BY DEF BookingInv, CallOK, WithinHours, SuggestionIsOpen
<1> QED
  BY <1>1, AlwaysBookingInv, PTL

(* Every time the assistant can say is understood as that time when the    *)
(* caller repeats it.                                                      *)
THEOREM OffersAreUnderstood == BookingSpec => []OfferSaidBackIsUnderstood
<1>1. BookingInv => OfferSaidBackIsUnderstood
  BY TimeUnderstood DEF BookingInv, CallOK, OfferSaidBackIsUnderstood
<1> QED
  BY <1>1, AlwaysBookingInv, PTL
=============================================================================
