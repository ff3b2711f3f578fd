------------------------- MODULE ConversationProofs -------------------------
(* What holds of face authentication (FaceAuth) and of a call that uses it *)
(* for any number of turns, auth sessions, face requests and attempts.     *)
EXTENDS Conversation, FiniteSetTheorems, TLAPS

-----------------------------------------------------------------------------
(* Face authentication by itself                                           *)

(* What a request can know at each of its steps.                           *)
RequestsOK ==
  \A f \in Requests :
    /\ req[f].pc = "idle" => req[f].auth = NoAuth
    /\ req[f].pc \in {"idle", "count", "compare"} => req[f].result = "none"
    /\ req[f].pc \in {"idle", "count"} => req[f].attempt = 0
    /\ req[f].pc # "idle" => req[f].auth \in linked
    /\ req[f].pc \in {"compare", "publish"} \/ req[f].result # "none"
         => req[f].attempt # 0

(* An id is linked only after it was issued.                               *)
LinksOK == linked \subseteq Auths /\ \A a \in linked : auth[a].made # "new"

(* As long as the record lives, its counter gives every request a number   *)
(* of its own.                                                             *)
NumbersOK ==
  \A a \in Auths : auth[a].made = "created" =>
    \A f \in Requests : req[f].auth = a =>
      /\ req[f].attempt <= auth[a].attempts
      /\ \A g \in Requests :
           req[g].auth = a /\ req[g].attempt = req[f].attempt /\ req[f].attempt # 0 => f = g

(* The failure whose number reached the limit decided the session.         *)
LimitOK ==
  \A a \in Auths : auth[a].made = "created" =>
    \A f \in Requests : req[f].auth = a /\ req[f].result = "fail" /\ LastAttempt(f)
      => auth[a].status \in {"verified", "blocked"}

FaceInv ==
  FaceTypeOK /\ RequestsOK /\ LinksOK /\ NumbersOK /\ LimitOK /\ VerifiedMeansMatched

LEMMA FaceInitInv == FaceInit => FaceInv
<1> SUFFICES ASSUME FaceInit PROVE FaceInv
  OBVIOUS
<1> USE FaceAuthConstantsOK DEF FaceInit, Absent
<1>1. FaceTypeOK
  BY DEF FaceTypeOK, AuthRecords, Statuses, RequestRecords
<1>2. RequestsOK /\ LinksOK /\ NumbersOK
  BY DEF RequestsOK, LinksOK, NumbersOK
<1>3. LimitOK /\ VerifiedMeansMatched
  BY DEF LimitOK, VerifiedMeansMatched
<1> QED
  BY <1>1, <1>2, <1>3 DEF FaceInv

(* Writing an expired record changes nothing but how it was made.          *)
LEMMA TouchType ==
  ASSUME FaceTypeOK, NEW a \in Auths
  PROVE  /\ Touch(a) \in AuthRecords
         /\ Touch(a).status = auth[a].status /\ Touch(a).attempts = auth[a].attempts
         /\ Touch(a).made = IF auth[a].made = "created" THEN "created" ELSE "recreated"
<1>1. auth[a] \in AuthRecords
  BY DEF FaceTypeOK
<1> QED
  BY <1>1 DEF Touch, AuthRecords

LEMMA IssueInv ==
  ASSUME FaceInv, NEW a \in Auths, NEW sent \in BOOLEAN, Issue(a, sent)
  PROVE  FaceInv'
<1> USE FaceAuthConstantsOK DEF FaceInv, Issue
<1>1. FaceTypeOK'
  BY DEF FaceTypeOK, AuthRecords, Statuses
<1>2. \A b \in Auths : b # a => auth'[b] = auth[b]
  BY DEF FaceTypeOK
<1>3. /\ auth'[a].made = "created" /\ auth'[a].status = "pending" /\ auth'[a].attempts = 0
  BY DEF FaceTypeOK
<1>4. \A f \in Requests : req[f].auth # a
  BY DEF RequestsOK, LinksOK
<1>5. RequestsOK'
  BY DEF RequestsOK
<1>6. LinksOK'
  BY <1>2, <1>3 DEF LinksOK
<1>7. NumbersOK' /\ LimitOK'
  BY <1>2, <1>4 DEF NumbersOK, LimitOK, LastAttempt
<1>8. VerifiedMeansMatched'
  BY <1>2, <1>3 DEF VerifiedMeansMatched, Matched
<1> QED
  BY <1>1, <1>5, <1>6, <1>7, <1>8

LEMMA ExpireInv ==
  ASSUME FaceInv, NEW a \in Auths, Expire(a)
  PROVE  FaceInv'
<1> USE FaceAuthConstantsOK DEF FaceInv, Expire, Absent
<1>1. FaceTypeOK'
  BY DEF FaceTypeOK, AuthRecords, Statuses
<1>2. \A b \in Auths : b # a => auth'[b] = auth[b]
  BY DEF FaceTypeOK
<1>3. auth'[a].made = "expired" /\ auth'[a].status = "none"
  BY DEF FaceTypeOK
<1>4. RequestsOK' /\ LinksOK'
  BY <1>2, <1>3 DEF RequestsOK, LinksOK
<1>5. NumbersOK' /\ LimitOK'
  BY <1>2, <1>3 DEF NumbersOK, LimitOK, LastAttempt
<1>6. VerifiedMeansMatched'
  BY <1>2, <1>3 DEF VerifiedMeansMatched, Matched
<1> QED
  BY <1>1, <1>4, <1>5, <1>6

LEMMA CheckInv ==
  ASSUME FaceInv, NEW f \in Requests, NEW a \in Auths, Check(f, a)
  PROVE  FaceInv'
<1> USE FaceAuthConstantsOK DEF FaceInv, Check
<1>1. FaceTypeOK'
  BY DEF FaceTypeOK, RequestRecords
<1>2. \A g \in Requests : g # f => req'[g] = req[g]
  BY DEF FaceTypeOK
<1>3. /\ req'[f].auth = a /\ req'[f].pc \in {"count", "done"}
      /\ req'[f].attempt = 0 /\ req'[f].result = "none"
  BY DEF FaceTypeOK, RequestRecords, RequestsOK
<1>4. RequestsOK'
  <2>1. a \in linked /\ linked' = linked
    OBVIOUS
  <2> SUFFICES ASSUME NEW g \in Requests
               PROVE  /\ req'[g].pc = "idle" => req'[g].auth = NoAuth
                      /\ req'[g].pc \in {"idle", "count", "compare"} => req'[g].result = "none"
                      /\ req'[g].pc \in {"idle", "count"} => req'[g].attempt = 0
                      /\ req'[g].pc # "idle" => req'[g].auth \in linked
                      /\ req'[g].pc \in {"compare", "publish"} \/ req'[g].result # "none"
                           => req'[g].attempt # 0
    BY <2>1 DEF RequestsOK
  <2>2. CASE g = f
    BY <1>3, <2>1, <2>2
  <2>3. CASE g # f
    <3>1. req'[g] = req[g]
      BY <1>2, <2>3
    <3> HIDE DEF FaceInv, Check
    <3> QED
      BY <3>1 DEF RequestsOK, FaceInv
  <2> QED
    BY <2>2, <2>3
<1>5. LinksOK'
  BY DEF LinksOK
<1>6. NumbersOK'
  BY <1>2, <1>3 DEF NumbersOK, FaceTypeOK, AuthRecords
<1>7. LimitOK'
  BY ZenonT(30), <1>2, <1>3 DEF LimitOK, LastAttempt
<1>8. VerifiedMeansMatched'
  <2> SUFFICES ASSUME NEW b \in Auths, auth[b].status = "verified" PROVE Matched(b)' # {}
    BY DEF VerifiedMeansMatched
  <2>1. PICK g \in Requests : req[g].auth = b /\ req[g].result = "match"
    BY DEF VerifiedMeansMatched, Matched
  <2>2. g # f
    BY <2>1 DEF RequestsOK
  <2> QED
    BY <1>2, <2>1, <2>2 DEF Matched
<1> QED
  BY <1>1, <1>4, <1>5, <1>6, <1>7, <1>8

LEMMA CountInv ==
  ASSUME FaceInv, NEW f \in Requests, Count(f)
  PROVE  FaceInv'
<1> USE FaceAuthConstantsOK DEF FaceInv
<1> DEFINE a == req[f].auth
<1>0. a \in Auths /\ a \in linked /\ auth[a].made # "new"
  BY DEF Count, RequestsOK, LinksOK
<1>1. FaceTypeOK'
  <2>1. [Touch(a) EXCEPT !.attempts = @ + 1] \in AuthRecords
    BY <1>0, TouchType DEF AuthRecords
  <2>2. auth[a].attempts + 1 \in Nat
    BY <1>0 DEF FaceTypeOK, AuthRecords
  <2> QED
    BY <1>0, <2>1, <2>2 DEF Count, FaceTypeOK, RequestRecords
<1>2. \A g \in Requests : g # f => req'[g] = req[g]
  BY DEF Count, FaceTypeOK
<1>3. \A b \in Auths : b # a => auth'[b] = auth[b]
  BY DEF Count, FaceTypeOK
<1>4. /\ req'[f].auth = a /\ req'[f].pc \in {"compare", "done"}
      /\ req'[f].attempt = auth[a].attempts + 1 /\ req'[f].result = "none"
  BY DEF Count, FaceTypeOK, RequestRecords, RequestsOK
<1>5. /\ auth'[a].attempts = auth[a].attempts + 1 /\ auth'[a].status = auth[a].status
      /\ auth'[a].made = "created" => auth[a].made = "created"
      /\ auth'[a].made # "new"
  <2>1. auth'[a] = [Touch(a) EXCEPT !.attempts = @ + 1]
    BY <1>0 DEF Count, FaceTypeOK
  <2> QED
    BY <1>0, <2>1, TouchType DEF AuthRecords
<1>6. auth[a].attempts \in Nat /\ \A g \in Requests : req[g].attempt \in Nat
  BY <1>0 DEF FaceTypeOK, AuthRecords, RequestRecords
<1>7. UNCHANGED linked
  BY DEF Count
<1>8. RequestsOK'
  BY <1>0, <1>2, <1>4, <1>6, <1>7 DEF RequestsOK
<1>9. LinksOK'
  BY <1>3, <1>5, <1>7 DEF LinksOK
<1>10. NumbersOK'
  <2> SUFFICES ASSUME NEW b \in Auths, auth'[b].made = "created",
                      NEW g \in Requests, req'[g].auth = b
               PROVE  /\ req'[g].attempt <= auth'[b].attempts
                      /\ \A h \in Requests :
                           req'[h].auth = b /\ req'[h].attempt = req'[g].attempt
                             /\ req'[g].attempt # 0 => g = h
    BY DEF NumbersOK
  <2>1. CASE b # a
    <3>1. g # f /\ \A h \in Requests : req'[h].auth = b => h # f
      BY <1>4, <2>1
    <3> QED
      BY <1>2, <1>3, <2>1, <3>1 DEF NumbersOK
  <2>2. CASE b = a
    <3>1. \A h \in Requests : h # f /\ req[h].auth = a => req[h].attempt <= auth[a].attempts
      BY <1>5, <2>2 DEF NumbersOK
    <3>2. \A h \in Requests : h # f /\ req'[h].auth = a => req'[h].attempt < req'[f].attempt
      BY <1>2, <1>4, <1>6, <3>1
    <3>3. req'[g].attempt <= auth'[a].attempts
      BY <1>2, <1>4, <1>5, <1>6, <2>2, <3>1
    <3>4. ASSUME NEW h \in Requests, req'[h].auth = a, req'[h].attempt = req'[g].attempt,
                 req'[g].attempt # 0
          PROVE  g = h
      <4>1. CASE g = f \/ h = f
        <5>1. req'[f].attempt \in Nat /\ req'[g].attempt \in Nat /\ req'[h].attempt \in Nat
          BY <1>2, <1>4, <1>6
        <5> QED
          BY <2>2, <3>2, <3>4, <4>1, <5>1
      <4>2. CASE g # f /\ h # f
        BY <1>2, <1>5, <2>2, <3>4, <4>2 DEF NumbersOK
      <4> QED
        BY <4>1, <4>2
    <3> QED
      BY <2>2, <3>3, <3>4
  <2> QED
    BY <2>1, <2>2
<1>11. LimitOK'
  BY <1>2, <1>3, <1>4, <1>5 DEF LimitOK, LastAttempt
<1>12. VerifiedMeansMatched'
  <2> SUFFICES ASSUME NEW b \in Auths, auth'[b].status = "verified" PROVE Matched(b)' # {}
    BY DEF VerifiedMeansMatched
  <2>1. auth[b].status = "verified"
    BY <1>3, <1>5
  <2>2. PICK g \in Requests : req[g].auth = b /\ req[g].result = "match"
    BY <2>1 DEF VerifiedMeansMatched, Matched
  <2>3. g # f
    BY <2>2 DEF RequestsOK, Count
  <2> QED
    BY <1>2, <2>2, <2>3 DEF Matched
<1> QED
  BY <1>1, <1>8, <1>9, <1>10, <1>11, <1>12

LEMMA CompareInv ==
  ASSUME FaceInv, NEW f \in Requests, NEW match \in BOOLEAN, Compare(f, match)
  PROVE  FaceInv'
<1> USE FaceAuthConstantsOK DEF FaceInv
<1> DEFINE a == req[f].auth
<1>0. a \in Auths /\ a \in linked /\ auth[a].made # "new" /\ req[f].pc = "compare"
  BY DEF Compare, RequestsOK, LinksOK
<1>1. FaceTypeOK'
  <2>1. /\ auth[a] \in AuthRecords
        /\ [Touch(a) EXCEPT !.status = "verified", !.face = TRUE] \in AuthRecords
        /\ [Touch(a) EXCEPT !.status = "blocked"] \in AuthRecords
    <3>1. auth[a] \in AuthRecords /\ Touch(a) \in AuthRecords
      BY <1>0, TouchType DEF FaceTypeOK
    <3>2. \A rec \in AuthRecords :
            /\ [rec EXCEPT !.status = "verified", !.face = TRUE] \in AuthRecords
            /\ [rec EXCEPT !.status = "blocked"] \in AuthRecords
      BY DEF AuthRecords, Statuses
    <3> QED
      BY <3>1, <3>2
  <2>2. req' \in [Requests -> RequestRecords] /\ linked' \in SUBSET Auths
    <3>1. \A rec \in RequestRecords, res \in {"match", "fail"} :
            [rec EXCEPT !.pc = "publish", !.result = res] \in RequestRecords
      BY DEF RequestRecords
    <3>2. PICK res \in {"match", "fail"} :
            req' = [req EXCEPT ![f] = [req[f] EXCEPT !.pc = "publish", !.result = res]]
      BY DEF Compare, FaceTypeOK
    <3>3. req \in [Requests -> RequestRecords]
      BY DEF FaceTypeOK
    <3>4. req' \in [Requests -> RequestRecords]
      BY <3>1, <3>2, <3>3
    <3> QED
      BY <3>4 DEF Compare, FaceTypeOK
  <2>3. auth' \in [Auths -> AuthRecords]
    <3>1. PICK rec \in AuthRecords : auth' = [auth EXCEPT ![a] = rec]
      BY <1>0, <2>1 DEF Compare
    <3> QED
      BY <3>1 DEF FaceTypeOK
  <2> QED
    BY <2>2, <2>3 DEF FaceTypeOK
<1>2. \A g \in Requests : g # f => req'[g] = req[g]
  BY DEF Compare, FaceTypeOK
<1>3. \A b \in Auths : b # a => auth'[b] = auth[b]
  BY DEF Compare, FaceTypeOK
<1>4. /\ req'[f].auth = a /\ req'[f].pc = "publish" /\ req'[f].attempt = req[f].attempt
      /\ req'[f].result = IF match THEN "match" ELSE "fail"
  BY DEF Compare, FaceTypeOK, RequestRecords
<1>5. /\ auth'[a].attempts = auth[a].attempts
      /\ auth'[a].made = "created" => auth[a].made = "created"
      /\ auth'[a].made # "new"
  BY <1>0, TouchType DEF Compare, FaceTypeOK, AuthRecords
<1>6. auth'[a].status = IF match THEN "verified"
                        ELSE IF LastAttempt(f) THEN "blocked" ELSE auth[a].status
  BY <1>0, TouchType DEF Compare, FaceTypeOK, AuthRecords
<1>7. UNCHANGED linked
  BY DEF Compare
<1>8. RequestsOK'
  BY <1>0, <1>2, <1>4, <1>7 DEF RequestsOK
<1>9. LinksOK'
  BY <1>3, <1>5, <1>7 DEF LinksOK
<1>10. NumbersOK'
  <2>1. \A g \in Requests : req'[g].auth = req[g].auth /\ req'[g].attempt = req[g].attempt
    BY <1>2, <1>4
  <2>2. \A b \in Auths : auth'[b].attempts = auth[b].attempts
                         /\ (auth'[b].made = "created" => auth[b].made = "created")
    BY <1>3, <1>5
  <2> QED
    BY <2>1, <2>2 DEF NumbersOK
<1>11. LimitOK'
  <2> SUFFICES ASSUME NEW b \in Auths, auth'[b].made = "created", NEW g \in Requests,
                      req'[g].auth = b, req'[g].result = "fail", LastAttempt(g)'
               PROVE  auth'[b].status \in {"verified", "blocked"}
    BY DEF LimitOK
  <2>1. LastAttempt(g)
    BY <1>2, <1>4 DEF LastAttempt
  <2>2. CASE g = f
    BY <1>4, <1>6, <2>1, <2>2
  <2>3. CASE g # f
    <3>1. auth[b].status \in {"verified", "blocked"}
      BY <1>2, <1>3, <1>5, <2>1, <2>3 DEF LimitOK
    <3> QED
      BY <1>3, <1>6, <3>1
  <2> QED
    BY <2>2, <2>3
<1>12. VerifiedMeansMatched'
  <2> SUFFICES ASSUME NEW b \in Auths, auth'[b].status = "verified" PROVE Matched(b)' # {}
    BY DEF VerifiedMeansMatched
  <2>1. CASE b = a /\ match
    BY <1>4, <2>1 DEF Matched
  <2>2. CASE ~(b = a /\ match)
    <3>1. auth[b].status = "verified"
      BY <1>3, <1>6, <2>2
    <3>2. PICK g \in Requests : req[g].auth = b /\ req[g].result = "match"
      BY <3>1 DEF VerifiedMeansMatched, Matched
    <3>3. g # f
      BY <1>0, <3>2 DEF RequestsOK
    <3> QED
      BY <1>2, <3>2, <3>3 DEF Matched
  <2> QED
    BY <2>1, <2>2
<1> QED
  BY <1>1, <1>8, <1>9, <1>10, <1>11, <1>12

LEMMA PublishInv ==
  ASSUME FaceInv, NEW f \in Requests, Publish(f)
  PROVE  FaceInv'
<1> USE FaceAuthConstantsOK DEF FaceInv, Publish
<1>1. FaceTypeOK'
  BY DEF FaceTypeOK, RequestRecords
<1>2. \A g \in Requests : /\ req'[g].auth = req[g].auth
                          /\ req'[g].attempt = req[g].attempt
                          /\ req'[g].result = req[g].result
  BY DEF FaceTypeOK, RequestRecords
<1>3. \A g \in Requests : g # f => req'[g] = req[g]
  BY DEF FaceTypeOK
<1>4. RequestsOK'
  <2>1. req'[f].pc = "done"
    BY DEF FaceTypeOK
  <2> QED
    BY <1>2, <1>3, <2>1 DEF RequestsOK
<1>5. LinksOK' /\ NumbersOK'
  BY <1>2 DEF LinksOK, NumbersOK
<1>6. LimitOK' /\ VerifiedMeansMatched'
  BY <1>2 DEF LimitOK, LastAttempt, VerifiedMeansMatched, Matched
<1> QED
  BY <1>1, <1>4, <1>5, <1>6

LEMMA FaceStepInv == FaceInv /\ [FaceNext]_faceVars => FaceInv'
<1> SUFFICES ASSUME FaceInv, [FaceNext]_faceVars PROVE FaceInv'
  OBVIOUS
<1>1. CASE UNCHANGED faceVars
  BY <1>1 DEF FaceInv, faceVars, FaceTypeOK, RequestsOK, LinksOK, NumbersOK, LimitOK,
              LastAttempt, VerifiedMeansMatched, Matched
<1>2. CASE FaceNext
  BY <1>2, IssueInv, ExpireInv, CheckInv, CountInv, CompareInv, PublishInv DEF FaceNext
<1> QED
  BY <1>1, <1>2

(* The numbers of the failed pictures of an undecided session lie below    *)
(* the limit and differ: there are fewer of them than the limit.           *)
LEMMA FewFailures == FaceInv => FailuresEndTheSession
<1> SUFFICES ASSUME FaceInv, NEW a \in Auths, auth[a].made = "created",
                    Cardinality(Failed(a)) >= MaxAttempts,
                    auth[a].status \notin {"verified", "blocked"}
             PROVE  FALSE
  BY DEF FailuresEndTheSession
<1> USE FaceAuthConstantsOK DEF FaceInv
<1> DEFINE Below == 1..(MaxAttempts - 1)
           number == [f \in Failed(a) |-> req[f].attempt]
<1>1. IsFiniteSet(Failed(a)) /\ Cardinality(Failed(a)) \in Nat
  <2>1. Failed(a) \in SUBSET Requests
    BY DEF Failed
  <2>2. IsFiniteSet(Failed(a))
    BY <2>1, FS_Subset
  <2> QED
    BY <2>2, FS_CardinalityType
<1>2. IsFiniteSet(Below) /\ Cardinality(Below) = MaxAttempts - 1
  BY FS_Interval
<1>3. number \in [Failed(a) -> Below]
  <2> SUFFICES ASSUME NEW f \in Failed(a) PROVE req[f].attempt \in Below
    OBVIOUS
  <2>1. f \in Requests /\ req[f].auth = a /\ req[f].result = "fail"
    BY DEF Failed
  <2>2. req[f].attempt \in Nat /\ req[f].attempt # 0
    BY <2>1 DEF FaceTypeOK, RequestRecords, RequestsOK
  <2>3. ~(req[f].attempt >= MaxAttempts)
    BY <2>1 DEF LimitOK, LastAttempt
  <2> QED
    BY <2>2, <2>3
<1>4. PICK f, g \in Failed(a) : f # g /\ number[f] = number[g]
  <2>1. Cardinality(Below) < Cardinality(Failed(a))
    BY <1>1, <1>2
  <2> HIDE DEF Below, number
  <2> QED
    BY <1>1, <1>2, <1>3, <2>1, FS_PigeonHole
<1>5. /\ f \in Requests /\ req[f].auth = a /\ req[f].result = "fail"
      /\ g \in Requests /\ req[g].auth = a /\ req[g].attempt = req[f].attempt
  BY <1>4 DEF Failed
<1>6. req[f].attempt # 0
  BY <1>5 DEF RequestsOK
<1> QED
  BY <1>4, <1>5, <1>6 DEF NumbersOK

(* Whatever requests overlap, fail, match or outlive the record.           *)
THEOREM FaceInvariant == FaceSpec => []FaceInv
<1> QED
  BY FaceInitInv, FaceStepInv, PTL DEF FaceSpec

(* Pictures posted at the same time cannot slip past the limit together    *)
(* (increment_face_attempts counts atomically).                            *)
THEOREM FailuresEnd == FaceSpec => []FailuresEndTheSession
<1> QED
  BY FaceInvariant, FewFailures, PTL

(* A session reads verified only after a face matched for it.              *)
THEOREM VerifiedMatched == FaceSpec => []VerifiedMeansMatched
<1>1. FaceInv => VerifiedMeansMatched
  BY DEF FaceInv
<1> QED
  BY <1>1, FaceInvariant, PTL

-----------------------------------------------------------------------------
(* A call uses face authentication only through its own steps, so what     *)
(* FaceAuth guarantees holds inside a call.                                *)
LEMMA FaceStep == ASSUME [Next]_vars PROVE [FaceNext]_faceVars
<1>1. CASE UNCHANGED vars
  BY <1>1 DEF vars
<1>2. CASE Hear \/ Filler \/ Hangup
  BY <1>2 DEF Hear, Filler, Hangup
<1>3. ASSUME NEW p \in Procs, Shared(p) PROVE UNCHANGED faceVars
  BY <1>3 DEF Shared, ClearLoad, ClearStore, Resume, AppendLoad, AppendStore, TakePending
<1>4. CASE Turn
  <2>1. CASE IssueAuth
    BY <2>1 DEF IssueAuth, FaceNext
  <2>2. CASE Shared("turn")
    BY <1>3, <2>2 DEF Procs
  <2>3. CASE RejectVoice \/ Begin \/ ReadPending \/ Select \/ GateLoad \/ GateStatus
    BY <2>3 DEF RejectVoice, Begin, ReadPending, Select, GateLoad, GateStatus
  <2>4. CASE OfferLoad \/ OfferStore \/ AuthLoad \/ AuthStatus \/ SetAuthLoad \/ SetAuthStore
    BY <2>4 DEF OfferLoad, OfferStore, AuthLoad, AuthStatus, SetAuthLoad, SetAuthStore
  <2>5. CASE GraphFails \/ Spawn \/ Answer \/ EndTurn
    BY <2>5 DEF GraphFails, Spawn, Answer, EndTurn
  <2> QED
    BY <1>4, <2>1, <2>2, <2>3, <2>4, <2>5 DEF Turn
<1>5. CASE Listener
  <2>1. CASE Shared("listener")
    BY <1>3, <2>1 DEF Procs
  <2>2. CASE Subscribe \/ TakeEvent \/ Speak \/ Played
    BY <2>2 DEF Subscribe, TakeEvent, Speak, Played
  <2> QED
    BY <1>5, <2>1, <2>2 DEF Listener
<1>6. CASE Customer
  BY <1>6 DEF Customer, FaceNext
<1>7. ASSUME NEW f \in Requests, Tell(f) PROVE FaceNext
  BY <1>7 DEF Tell, FaceNext
<1> QED
  BY <1>1, <1>2, <1>4, <1>5, <1>6, <1>7 DEF Next

(* Every behaviour of a call is a behaviour of face authentication: the    *)
(* turn, the listener and a hangup touch no auth record but by Issue.      *)
THEOREM CallUsesFaceAuth == Spec => FaceSpec
<1>1. Init => FaceInit
  BY DEF Init
<1> QED
  BY <1>1, FaceStep, PTL DEF Spec, FaceSpec

(* In a call, too, the failed pictures of a session end it at the limit,   *)
(* whatever the turns and the listener do meanwhile.                       *)
THEOREM FailuresEndInCall == Spec => []FailuresEndTheSession
<1> QED
  BY CallUsesFaceAuth, FailuresEnd, PTL

-----------------------------------------------------------------------------
(* Where a subroutine returns to, and what is at hand at each place.       *)
ReturnsOK ==
  /\ after["turn"] \in {"off", "resume", "append", "select"}
  /\ after["listener"] \in {"off", "resume", "listen"}
  /\ \A p \in Procs : pc[p] \in {"clear", "clearing"} => after[p] # "off"
  /\ pc["listener"] \in {"speak", "playing", "append", "appending"}
       => after["listener"] # "resume"

AtHand ==
  /\ pc["turn"] = "heard" => turns < MaxTurns
  /\ pc["turn"] \notin {"idle", "heard"} => turns \in 1..MaxTurns
  /\ \A p \in Procs : pc[p] \in {"clear", "clearing", "resume"} => task[p] \in Tasks
  /\ pc["turn"] \in {"gate", "gateStatus", "offer", "offering"} => task["turn"] \in Tasks
  /\ pc["turn"] \in {"gateStatus", "authStatus"} => view["turn"].auth \in Auths

Facts == TypeOK /\ ReturnsOK /\ AtHand

(* Each step leaves the facts true; the records of FaceAuth are typed.     *)
LEMMA FactsStep ==
  ASSUME Facts, FaceTypeOK', [Next]_vars
  PROVE  Facts'
<1> USE FaceAuthConstantsOK, ConversationConstantsOK DEF Facts
<1>1. CASE UNCHANGED vars
  BY <1>1 DEF vars, faceVars, TypeOK, ReturnsOK, AtHand, turnVars, procVars,
     earVars, history
<1>2. ASSUME NEW p \in Procs, ClearLoad(p) PROVE Facts'
  BY SMTT(30), <1>2 DEF ClearLoad, Goto, TypeOK, ReturnsOK, AtHand, Procs, TurnLabels,
     ListenerLabels, Sessions, Tasks, NoTask, Kinds, Empty, turnVars,
     earVars, history, faceVars
<1>3. ASSUME NEW p \in Procs, ClearStore(p) PROVE Facts'
  <2>1. TypeOK'
    <3>1. /\ p = "turn" => after[p] \in TurnLabels
          /\ p = "listener" => after[p] \in ListenerLabels
      BY <1>3 DEF ClearStore, TypeOK, ReturnsOK, AtHand, TurnLabels,
         ListenerLabels, Procs
    <3>2. /\ pc' \in [Procs -> TurnLabels \cup ListenerLabels]
          /\ pc'["turn"] \in TurnLabels /\ pc'["listener"] \in ListenerLabels
      BY <1>3, <3>1 DEF ClearStore, Goto, TypeOK, TurnLabels,
         ListenerLabels, Procs
    <3>3. session' \in Sessions /\ view' \in [Procs -> Sessions]
      BY <1>3 DEF ClearStore, Store, TypeOK, AtHand, Procs, Sessions,
         Empty, NoTask
    <3> QED
      BY <1>3, <3>2, <3>3 DEF ClearStore, TypeOK, turnVars, earVars,
         history, faceVars
  <2>2. ReturnsOK'
    BY <1>3 DEF ClearStore, Goto, TypeOK, ReturnsOK, Procs
  <2>3. AtHand'
    BY <1>3 DEF ClearStore, Goto, Store, TypeOK, AtHand, ReturnsOK, Procs,
       turnVars
  <2> QED
    BY <2>1, <2>2, <2>3
<1>4. ASSUME NEW p \in Procs, Resume(p) PROVE Facts'
  <2>1. TypeOK'
    BY <1>4 DEF Resume, Goto, TypeOK, AtHand, ReturnsOK, TurnLabels,
       ListenerLabels, Procs, turnVars, earVars, faceVars
  <2>2. ReturnsOK'
    BY <1>4 DEF Resume, Goto, TypeOK, ReturnsOK, Procs
  <2>3. AtHand'
    BY <1>4 DEF Resume, Goto, TypeOK, AtHand, ReturnsOK, Procs, turnVars
  <2> QED
    BY <2>1, <2>2, <2>3
<1>5. ASSUME NEW p \in Procs, AppendLoad(p) PROVE Facts'
  BY SMTT(30), <1>5 DEF AppendLoad, Goto, TypeOK, ReturnsOK, AtHand, Procs,
     TurnLabels, ListenerLabels, Sessions, Tasks, NoTask, Kinds, Empty,
     turnVars, earVars, history, faceVars
<1>6. ASSUME NEW p \in Procs, AppendStore(p) PROVE Facts'
  <2>1. TypeOK'
    <3>1. p = "listener" => after[p] \in ListenerLabels
      BY <1>6 DEF AppendStore, TypeOK, ReturnsOK, AtHand, TurnLabels,
         ListenerLabels, Procs
    <3>2. /\ pc' \in [Procs -> TurnLabels \cup ListenerLabels]
          /\ pc'["turn"] \in TurnLabels /\ pc'["listener"] \in ListenerLabels
      BY <1>6, <3>1 DEF AppendStore, Goto, TypeOK, TurnLabels,
         ListenerLabels, Procs
    <3>3. session' \in Sessions /\ view' \in [Procs -> Sessions]
          /\ task' \in [Procs -> Tasks \cup {NoTask}] /\ speaking' \in BOOLEAN
      BY <1>6 DEF AppendStore, Store, TypeOK, AtHand, Procs, Sessions,
         Empty
    <3> QED
      BY <1>6, <3>2, <3>3 DEF AppendStore, TypeOK, turnVars, earVars,
         history, faceVars
  <2>2. ReturnsOK'
    BY <1>6 DEF AppendStore, Goto, TypeOK, ReturnsOK, Procs
  <2>3. AtHand'
    BY <1>6 DEF AppendStore, Goto, Store, TypeOK, AtHand, ReturnsOK,
       Procs, turnVars
  <2> QED
    BY <2>1, <2>2, <2>3
<1>7. ASSUME NEW p \in Procs, TakePending(p) PROVE Facts'
  <2>1. TypeOK'
    BY <1>7 DEF TakePending, Goto, TypeOK, AtHand, ReturnsOK, TurnLabels,
       ListenerLabels, Procs, turnVars, earVars, history, faceVars,
       Sessions
  <2>2. ReturnsOK'
    BY <1>7 DEF TakePending, Goto, TypeOK, ReturnsOK, Procs
  <2>3. AtHand'
    BY <1>7 DEF TakePending, Goto, TypeOK, AtHand, ReturnsOK, Procs,
       turnVars, Sessions, NoTask
  <2> QED
    BY <2>1, <2>2, <2>3
<1>8. CASE Hear
  BY <1>8 DEF Hear, Goto, TypeOK, ReturnsOK, AtHand, Procs, TurnLabels,
     ListenerLabels, Sessions, Tasks, NoTask, Kinds, Empty, turnVars,
     earVars, history, faceVars
<1>9. CASE Filler
  BY <1>9 DEF Filler, TypeOK, ReturnsOK, AtHand, Procs, TurnLabels,
     ListenerLabels, Sessions, Tasks, NoTask, Kinds, Empty, turnVars,
     procVars, earVars, history, faceVars
<1>10. CASE Hangup
  BY <1>10 DEF Hangup, TypeOK, ReturnsOK, AtHand, Procs, TurnLabels,
     ListenerLabels, Sessions, Tasks, NoTask, Kinds, Empty, turnVars,
     earVars, history, faceVars
<1>11. CASE RejectVoice
  BY <1>11 DEF RejectVoice, Goto, TypeOK, ReturnsOK, AtHand, Procs,
     TurnLabels, ListenerLabels, Sessions, Tasks, NoTask, Kinds, Empty,
     turnVars, earVars, history, faceVars
<1>12. CASE Begin
  <2>1. TypeOK'
    BY <1>12 DEF Begin, Goto, TypeOK, AtHand, ReturnsOK, TurnLabels,
       ListenerLabels, Procs, earVars, history, faceVars
  <2>2. ReturnsOK'
    BY <1>12 DEF Begin, Goto, TypeOK, ReturnsOK, Procs
  <2>3. AtHand'
    BY <1>12 DEF Begin, Goto, TypeOK, AtHand, ReturnsOK, Procs
  <2> QED
    BY <2>1, <2>2, <2>3
<1>13. CASE ReadPending
  <2>1. TypeOK'
    <3>1. {"clear", "select"} \subseteq TurnLabels
      BY <1>13 DEF ReadPending, TypeOK, ReturnsOK, AtHand, TurnLabels,
         ListenerLabels, Procs
    <3>2. /\ pc' \in [Procs -> TurnLabels \cup ListenerLabels]
          /\ pc'["turn"] \in TurnLabels /\ pc'["listener"] \in ListenerLabels
      BY <1>13, <3>1 DEF ReadPending, Goto, TypeOK, TurnLabels,
         ListenerLabels, Procs
    <3>3. /\ task' \in [Procs -> Tasks \cup {NoTask}]
          /\ after' \in [Procs -> TurnLabels \cup ListenerLabels]
          /\ agreed' \in SUBSET Tasks
      BY <1>13 DEF ReadPending, TypeOK, AtHand, Procs, Sessions, NoTask,
         TurnLabels
    <3> QED
      BY <1>13, <3>2, <3>3 DEF ReadPending, TypeOK, turnVars, earVars,
         faceVars
  <2>2. ReturnsOK'
    BY <1>13 DEF ReadPending, Goto, TypeOK, ReturnsOK, Procs
  <2>3. AtHand'
    BY SMTT(30), <1>13 DEF ReadPending, Goto, TypeOK, AtHand, ReturnsOK, Procs,
       turnVars, Sessions, Tasks, NoTask, Kinds
  <2> QED
    BY <2>1, <2>2, <2>3
<1>14. CASE Select
  <2>1. TypeOK'
    BY <1>14 DEF Select, Goto, TypeOK, AtHand, ReturnsOK, TurnLabels,
       ListenerLabels, Procs, turnVars, earVars, history, faceVars, Tasks
  <2>2. ReturnsOK'
    BY <1>14 DEF Select, Goto, TypeOK, ReturnsOK, Procs
  <2>3. AtHand'
    BY <1>14 DEF Select, Goto, TypeOK, AtHand, ReturnsOK, Procs, turnVars,
       Tasks
  <2> QED
    BY <2>1, <2>2, <2>3
<1>15. CASE GateLoad
  BY <1>15 DEF GateLoad, Goto, TypeOK, ReturnsOK, AtHand, Procs, TurnLabels,
     ListenerLabels, Sessions, Tasks, NoTask, Kinds, Empty, turnVars,
     earVars, history, faceVars
<1>16. CASE GateStatus
  <2>1. TypeOK'
    BY <1>16 DEF GateStatus, Goto, TypeOK, AtHand, ReturnsOK, TurnLabels,
       ListenerLabels, Procs, turnVars, earVars, faceVars
  <2>2. ReturnsOK'
    BY <1>16 DEF GateStatus, Goto, TypeOK, ReturnsOK, Procs
  <2>3. AtHand'
    BY <1>16 DEF GateStatus, Goto, TypeOK, AtHand, ReturnsOK, Procs,
       turnVars
  <2> QED
    BY <2>1, <2>2, <2>3
<1>17. CASE OfferLoad
  BY <1>17 DEF OfferLoad, Goto, TypeOK, ReturnsOK, AtHand, Procs,
     TurnLabels, ListenerLabels, Sessions, Tasks, NoTask, Kinds, Empty,
     turnVars, earVars, history, faceVars
<1>18. CASE OfferStore
  <2>1. TypeOK'
    BY <1>18 DEF OfferStore, Goto, Store, TypeOK, AtHand, ReturnsOK,
       TurnLabels, ListenerLabels, Procs, turnVars, earVars, history,
       faceVars, Sessions, Empty
  <2>2. ReturnsOK'
    BY <1>18 DEF OfferStore, Goto, TypeOK, ReturnsOK, Procs
  <2>3. AtHand'
    BY <1>18 DEF OfferStore, Goto, Store, TypeOK, AtHand, ReturnsOK,
       Procs, turnVars
  <2> QED
    BY <2>1, <2>2, <2>3
<1>19. CASE AuthLoad
  BY SMTT(30), <1>19 DEF AuthLoad, Goto, TypeOK, ReturnsOK, AtHand, Procs, TurnLabels,
     ListenerLabels, Sessions, Tasks, NoTask, Kinds, Empty, turnVars,
     earVars, history, faceVars
<1>20. CASE AuthStatus
  <2>1. TypeOK'
    BY <1>20 DEF AuthStatus, Goto, TypeOK, AtHand, ReturnsOK, TurnLabels,
       ListenerLabels, Procs, turnVars, earVars, history, faceVars,
       Sessions, Empty, NoTask
  <2>2. ReturnsOK'
    BY <1>20 DEF AuthStatus, Goto, TypeOK, ReturnsOK, Procs
  <2>3. AtHand'
    BY <1>20 DEF AuthStatus, Goto, TypeOK, AtHand, ReturnsOK, Procs,
       turnVars
  <2> QED
    BY <2>1, <2>2, <2>3
<1>21. CASE IssueAuth
  <2>1. TypeOK'
    <3>1. {"setAuth", "append"} \subseteq TurnLabels
      BY <1>21 DEF IssueAuth, TypeOK, ReturnsOK, AtHand, TurnLabels,
         ListenerLabels, Procs
    <3>2. /\ pc' \in [Procs -> TurnLabels \cup ListenerLabels]
          /\ pc'["turn"] \in TurnLabels /\ pc'["listener"] \in ListenerLabels
      BY <1>21, <3>1 DEF IssueAuth, Goto, TypeOK, TurnLabels,
         ListenerLabels, Procs
    <3>3. view' \in [Procs -> Sessions]
      <4>1. PICK a \in Auths : view' = [view EXCEPT !["turn"] = [@ EXCEPT !.auth = a]]
        BY <1>21 DEF IssueAuth
      <4>2. \A v \in Sessions : [v EXCEPT !.auth = a] \in Sessions
        BY DEF Sessions
      <4> QED
        BY <4>1, <4>2 DEF TypeOK, Procs
    <3> QED
      BY <1>21, <3>2, <3>3 DEF IssueAuth, TypeOK, turnVars, earVars,
         history
  <2>2. ReturnsOK'
    BY <1>21 DEF IssueAuth, Goto, TypeOK, ReturnsOK, Procs
  <2>3. AtHand'
    BY <1>21 DEF IssueAuth, Goto, TypeOK, AtHand, ReturnsOK, Procs,
       turnVars
  <2> QED
    BY <2>1, <2>2, <2>3
<1>22. CASE SetAuthLoad
  <2>1. TypeOK'
    BY ZenonT(30), <1>22 DEF SetAuthLoad, Goto, TypeOK, AtHand, ReturnsOK, TurnLabels,
       ListenerLabels, Procs, turnVars, earVars, history, faceVars,
       Sessions
  <2>2. ReturnsOK'
    BY <1>22 DEF SetAuthLoad, Goto, TypeOK, ReturnsOK, Procs
  <2>3. AtHand'
    BY <1>22 DEF SetAuthLoad, Goto, TypeOK, AtHand, ReturnsOK, Procs,
       turnVars
  <2> QED
    BY <2>1, <2>2, <2>3
<1>23. CASE SetAuthStore
  BY <1>23 DEF SetAuthStore, Goto, Store, TypeOK, ReturnsOK, AtHand, Procs,
     TurnLabels, ListenerLabels, Sessions, Tasks, NoTask, Kinds, Empty,
     turnVars, earVars, history, faceVars
<1>24. CASE GraphFails
  BY <1>24 DEF GraphFails, Goto, TypeOK, ReturnsOK, AtHand, Procs,
     TurnLabels, ListenerLabels, Sessions, Tasks, NoTask, Kinds, Empty,
     earVars, history, faceVars
<1>25. CASE Spawn
  BY SMTT(30), <1>25 DEF Spawn, TypeOK, ReturnsOK, AtHand, Procs, TurnLabels,
     ListenerLabels, Sessions, Tasks, NoTask, Kinds, Empty, history,
     faceVars
<1>26. CASE Answer
  BY SMTT(30), <1>26 DEF Answer, Goto, TypeOK, ReturnsOK, AtHand, Procs, TurnLabels,
     ListenerLabels, Sessions, Tasks, NoTask, Kinds, Empty, turnVars,
     earVars, history, faceVars
<1>27. CASE EndTurn
  <2>1. TypeOK'
    BY <1>27 DEF EndTurn, Goto, TypeOK, AtHand, ReturnsOK, TurnLabels,
       ListenerLabels, Procs, turnVars, earVars, history, faceVars
  <2>2. ReturnsOK'
    BY <1>27 DEF EndTurn, Goto, TypeOK, ReturnsOK, Procs
  <2>3. AtHand'
    BY <1>27 DEF EndTurn, Goto, TypeOK, AtHand, ReturnsOK, Procs, turnVars
  <2> QED
    BY <2>1, <2>2, <2>3
<1>28. CASE Subscribe
  BY SMTT(30), <1>28 DEF Subscribe, Goto, TypeOK, ReturnsOK, AtHand, Procs,
     TurnLabels, ListenerLabels, Sessions, Tasks, NoTask, Kinds, Empty,
     turnVars, earVars, history, faceVars
<1>29. CASE TakeEvent
  BY <1>29 DEF TakeEvent, Goto, TypeOK, ReturnsOK, AtHand, Procs,
     TurnLabels, ListenerLabels, Sessions, Tasks, NoTask, Kinds, Empty,
     turnVars, history, faceVars
<1>30. CASE Speak
  <2>1. TypeOK'
    <3>1. after["listener"] \in ListenerLabels
      BY <1>30 DEF Speak, TypeOK, ReturnsOK, AtHand, TurnLabels,
         ListenerLabels, Procs
    <3>2. /\ pc' \in [Procs -> TurnLabels \cup ListenerLabels]
          /\ pc'["turn"] \in TurnLabels /\ pc'["listener"] \in ListenerLabels
      BY <1>30, <3>1 DEF Speak, Goto, TypeOK, TurnLabels,
         ListenerLabels, Procs
    <3>3. speaking' \in BOOLEAN
      BY <1>30 DEF Speak, TypeOK, AtHand, Procs, Sessions
    <3> QED
      BY <1>30, <3>2, <3>3 DEF Speak, TypeOK, turnVars, earVars,
         history, faceVars
  <2>2. ReturnsOK'
    BY <1>30 DEF Speak, Goto, TypeOK, ReturnsOK, Procs
  <2>3. AtHand'
    BY <1>30 DEF Speak, Goto, TypeOK, AtHand, ReturnsOK, Procs, turnVars
  <2> QED
    BY <2>1, <2>2, <2>3
<1>31. CASE Played
  <2>1. TypeOK'
    <3>1. after["listener"] \in ListenerLabels
      BY <1>31 DEF Played, TypeOK, ReturnsOK, AtHand, TurnLabels,
         ListenerLabels, Procs
    <3>2. /\ pc' \in [Procs -> TurnLabels \cup ListenerLabels]
          /\ pc'["turn"] \in TurnLabels /\ pc'["listener"] \in ListenerLabels
      BY <1>31, <3>1 DEF Played, Goto, TypeOK, TurnLabels,
         ListenerLabels, Procs
    <3>3. speaking' \in BOOLEAN
      BY <1>31 DEF Played, TypeOK, AtHand, Procs, Sessions
    <3> QED
      BY <1>31, <3>2, <3>3 DEF Played, TypeOK, turnVars, earVars,
         history, faceVars
  <2>2. ReturnsOK'
    BY <1>31 DEF Played, Goto, TypeOK, ReturnsOK, Procs
  <2>3. AtHand'
    BY <1>31 DEF Played, Goto, TypeOK, AtHand, ReturnsOK, Procs, turnVars
  <2> QED
    BY <2>1, <2>2, <2>3
<1>32. CASE Customer
  BY <1>32 DEF Customer, TypeOK, ReturnsOK, AtHand, Procs, TurnLabels,
     ListenerLabels, Sessions, Tasks, NoTask, Kinds, Empty, turnVars,
     procVars, earVars, history
<1>33. ASSUME NEW f \in Requests, Tell(f) PROVE Facts'
  <2>1. TypeOK'
    BY <1>33 DEF Tell, TypeOK, AtHand, ReturnsOK, TurnLabels,
       ListenerLabels, Procs, turnVars, procVars, history, Publish,
       EventOf
  <2>2. ReturnsOK'
    BY <1>33 DEF Tell, TypeOK, ReturnsOK, Procs, procVars
  <2>3. AtHand'
    BY <1>33 DEF Tell, TypeOK, AtHand, ReturnsOK, Procs, procVars,
       turnVars
  <2> QED
    BY <2>1, <2>2, <2>3
<1> QED
  BY <1>1, <1>2, <1>3, <1>4, <1>5, <1>6, <1>7, <1>8, <1>9, <1>10, <1>11,
     <1>12, <1>13, <1>14, <1>15, <1>16, <1>17, <1>18, <1>19, <1>20, <1>21,
     <1>22, <1>23, <1>24, <1>25, <1>26, <1>27, <1>28, <1>29, <1>30, <1>31,
     <1>32, <1>33 DEF Next, Turn, Listener, Shared, Procs

(* After the hangup nobody is at work who could write the session.         *)
Quiet ==
  ended => session = Empty /\ pc["turn"] = "idle" /\ pc["listener"] = "off"

LEMMA QuietStep ==
  ASSUME Facts, Quiet, [Next]_vars
  PROVE  Quiet'
<1> USE DEF Facts
<1>1. CASE UNCHANGED vars
  BY <1>1 DEF vars, faceVars, Quiet, turnVars, procVars, earVars, history
<1>2. ASSUME NEW p \in Procs, ClearLoad(p) PROVE Quiet'
  BY <1>2 DEF ClearLoad, Goto, Procs, TypeOK, Quiet
<1>3. ASSUME NEW p \in Procs, ClearStore(p) PROVE Quiet'
  BY <1>3 DEF ClearStore, Goto, Store, Procs, TypeOK, Quiet
<1>4. ASSUME NEW p \in Procs, Resume(p) PROVE Quiet'
  BY <1>4 DEF Resume, Goto, Procs, TypeOK, Quiet
<1>5. ASSUME NEW p \in Procs, AppendLoad(p) PROVE Quiet'
  BY <1>5 DEF AppendLoad, Goto, Procs, TypeOK, Quiet
<1>6. ASSUME NEW p \in Procs, AppendStore(p) PROVE Quiet'
  BY <1>6 DEF AppendStore, Goto, Store, Procs, TypeOK, Quiet
<1>7. ASSUME NEW p \in Procs, TakePending(p) PROVE Quiet'
  BY <1>7 DEF TakePending, Goto, Procs, TypeOK, Quiet
<1>8. CASE Hear
  BY <1>8 DEF Hear, Goto, Procs, TypeOK, Quiet
<1>9. CASE Filler
  BY <1>9 DEF Filler, Procs, TypeOK, procVars, Quiet
<1>10. CASE Hangup
  BY <1>10 DEF Hangup, Procs, TypeOK, Quiet
<1>11. CASE RejectVoice
  BY <1>11 DEF RejectVoice, Goto, Procs, TypeOK, Quiet
<1>12. CASE Begin
  BY <1>12 DEF Begin, Goto, Procs, TypeOK, Quiet
<1>13. CASE ReadPending
  BY <1>13 DEF ReadPending, Goto, Procs, TypeOK, Quiet
<1>14. CASE Select
  BY <1>14 DEF Select, Goto, Procs, TypeOK, Quiet
<1>15. CASE GateLoad
  BY <1>15 DEF GateLoad, Goto, Procs, TypeOK, Quiet
<1>16. CASE GateStatus
  BY <1>16 DEF GateStatus, Goto, Procs, TypeOK, Quiet
<1>17. CASE OfferLoad
  BY <1>17 DEF OfferLoad, Goto, Procs, TypeOK, Quiet
<1>18. CASE OfferStore
  BY <1>18 DEF OfferStore, Goto, Store, Procs, TypeOK, Quiet
<1>19. CASE AuthLoad
  BY <1>19 DEF AuthLoad, Goto, Procs, TypeOK, Quiet
<1>20. CASE AuthStatus
  BY <1>20 DEF AuthStatus, Goto, Procs, TypeOK, Quiet
<1>21. CASE IssueAuth
  BY <1>21 DEF IssueAuth, Goto, Procs, TypeOK, Quiet
<1>22. CASE SetAuthLoad
  BY <1>22 DEF SetAuthLoad, Goto, Procs, TypeOK, Quiet
<1>23. CASE SetAuthStore
  BY <1>23 DEF SetAuthStore, Goto, Store, Procs, TypeOK, Quiet
<1>24. CASE GraphFails
  BY <1>24 DEF GraphFails, Goto, Procs, TypeOK, Quiet
<1>25. CASE Spawn
  BY <1>25 DEF Spawn, Procs, TypeOK, Quiet
<1>26. CASE Answer
  BY <1>26 DEF Answer, Goto, Procs, TypeOK, Quiet
<1>27. CASE EndTurn
  BY <1>27 DEF EndTurn, Goto, Procs, TypeOK, Quiet
<1>28. CASE Subscribe
  BY <1>28 DEF Subscribe, Goto, Procs, TypeOK, Quiet
<1>29. CASE TakeEvent
  BY <1>29 DEF TakeEvent, Goto, Procs, TypeOK, Quiet
<1>30. CASE Speak
  BY <1>30 DEF Speak, Goto, Procs, TypeOK, Quiet
<1>31. CASE Played
  BY <1>31 DEF Played, Goto, Procs, TypeOK, Quiet
<1>32. CASE Customer
  BY <1>32 DEF Customer, Procs, TypeOK, procVars, Quiet
<1>33. ASSUME NEW f \in Requests, Tell(f) PROVE Quiet'
  BY <1>33 DEF Tell, Publish, Quiet, procVars
<1> QED
  BY <1>1, <1>2, <1>3, <1>4, <1>5, <1>6, <1>7, <1>8, <1>9, <1>10, <1>11,
     <1>12, <1>13, <1>14, <1>15, <1>16, <1>17, <1>18, <1>19, <1>20, <1>21,
     <1>22, <1>23, <1>24, <1>25, <1>26, <1>27, <1>28, <1>29, <1>30, <1>31,
     <1>32, <1>33 DEF Next, Turn, Listener, Shared, Procs

(* Whoever leaves the places that hold is_speaking releases it.            *)
LEMMA HolderStep ==
  ASSUME Facts, LockHasHolder, [Next]_vars
  PROVE  LockHasHolder'
<1> USE DEF Facts
<1>1. CASE UNCHANGED vars
  BY <1>1 DEF vars, faceVars, LockHasHolder, ReturnsOK, turnVars, procVars,
     earVars, history
<1>2. ASSUME NEW p \in Procs, ClearLoad(p) PROVE LockHasHolder'
  BY <1>2 DEF ClearLoad, Goto, Procs, TypeOK, LockHasHolder, ReturnsOK
<1>3. ASSUME NEW p \in Procs, ClearStore(p) PROVE LockHasHolder'
  BY <1>3 DEF ClearStore, Goto, Store, Procs, TypeOK, LockHasHolder,
     ReturnsOK
<1>4. ASSUME NEW p \in Procs, Resume(p) PROVE LockHasHolder'
  BY <1>4 DEF Resume, Goto, Procs, TypeOK, LockHasHolder, ReturnsOK
<1>5. ASSUME NEW p \in Procs, AppendLoad(p) PROVE LockHasHolder'
  BY <1>5 DEF AppendLoad, Goto, Procs, TypeOK, LockHasHolder, ReturnsOK
<1>6. ASSUME NEW p \in Procs, AppendStore(p) PROVE LockHasHolder'
  BY <1>6 DEF AppendStore, Goto, Store, Procs, TypeOK, LockHasHolder,
     ReturnsOK
<1>7. ASSUME NEW p \in Procs, TakePending(p) PROVE LockHasHolder'
  BY <1>7 DEF TakePending, Goto, Procs, TypeOK, LockHasHolder, ReturnsOK
<1>8. CASE Hear
  BY <1>8 DEF Hear, Goto, Procs, TypeOK, LockHasHolder, ReturnsOK
<1>9. CASE Filler
  BY <1>9 DEF Filler, Procs, TypeOK, procVars, LockHasHolder, ReturnsOK
<1>10. CASE Hangup
  BY <1>10 DEF Hangup, Procs, TypeOK, LockHasHolder, ReturnsOK
<1>11. CASE RejectVoice
  BY <1>11 DEF RejectVoice, Goto, Procs, TypeOK, LockHasHolder, ReturnsOK
<1>12. CASE Begin
  BY <1>12 DEF Begin, Goto, Procs, TypeOK, LockHasHolder, ReturnsOK
<1>13. CASE ReadPending
  BY <1>13 DEF ReadPending, Goto, Procs, TypeOK, LockHasHolder, ReturnsOK
<1>14. CASE Select
  BY <1>14 DEF Select, Goto, Procs, TypeOK, LockHasHolder, ReturnsOK
<1>15. CASE GateLoad
  BY <1>15 DEF GateLoad, Goto, Procs, TypeOK, LockHasHolder, ReturnsOK
<1>16. CASE GateStatus
  BY <1>16 DEF GateStatus, Goto, Procs, TypeOK, LockHasHolder, ReturnsOK
<1>17. CASE OfferLoad
  BY <1>17 DEF OfferLoad, Goto, Procs, TypeOK, LockHasHolder, ReturnsOK
<1>18. CASE OfferStore
  BY <1>18 DEF OfferStore, Goto, Store, Procs, TypeOK, LockHasHolder,
     ReturnsOK
<1>19. CASE AuthLoad
  BY <1>19 DEF AuthLoad, Goto, Procs, TypeOK, LockHasHolder, ReturnsOK
<1>20. CASE AuthStatus
  BY <1>20 DEF AuthStatus, Goto, Procs, TypeOK, LockHasHolder, ReturnsOK
<1>21. CASE IssueAuth
  BY <1>21 DEF IssueAuth, Goto, Procs, TypeOK, LockHasHolder, ReturnsOK
<1>22. CASE SetAuthLoad
  BY <1>22 DEF SetAuthLoad, Goto, Procs, TypeOK, LockHasHolder, ReturnsOK
<1>23. CASE SetAuthStore
  BY <1>23 DEF SetAuthStore, Goto, Store, Procs, TypeOK, LockHasHolder,
     ReturnsOK
<1>24. CASE GraphFails
  BY <1>24 DEF GraphFails, Goto, Procs, TypeOK, LockHasHolder, ReturnsOK
<1>25. CASE Spawn
  BY <1>25 DEF Spawn, Procs, TypeOK, LockHasHolder, ReturnsOK
<1>26. CASE Answer
  BY <1>26 DEF Answer, Goto, Procs, TypeOK, LockHasHolder, ReturnsOK
<1>27. CASE EndTurn
  BY <1>27 DEF EndTurn, Goto, Procs, TypeOK, LockHasHolder, ReturnsOK
<1>28. CASE Subscribe
  BY <1>28 DEF Subscribe, Goto, Procs, TypeOK, LockHasHolder, ReturnsOK
<1>29. CASE TakeEvent
  BY <1>29 DEF TakeEvent, Goto, Procs, TypeOK, LockHasHolder, ReturnsOK
<1>30. CASE Speak
  BY <1>30 DEF Speak, Goto, Procs, TypeOK, LockHasHolder, ReturnsOK
<1>31. CASE Played
  BY <1>31 DEF Played, Goto, Procs, TypeOK, LockHasHolder, ReturnsOK
<1>32. CASE Customer
  BY <1>32 DEF Customer, Procs, TypeOK, procVars, LockHasHolder, ReturnsOK
<1>33. ASSUME NEW f \in Requests, Tell(f) PROVE LockHasHolder'
  BY <1>33 DEF Tell, Publish, LockHasHolder, ReturnsOK, procVars
<1> QED
  BY <1>1, <1>2, <1>3, <1>4, <1>5, <1>6, <1>7, <1>8, <1>9, <1>10, <1>11,
     <1>12, <1>13, <1>14, <1>15, <1>16, <1>17, <1>18, <1>19, <1>20, <1>21,
     <1>22, <1>23, <1>24, <1>25, <1>26, <1>27, <1>28, <1>29, <1>30, <1>31,
     <1>32, <1>33 DEF Next, Turn, Listener, Shared, Procs

(* A view that will be stored holds no auth_id without a link.             *)
LinkedViews ==
  /\ session.auth \in linked \cup {NoAuth}
  /\ \A p \in Procs :
       pc[p] \in {"clearing", "appending", "offering", "setAuth", "settingAuth"}
         => view[p].auth \in linked \cup {NoAuth}

LEMMA LinkedStep ==
  ASSUME Facts, LinkedViews, [Next]_vars
  PROVE  LinkedViews'
<1> USE DEF Facts
<1>1. CASE UNCHANGED vars
  BY <1>1 DEF vars, faceVars, LinkedViews, ReturnsOK, Sessions, Empty,
     turnVars, procVars, earVars, history
<1>2. ASSUME NEW p \in Procs, ClearLoad(p) PROVE LinkedViews'
  BY <1>2 DEF ClearLoad, Goto, Procs, TypeOK, faceVars, LinkedViews,
     ReturnsOK, Sessions, Empty
<1>3. ASSUME NEW p \in Procs, ClearStore(p) PROVE LinkedViews'
  BY <1>3 DEF ClearStore, Goto, Store, Procs, TypeOK, faceVars, LinkedViews,
     ReturnsOK, Sessions, Empty
<1>4. ASSUME NEW p \in Procs, Resume(p) PROVE LinkedViews'
  BY <1>4 DEF Resume, Goto, Procs, TypeOK, faceVars, LinkedViews, ReturnsOK,
     Sessions, Empty
<1>5. ASSUME NEW p \in Procs, AppendLoad(p) PROVE LinkedViews'
  BY <1>5 DEF AppendLoad, Goto, Procs, TypeOK, faceVars, LinkedViews,
     ReturnsOK, Sessions, Empty
<1>6. ASSUME NEW p \in Procs, AppendStore(p) PROVE LinkedViews'
  BY <1>6 DEF AppendStore, Goto, Store, Procs, TypeOK, faceVars,
     LinkedViews, ReturnsOK, Sessions, Empty
<1>7. ASSUME NEW p \in Procs, TakePending(p) PROVE LinkedViews'
  BY <1>7 DEF TakePending, Goto, Procs, TypeOK, faceVars, LinkedViews,
     ReturnsOK, Sessions, Empty
<1>8. CASE Hear
  BY <1>8 DEF Hear, Goto, Procs, TypeOK, faceVars, LinkedViews, ReturnsOK,
     Sessions, Empty
<1>9. CASE Filler
  BY <1>9 DEF Filler, Procs, TypeOK, procVars, faceVars, LinkedViews,
     ReturnsOK, Sessions, Empty
<1>10. CASE Hangup
  BY <1>10 DEF Hangup, Procs, TypeOK, faceVars, LinkedViews, ReturnsOK,
     Sessions, Empty
<1>11. CASE RejectVoice
  BY <1>11 DEF RejectVoice, Goto, Procs, TypeOK, faceVars, LinkedViews,
     ReturnsOK, Sessions, Empty
<1>12. CASE Begin
  BY <1>12 DEF Begin, Goto, Procs, TypeOK, faceVars, LinkedViews, ReturnsOK,
     Sessions, Empty
<1>13. CASE ReadPending
  BY <1>13 DEF ReadPending, Goto, Procs, TypeOK, faceVars, LinkedViews,
     ReturnsOK, Sessions, Empty
<1>14. CASE Select
  BY <1>14 DEF Select, Goto, Procs, TypeOK, faceVars, LinkedViews,
     ReturnsOK, Sessions, Empty
<1>15. CASE GateLoad
  BY <1>15 DEF GateLoad, Goto, Procs, TypeOK, faceVars, LinkedViews,
     ReturnsOK, Sessions, Empty
<1>16. CASE GateStatus
  BY <1>16 DEF GateStatus, Goto, Procs, TypeOK, faceVars, LinkedViews,
     ReturnsOK, Sessions, Empty
<1>17. CASE OfferLoad
  BY <1>17 DEF OfferLoad, Goto, Procs, TypeOK, faceVars, LinkedViews,
     ReturnsOK, Sessions, Empty
<1>18. CASE OfferStore
  BY <1>18 DEF OfferStore, Goto, Store, Procs, TypeOK, faceVars,
     LinkedViews, ReturnsOK, Sessions, Empty
<1>19. CASE AuthLoad
  BY <1>19 DEF AuthLoad, Goto, Procs, TypeOK, faceVars, LinkedViews,
     ReturnsOK, Sessions, Empty
<1>20. CASE AuthStatus
  BY <1>20 DEF AuthStatus, Goto, Procs, TypeOK, faceVars, LinkedViews,
     ReturnsOK, Sessions, Empty
<1>21. CASE IssueAuth
  <2>1. PICK a \in Auths, sent \in BOOLEAN :
          /\ Issue(a, sent)
          /\ view' = [view EXCEPT !["turn"].auth = a]
          /\ Goto("turn", IF sent THEN "setAuth" ELSE "append")
    BY <1>21 DEF IssueAuth
  <2>2. linked \subseteq linked' /\ (sent => a \in linked')
    BY <2>1 DEF Issue
  <2>3. session' = session /\ view'["listener"] = view["listener"]
        /\ (sent => view'["turn"].auth = a)
    BY <1>21, <2>1 DEF IssueAuth, TypeOK, Sessions, Procs
  <2>4. pc'["listener"] = pc["listener"] /\ pc'["turn"] = IF sent THEN "setAuth" ELSE "append"
    BY <2>1 DEF Goto, TypeOK, Procs
  <2> QED
    BY <2>2, <2>3, <2>4 DEF LinkedViews, Procs
<1>22. CASE SetAuthLoad
  BY <1>22 DEF SetAuthLoad, Goto, Procs, TypeOK, faceVars, LinkedViews,
     ReturnsOK, Sessions, Empty
<1>23. CASE SetAuthStore
  BY <1>23 DEF SetAuthStore, Goto, Store, Procs, TypeOK, faceVars,
     LinkedViews, ReturnsOK, Sessions, Empty
<1>24. CASE GraphFails
  BY <1>24 DEF GraphFails, Goto, Procs, TypeOK, faceVars, LinkedViews,
     ReturnsOK, Sessions, Empty
<1>25. CASE Spawn
  BY <1>25 DEF Spawn, Procs, TypeOK, faceVars, LinkedViews, ReturnsOK,
     Sessions, Empty
<1>26. CASE Answer
  BY <1>26 DEF Answer, Goto, Procs, TypeOK, faceVars, LinkedViews,
     ReturnsOK, Sessions, Empty
<1>27. CASE EndTurn
  BY <1>27 DEF EndTurn, Goto, Procs, TypeOK, faceVars, LinkedViews,
     ReturnsOK, Sessions, Empty
<1>28. CASE Subscribe
  BY <1>28 DEF Subscribe, Goto, Procs, TypeOK, faceVars, LinkedViews,
     ReturnsOK, Sessions, Empty
<1>29. CASE TakeEvent
  BY <1>29 DEF TakeEvent, Goto, Procs, TypeOK, faceVars, LinkedViews,
     ReturnsOK, Sessions, Empty
<1>30. CASE Speak
  BY <1>30 DEF Speak, Goto, Procs, TypeOK, faceVars, LinkedViews, ReturnsOK,
     Sessions, Empty
<1>31. CASE Played
  BY <1>31 DEF Played, Goto, Procs, TypeOK, faceVars, LinkedViews,
     ReturnsOK, Sessions, Empty
<1>32. CASE Customer
  <2>1. linked' = linked
    BY <1>32 DEF Customer, Check, Count, Compare, Expire
  <2> QED
    BY <1>32, <2>1 DEF Customer, LinkedViews, procVars
<1>33. ASSUME NEW f \in Requests, Tell(f) PROVE LinkedViews'
  BY <1>33 DEF Tell, Publish, LinkedViews, ReturnsOK, Sessions, Empty,
     procVars
<1> QED
  BY <1>1, <1>2, <1>3, <1>4, <1>5, <1>6, <1>7, <1>8, <1>9, <1>10, <1>11,
     <1>12, <1>13, <1>14, <1>15, <1>16, <1>17, <1>18, <1>19, <1>20, <1>21,
     <1>22, <1>23, <1>24, <1>25, <1>26, <1>27, <1>28, <1>29, <1>30, <1>31,
     <1>32, <1>33 DEF Next, Turn, Listener, Shared, Procs

(* While no face has matched, nothing says verified, and only bookings are  *)
(* carried out or about to be.                                             *)
SomeMatch == \E f \in Requests : req[f].result = "match"

Clean ==
  /\ \A t \in Tasks : t.kind = "protected" => runs[t] = 0
  /\ \A i \in 1..Len(inbox) : inbox[i] # "verified"
  /\ \A p \in Procs : pc[p] # "verified"
  /\ \A p \in Procs : pc[p] \in {"clear", "clearing", "resume"} => task[p].kind = "booking"

LEMMA MatchStays == ASSUME FaceInv, [FaceNext]_faceVars, SomeMatch PROVE SomeMatch'
<1>1. PICK f \in Requests : req[f].result = "match"
  BY DEF SomeMatch
<1>2. req[f].pc \notin {"idle", "compare"}
  BY <1>1 DEF FaceInv, RequestsOK
<1>3. req'[f].result = "match"
  <2> USE DEF FaceInv, FaceTypeOK, RequestRecords
  <2>1. CASE UNCHANGED faceVars
    BY <1>1, <2>1 DEF faceVars
  <2>2. ASSUME NEW a \in Auths, NEW sent \in BOOLEAN, Issue(a, sent) \/ Expire(a)
        PROVE  req'[f].result = "match"
    BY <1>1, <2>2 DEF Issue, Expire
  <2>3. ASSUME NEW a \in Auths, NEW g \in Requests, Check(g, a) PROVE req'[f].result = "match"
    BY <1>1, <1>2, <2>3 DEF Check
  <2>4. ASSUME NEW g \in Requests, Count(g) \/ Publish(g) PROVE req'[f].result = "match"
    BY <1>1, <1>2, <2>4 DEF Count, Publish
  <2>5. ASSUME NEW g \in Requests, NEW m \in BOOLEAN, Compare(g, m) PROVE req'[f].result = "match"
    BY <1>1, <1>2, <2>5 DEF Compare
  <2> QED
    BY <2>1, <2>2, <2>3, <2>4, <2>5 DEF FaceNext
<1> QED
  BY <1>1, <1>3 DEF SomeMatch

LEMMA CleanStep ==
  ASSUME Facts, FaceInv, ~SomeMatch, Clean, [Next]_vars
  PROVE  Clean'
<1> USE DEF Facts
<1>1. CASE UNCHANGED vars
  BY <1>1 DEF vars, faceVars, Clean, Tasks, NoTask, ReturnsOK, turnVars,
     procVars, earVars, history
<1>2. ASSUME NEW p \in Procs, ClearLoad(p) PROVE Clean'
  BY <1>2 DEF ClearLoad, Goto, Procs, TypeOK, earVars, history, Clean,
     Tasks, NoTask, ReturnsOK
<1>3. ASSUME NEW p \in Procs, ClearStore(p) PROVE Clean'
  BY <1>3 DEF ClearStore, Goto, Store, Procs, TypeOK, earVars, history,
     Clean, Tasks, NoTask, ReturnsOK
<1>4. ASSUME NEW p \in Procs, Resume(p) PROVE Clean'
  BY <1>4 DEF Resume, Goto, Procs, TypeOK, earVars, Clean, Tasks, NoTask,
     ReturnsOK
<1>5. ASSUME NEW p \in Procs, AppendLoad(p) PROVE Clean'
  BY <1>5 DEF AppendLoad, Goto, Procs, TypeOK, earVars, history, Clean,
     Tasks, NoTask, ReturnsOK
<1>6. ASSUME NEW p \in Procs, AppendStore(p) PROVE Clean'
  BY <1>6 DEF AppendStore, Goto, Store, Procs, TypeOK, earVars, history,
     Clean, Tasks, NoTask, ReturnsOK
<1>7. ASSUME NEW p \in Procs, TakePending(p) PROVE Clean'
  BY <1>7 DEF TakePending, Goto, Procs, TypeOK, earVars, history, Clean,
     Tasks, NoTask, ReturnsOK
<1>8. CASE Hear
  BY <1>8 DEF Hear, Goto, Procs, TypeOK, earVars, history, Clean, Tasks,
     NoTask, ReturnsOK
<1>9. CASE Filler
  BY <1>9 DEF Filler, Procs, TypeOK, procVars, earVars, history, Clean,
     Tasks, NoTask, ReturnsOK
<1>10. CASE Hangup
  BY <1>10 DEF Hangup, Procs, TypeOK, earVars, history, Clean, Tasks,
     NoTask, ReturnsOK
<1>11. CASE RejectVoice
  BY <1>11 DEF RejectVoice, Goto, Procs, TypeOK, earVars, history, Clean,
     Tasks, NoTask, ReturnsOK
<1>12. CASE Begin
  BY <1>12 DEF Begin, Goto, Procs, TypeOK, earVars, history, Clean, Tasks,
     NoTask, ReturnsOK
<1>13. CASE ReadPending
  BY <1>13 DEF ReadPending, Goto, Procs, TypeOK, earVars, Clean, Tasks,
     NoTask, ReturnsOK
<1>14. CASE Select
  BY <1>14 DEF Select, Goto, Procs, TypeOK, earVars, history, Clean, Tasks,
     NoTask, ReturnsOK
<1>15. CASE GateLoad
  BY <1>15 DEF GateLoad, Goto, Procs, TypeOK, earVars, history, Clean,
     Tasks, NoTask, ReturnsOK
<1>16. CASE GateStatus
  <2>1. auth[view["turn"].auth].status # "verified"
    BY <1>16 DEF GateStatus, AtHand, FaceInv, VerifiedMeansMatched,
       Matched, SomeMatch
  <2> QED
    BY <1>16, <2>1 DEF GateStatus, Goto, Procs, TypeOK, Clean, earVars
<1>17. CASE OfferLoad
  BY <1>17 DEF OfferLoad, Goto, Procs, TypeOK, earVars, history, Clean,
     Tasks, NoTask, ReturnsOK
<1>18. CASE OfferStore
  BY <1>18 DEF OfferStore, Goto, Store, Procs, TypeOK, earVars, history,
     Clean, Tasks, NoTask, ReturnsOK
<1>19. CASE AuthLoad
  BY <1>19 DEF AuthLoad, Goto, Procs, TypeOK, earVars, history, Clean,
     Tasks, NoTask, ReturnsOK
<1>20. CASE AuthStatus
  <2>1. auth[view["turn"].auth].status # "verified"
    BY <1>20 DEF AuthStatus, AtHand, FaceInv, VerifiedMeansMatched,
       Matched, SomeMatch
  <2> QED
    BY <1>20, <2>1 DEF AuthStatus, Goto, Procs, TypeOK, Clean, earVars,
       history
<1>21. CASE IssueAuth
  BY <1>21 DEF IssueAuth, Goto, Procs, TypeOK, earVars, history, Clean,
     Tasks, NoTask, ReturnsOK
<1>22. CASE SetAuthLoad
  BY <1>22 DEF SetAuthLoad, Goto, Procs, TypeOK, earVars, history, Clean,
     Tasks, NoTask, ReturnsOK
<1>23. CASE SetAuthStore
  BY <1>23 DEF SetAuthStore, Goto, Store, Procs, TypeOK, earVars, history,
     Clean, Tasks, NoTask, ReturnsOK
<1>24. CASE GraphFails
  BY <1>24 DEF GraphFails, Goto, Procs, TypeOK, earVars, history, Clean,
     Tasks, NoTask, ReturnsOK
<1>25. CASE Spawn
  BY <1>25 DEF Spawn, Procs, TypeOK, history, Clean, Tasks, NoTask,
     ReturnsOK
<1>26. CASE Answer
  BY <1>26 DEF Answer, Goto, Procs, TypeOK, earVars, history, Clean, Tasks,
     NoTask, ReturnsOK
<1>27. CASE EndTurn
  BY <1>27 DEF EndTurn, Goto, Procs, TypeOK, earVars, history, Clean, Tasks,
     NoTask, ReturnsOK
<1>28. CASE Subscribe
  BY <1>28 DEF Subscribe, Goto, Procs, TypeOK, earVars, history, Clean,
     Tasks, NoTask, ReturnsOK
<1>29. CASE TakeEvent
  <2>1. Head(inbox) # "verified" /\ \A i \in 1..Len(Tail(inbox)) : Tail(inbox)[i] # "verified"
    BY <1>29 DEF TakeEvent, Clean, TypeOK
  <2> QED
    BY <1>29, <2>1 DEF TakeEvent, Goto, Procs, TypeOK, Clean, history
<1>30. CASE Speak
  BY <1>30 DEF Speak, Goto, Procs, TypeOK, earVars, history, Clean, Tasks,
     NoTask, ReturnsOK
<1>31. CASE Played
  BY <1>31 DEF Played, Goto, Procs, TypeOK, earVars, history, Clean, Tasks,
     NoTask, ReturnsOK
<1>32. CASE Customer
  BY <1>32 DEF Customer, Procs, TypeOK, procVars, earVars, history, Clean,
     Tasks, NoTask, ReturnsOK
<1>33. ASSUME NEW f \in Requests, Tell(f) PROVE Clean'
  <2>1. EventOf(f) # "verified"
    BY DEF EventOf, SomeMatch
  <2>2. \A i \in 1..Len(inbox') : inbox'[i] # "verified"
    BY <1>33, <2>1 DEF Tell, Clean, TypeOK
  <2> QED
    BY <1>33, <2>2 DEF Tell, Clean, procVars, history
<1> QED
  BY <1>1, <1>2, <1>3, <1>4, <1>5, <1>6, <1>7, <1>8, <1>9, <1>10, <1>11,
     <1>12, <1>13, <1>14, <1>15, <1>16, <1>17, <1>18, <1>19, <1>20, <1>21,
     <1>22, <1>23, <1>24, <1>25, <1>26, <1>27, <1>28, <1>29, <1>30, <1>31,
     <1>32, <1>33 DEF Next, Turn, Listener, Shared, Procs

-----------------------------------------------------------------------------
CallInv ==
  /\ Facts /\ FaceInv /\ Quiet /\ LockHasHolder /\ LinkedViews
  /\ SomeMatch \/ Clean

LEMMA CallInit == Init => CallInv
<1> SUFFICES ASSUME Init PROVE CallInv
  OBVIOUS
<1> USE FaceAuthConstantsOK, ConversationConstantsOK DEF Init
<1>1. FaceInv
  BY FaceInitInv
<1>2. TypeOK
  <2>1. Empty \in Sessions
    BY DEF Empty, Sessions
  <2>2. /\ pc \in [Procs -> TurnLabels \cup ListenerLabels]
        /\ pc["turn"] \in TurnLabels /\ pc["listener"] \in ListenerLabels
        /\ after \in [Procs -> TurnLabels \cup ListenerLabels]
    BY DEF TurnLabels, ListenerLabels, Procs
  <2>3. session \in Sessions /\ view \in [Procs -> Sessions]
    BY <2>1
  <2>4. inbox \in Seq({"verified", "blocked", "face_failed"}) /\ turns \in 0..MaxTurns
    OBVIOUS
  <2>5. task \in [Procs -> Tasks \cup {NoTask}] /\ runs \in [Tasks -> Nat]
    OBVIOUS
  <2> QED
    BY <1>1, <2>2, <2>3, <2>4, <2>5 DEF FaceInv, TypeOK
<1>3. ReturnsOK /\ AtHand
  BY DEF ReturnsOK, AtHand, Procs
<1>4. Quiet /\ LockHasHolder
  BY DEF Quiet, LockHasHolder
<1>5. LinkedViews
  BY DEF LinkedViews, Procs, Empty
<1>6. Clean
  BY DEF Clean, Procs
<1> QED
  BY <1>1, <1>2, <1>3, <1>4, <1>5, <1>6 DEF CallInv, Facts

LEMMA CallStep == CallInv /\ [Next]_vars => CallInv'
<1> SUFFICES ASSUME CallInv, [Next]_vars PROVE CallInv'
  OBVIOUS
<1>1. FaceInv' /\ FaceTypeOK'
  BY FaceStep, FaceStepInv DEF CallInv, FaceInv
<1>2. Facts'
  BY <1>1, FactsStep DEF CallInv
<1>3. Quiet' /\ LockHasHolder' /\ LinkedViews'
  BY QuietStep, HolderStep, LinkedStep DEF CallInv
<1>4. SomeMatch' \/ Clean'
  BY FaceStep, MatchStays, CleanStep DEF CallInv
<1> QED
  BY <1>1, <1>2, <1>3, <1>4 DEF CallInv

(* Everything above holds in every state of every call.                    *)
THEOREM CallInvariant == Spec => []CallInv
<1> QED
  BY CallInit, CallStep, PTL DEF Spec

(* Every variable stays within its range.                                  *)
THEOREM CallTypes == Spec => []TypeOK
<1>1. CallInv => TypeOK
  BY DEF CallInv, Facts
<1> QED
  BY <1>1, CallInvariant, PTL

(* A tool that requires_auth is carried out only after a face matched: the *)
(* gate of task_branch, auth_branch and the listener agree on that however *)
(* events are late, lost or queued and records expire and come back.       *)
THEOREM FaceBeforeProtected == Spec => []ProtectedNeedsFace
<1>1. CallInv => ProtectedNeedsFace
  <2> SUFFICES ASSUME CallInv, NEW t \in Tasks, t.kind = "protected", runs[t] > 0
               PROVE  SomeMatch
    BY DEF ProtectedNeedsFace, SomeMatch
  <2>1. runs[t] \in Nat
    BY DEF CallInv, Facts, TypeOK
  <2> QED
    BY <2>1 DEF CallInv, Clean
<1> QED
  BY <1>1, CallInvariant, PTL

(* No step after the hangup writes the session again.                      *)
THEOREM ClearedForGood == Spec => []SessionStaysCleared
<1>1. CallInv => SessionStaysCleared
  BY DEF CallInv, Quiet, SessionStaysCleared
<1> QED
  BY <1>1, CallInvariant, PTL

(* The call never goes deaf: is_speaking is set only while the turn or the *)
(* listener is at a place from which it releases it.                       *)
THEOREM LockHeld == Spec => []LockHasHolder
<1>1. CallInv => LockHasHolder
  BY DEF CallInv
<1> QED
  BY <1>1, CallInvariant, PTL

(* No lost update brings back an auth_id without a link.                   *)
THEOREM LinkBeforeAuthId == Spec => []AuthIdHasLink
<1>1. CallInv => AuthIdHasLink
  BY DEF CallInv, LinkedViews, AuthIdHasLink
<1> QED
  BY <1>1, CallInvariant, PTL

-----------------------------------------------------------------------------
(* Where a turn decides what to carry out.                                 *)
Deciding ==
  {"pending", "clear", "clearing", "resume", "select", "gate", "gateStatus", "offer",
   "offering", "getAuth", "authStatus", "verified", "issue", "setAuth", "settingAuth"}

(* As long as the listener was never spawned, the turns own the session:   *)
(* what was carried out is not pending, and what a turn is about to carry  *)
(* out was not carried out before.                                         *)
TurnsAlone ==
  lauth = NoAuth =>
    /\ pc["listener"] = "off"
    /\ session.pending.turn <= turns
    /\ \A t \in Tasks : runs[t] > 0 => runs[t] = 1 /\ t.turn <= turns /\ t # session.pending
    /\ pc["turn"] \in Deciding =>
         /\ session.pending.turn < turns
         /\ \A t \in Tasks : runs[t] > 0 => t.turn < turns
    /\ pc["turn"] \in {"gate", "gateStatus", "offer", "offering"} => task["turn"].turn = turns
    /\ pc["turn"] \in {"clear", "clearing", "resume"} =>
         runs[task["turn"]] = 0 /\ task["turn"].turn <= turns
    /\ pc["turn"] = "resume" => session.pending = NoTask
    /\ pc["turn"] \in {"appending", "settingAuth"} => view["turn"].pending = session.pending

(* The turns alone keep the session in step with what they carried out.    *)
LEMMA TurnsAloneStep ==
  ASSUME Facts, TurnsAlone, [Next]_vars
  PROVE  TurnsAlone'
<1> SUFFICES ASSUME lauth' = NoAuth PROVE TurnsAlone'
  BY DEF TurnsAlone
<1> USE FaceAuthConstantsOK, ConversationConstantsOK
    DEF Facts, TypeOK, Procs, Sessions, Tasks, NoTask, turnVars, procVars, earVars, history
<1>0. lauth = NoAuth /\ pc["listener"] = "off"
  <2>1. CASE lauth = NoAuth
    BY <2>1 DEF TurnsAlone
  <2>2. CASE lauth # NoAuth
    <3>1. lauth' = lauth \/ (lauth' = session.auth /\ session.auth # NoAuth)
      <4>1. CASE Spawn
        BY <4>1 DEF Spawn
      <4>2. CASE ~Spawn
        BY <4>2 DEF Next, Turn, Listener, Shared, vars,
           ClearLoad, ClearStore, Resume, AppendLoad, AppendStore, TakePending, Hear, Filler, Hangup,
           RejectVoice, Begin, ReadPending, Select, GateLoad, GateStatus, OfferLoad, OfferStore, AuthLoad,
           AuthStatus, IssueAuth, SetAuthLoad, SetAuthStore, GraphFails, Answer, EndTurn, Subscribe,
           TakeEvent, Speak, Played, Customer, Tell
      <4> QED
        BY <4>1, <4>2
    <3> QED
      BY <2>2, <3>1
  <2> QED
    BY <2>1, <2>2
<1>a. /\ \A t \in Tasks : runs[t] \in Nat /\ t.turn \in Nat /\ t # NoTask
      /\ session.pending \in Tasks \cup {NoTask} /\ NoTask.turn = 0 /\ turns \in Nat
  <2>1. \A t \in Tasks : t.turn \in Nat /\ t.turn # 0
    OBVIOUS
  <2>2. NoTask.turn = 0
    OBVIOUS
  <2>3. \A t \in Tasks : runs[t] \in Nat
    OBVIOUS
  <2>4. session.pending \in Tasks \cup {NoTask} /\ turns \in Nat
    OBVIOUS
  <2> HIDE DEF Tasks, NoTask, Sessions, TypeOK
  <2> QED
    BY <2>1, <2>2, <2>3, <2>4
<1>1. CASE UNCHANGED vars
  BY <1>0, <1>1 DEF vars, TurnsAlone, Deciding
<1>2. CASE ClearLoad("turn")
  BY <1>0, <1>2 DEF ClearLoad, Goto, TurnsAlone, Deciding, ReturnsOK, AtHand
<1>3. CASE ClearStore("turn")
  BY <1>0, <1>3 DEF ClearStore, Goto, Store, TurnsAlone, Deciding, ReturnsOK, AtHand
<1>4. CASE Resume("turn")
  <2>1. /\ task["turn"] \in Tasks /\ runs[task["turn"]] = 0
        /\ task["turn"].turn <= turns /\ session.pending = NoTask
    <3> HIDE DEF Tasks, NoTask, Sessions
    <3>1. task["turn"] \in Tasks /\ pc["turn"] = "resume"
      BY <1>4 DEF Resume, AtHand
    <3>2. runs[task["turn"]] = 0 /\ task["turn"].turn <= turns /\ session.pending = NoTask
      BY <1>0, <3>1 DEF TurnsAlone
    <3> QED
      BY <3>1, <3>2
  <2>2. runs' = [runs EXCEPT ![task["turn"]] = 1] \/ runs' = runs
    BY <1>4, <2>1 DEF Resume
  <2>3. pc' = [pc EXCEPT !["turn"] = "append"] /\ UNCHANGED <<session, turns, task, view>>
    BY <1>4 DEF Resume, Goto
  <2> HIDE DEF Tasks, NoTask, Sessions
  <2> QED
    BY SMTT(30), <1>0, <1>a, <2>1, <2>2, <2>3 DEF TurnsAlone, Deciding
<1>5. CASE AppendLoad("turn")
  BY <1>0, <1>5 DEF AppendLoad, Goto, TurnsAlone, Deciding, ReturnsOK, AtHand
<1>6. CASE AppendStore("turn")
  BY <1>0, <1>6 DEF AppendStore, Goto, Store, TurnsAlone, Deciding, ReturnsOK, AtHand
<1>7. CASE TakePending("turn")
  <2> HIDE DEF Tasks, NoTask, Sessions
  <2>1. /\ pc["turn"] = "verified" /\ task'["turn"] = session.pending
        /\ pc' = [pc EXCEPT !["turn"] = IF session.pending # NoTask THEN "clear" ELSE "append"]
        /\ UNCHANGED <<session, turns, view, runs>>
    BY <1>7 DEF TakePending, Goto
  <2>2. session.pending # NoTask => runs[session.pending] = 0 /\ session.pending.turn < turns
    BY <1>0, <1>a, <2>1 DEF TurnsAlone, Deciding
  <2> QED
    BY <1>0, <1>a, <2>1, <2>2 DEF TurnsAlone, Deciding
<1>8. CASE Hear
  BY <1>0, <1>8 DEF Hear, Goto, TurnsAlone, Deciding, ReturnsOK, AtHand
<1>9. CASE Filler
  BY <1>0, <1>9 DEF Filler, TurnsAlone, Deciding, ReturnsOK, AtHand
<1>10. CASE Hangup
  BY <1>0, <1>10 DEF Hangup, Empty, TurnsAlone, Deciding, ReturnsOK, AtHand
<1>11. CASE RejectVoice
  BY <1>0, <1>11 DEF RejectVoice, Goto, TurnsAlone, Deciding, ReturnsOK, AtHand
<1>12. CASE Begin
  BY SMTT(30), <1>0, <1>12 DEF Begin, Goto, TurnsAlone, Deciding, ReturnsOK, AtHand
<1>13. CASE ReadPending
  <2> HIDE DEF Tasks, NoTask, Sessions
  <2>1. /\ pc["turn"] = "pending" /\ task'["turn"] = session.pending
        /\ UNCHANGED <<session, turns, view, runs>>
    BY <1>13 DEF ReadPending
  <2>2. session.pending # NoTask => runs[session.pending] = 0 /\ session.pending.turn < turns
    BY <1>0, <1>a, <2>1 DEF TurnsAlone, Deciding
  <2>3. \/ pc' = [pc EXCEPT !["turn"] = "select"]
        \/ pc' = [pc EXCEPT !["turn"] = "clear"] /\ session.pending # NoTask
    BY <1>13 DEF ReadPending, Goto, NoTask
  <2> QED
    BY <1>0, <1>a, <2>1, <2>2, <2>3 DEF TurnsAlone, Deciding
<1>14. CASE Select
  BY <1>0, <1>14 DEF Select, Goto, TurnsAlone, Deciding, ReturnsOK, AtHand
<1>15. CASE GateLoad
  BY <1>0, <1>15 DEF GateLoad, Goto, TurnsAlone, Deciding, ReturnsOK, AtHand
<1>16. CASE GateStatus
  <2> HIDE DEF Tasks, NoTask, Sessions
  <2>1. pc["turn"] = "gateStatus" /\ task["turn"] \in Tasks
    BY <1>16 DEF GateStatus, AtHand
  <2>2. task["turn"].turn = turns /\ session.pending.turn < turns
    BY <1>0, <2>1 DEF TurnsAlone, Deciding
  <2>3. runs[task["turn"]] = 0
    BY <1>0, <1>a, <2>1, <2>2 DEF TurnsAlone, Deciding
  <2>4. runs' = [runs EXCEPT ![task["turn"]] = 1] \/ runs' = runs
    BY <1>16, <2>3 DEF GateStatus
  <2>5. /\ pc'["turn"] \in {"append", "offer"} /\ pc'["listener"] = pc["listener"]
        /\ UNCHANGED <<session, turns, task, view>>
        /\ pc'["turn"] = "offer" => runs' = runs
    BY <1>16 DEF GateStatus, Goto
  <2> QED
    BY <1>0, <1>a, <2>1, <2>2, <2>3, <2>4, <2>5 DEF TurnsAlone, Deciding
<1>17. CASE OfferLoad
  BY <1>0, <1>17 DEF OfferLoad, Goto, TurnsAlone, Deciding, ReturnsOK, AtHand
<1>18. CASE OfferStore
  BY <1>0, <1>18 DEF OfferStore, Goto, Store, TurnsAlone, Deciding, ReturnsOK, AtHand
<1>19. CASE AuthLoad
  BY <1>0, <1>19 DEF AuthLoad, Goto, TurnsAlone, Deciding, ReturnsOK, AtHand
<1>20. CASE AuthStatus
  BY <1>0, <1>20 DEF AuthStatus, Goto, TurnsAlone, Deciding, ReturnsOK, AtHand
<1>21. CASE IssueAuth
  BY <1>0, <1>21 DEF IssueAuth, Goto, TurnsAlone, Deciding, ReturnsOK, AtHand
<1>22. CASE SetAuthLoad
  BY <1>0, <1>22 DEF SetAuthLoad, Goto, TurnsAlone, Deciding, ReturnsOK, AtHand
<1>23. CASE SetAuthStore
  BY <1>0, <1>23 DEF SetAuthStore, Goto, Store, TurnsAlone, Deciding, ReturnsOK, AtHand
<1>24. CASE GraphFails
  BY <1>0, <1>24 DEF GraphFails, Goto, TurnsAlone, Deciding, ReturnsOK, AtHand
<1>25. CASE Spawn
  BY <1>0, <1>25 DEF Spawn, TurnsAlone, Deciding, ReturnsOK, AtHand
<1>26. CASE Answer
  BY <1>0, <1>26 DEF Answer, Goto, TurnsAlone, Deciding, ReturnsOK, AtHand
<1>27. CASE EndTurn
  BY <1>0, <1>27 DEF EndTurn, Goto, TurnsAlone, Deciding, ReturnsOK, AtHand
<1>28. CASE Customer \/ \E f \in Requests : Tell(f)
  BY SMTT(30), <1>0, <1>28 DEF Customer, Tell, TurnsAlone, Deciding
<1>29. ~Listener
  BY <1>0 DEF Listener, Shared, ClearLoad, ClearStore, Resume, AppendLoad, AppendStore, TakePending,
     Subscribe, TakeEvent, Speak, Played
<1> QED
  BY <1>1, <1>2, <1>3, <1>4, <1>5, <1>6, <1>7, <1>8, <1>9, <1>10, <1>11,
     <1>12, <1>13, <1>14, <1>15, <1>16, <1>17, <1>18, <1>19, <1>20, <1>21,
     <1>22, <1>23, <1>24, <1>25, <1>26, <1>27, <1>28, <1>29 DEF Next, Turn,
     Shared

(* While the listener was not spawned, a task that waited for the caller's *)
(* identity or consent is carried out at most once, whatever the answers,  *)
(* failures and hangups.                                                   *)
THEOREM OnceByTheTurns == Spec => []OnceWithoutListener
<1>1. Init => TurnsAlone
  BY ConversationConstantsOK DEF Init, TurnsAlone, Deciding, Procs, Empty, NoTask, Tasks
<1>2. CallInv /\ TurnsAlone /\ [Next]_vars => TurnsAlone'
  BY TurnsAloneStep DEF CallInv
<1>3. CallInv /\ TurnsAlone => OnceWithoutListener
  <2> SUFFICES ASSUME CallInv, TurnsAlone, lauth = NoAuth, NEW t \in Tasks
               PROVE  runs[t] <= 1
    BY DEF OnceWithoutListener
  <2>1. runs[t] \in Nat
    BY DEF CallInv, Facts, TypeOK
  <2> QED
    BY <2>1 DEF TurnsAlone
<1> QED
  BY <1>1, <1>2, <1>3, CallInvariant, PTL DEF Spec
=============================================================================
