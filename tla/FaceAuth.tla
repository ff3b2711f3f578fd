------------------------------ MODULE FaceAuth ------------------------------
(***************************************************************************)
(* Face authentication: the key-value record of each auth session and the  *)
(* requests that verify a face against it (api/v1/auth.py,                 *)
(* services/auth/session.py).  A session is opened with a link sent by     *)
(* SMS; the page behind the link may post any number of pictures, also at  *)
(* the same time.  A request reads the session, counts an attempt,         *)
(* compares, writes the result and publishes it, with an await between any *)
(* two of these.  The record expires on its own.  The liveness routes,     *)
(* which that page never calls, are left out.                              *)
(***************************************************************************)
EXTENDS Naturals, FiniteSets

CONSTANTS
  Auths,        (* auth session ids, each issued at most once              *)
  NoAuth,       (* no id                                                   *)
  Requests,     (* POST /auth/{auth_id}/face requests, each sent once      *)
  MaxAttempts   (* settings.arcface_max_retries; 3 in the code             *)

ASSUME FaceAuthConstantsOK ==
  /\ NoAuth \notin Auths
  /\ IsFiniteSet(Requests)
  /\ MaxAttempts \in Nat \ {0}

VARIABLES
  auth,     (* auth:session:{auth_id}                                      *)
  linked,   (* the ids whose link reached the customer                     *)
  req       (* where each request is, and what it knows                    *)

faceVars == <<auth, linked, req>>

Statuses == {"none", "pending", "verified", "blocked"}

(* made: "new" before create_session, "created" by it, "expired", or       *)
(* "recreated" by a write that came after the expiry: such a record has    *)
(* neither a TTL nor the fields create_session stores.                     *)
AuthRecords ==
  [made: {"new", "created", "expired", "recreated"}, status: Statuses,
   face: BOOLEAN, attempts: Nat]

Absent(made) ==
  [made |-> made, status |-> "none", face |-> FALSE, attempts |-> 0]

Exists(a) == auth[a].made \in {"created", "recreated"}

(* result is what the comparison said; it outlives the request.            *)
RequestRecords ==
  [pc: {"idle", "count", "compare", "publish", "done"}, auth: Auths \cup {NoAuth},
   attempt: Nat, result: {"none", "match", "fail"}, whole: BOOLEAN]

FaceInit ==
  /\ auth   = [a \in Auths |-> Absent("new")]
  /\ linked = {}
  /\ req    = [f \in Requests |-> [pc |-> "idle", auth |-> NoAuth, attempt |-> 0,
                                   result |-> "none", whole |-> FALSE]]

(* create_session and the SMS after it: the id is known to nobody before   *)
(* the message arrives.                                                    *)
Issue(a, sent) ==
  /\ auth[a].made = "new"
  /\ auth' = [auth EXCEPT ![a] = [made |-> "created", status |-> "pending",
                                  face |-> FALSE, attempts |-> 0]]
  /\ linked' = IF sent THEN linked \cup {a} ELSE linked
  /\ UNCHANGED req

(* A write into a hash that may have expired creates it again.             *)
Touch(a) ==
  [auth[a] EXCEPT !.made = IF @ = "created" THEN "created" ELSE "recreated"]

(* verify_face reads the session: 404, 403 or 409, or it goes on.          *)
Check(f, a) ==
  /\ req[f].pc = "idle"
  /\ a \in linked
  /\ req' = [req EXCEPT ![f].auth = a, ![f].whole = auth[a].made = "created",
               ![f].pc = IF Exists(a) /\ auth[a].status # "blocked" /\ ~auth[a].face
                           THEN "count" ELSE "done"]
  /\ UNCHANGED <<auth, linked>>

(* increment_face_attempts; a record without tenant_id then raises.        *)
Count(f) ==
  LET a == req[f].auth IN
  /\ req[f].pc = "count"
  /\ auth' = [auth EXCEPT ![a] = [Touch(a) EXCEPT !.attempts = @ + 1]]
  /\ req' = [req EXCEPT ![f].attempt = auth[a].attempts + 1,
                        ![f].pc = IF req[f].whole THEN "compare" ELSE "done"]
  /\ UNCHANGED linked

LastAttempt_Exceeds(f) == req[f].attempt > MaxAttempts   \* mutant: one picture more
LastAttempt(f) == req[f].attempt >= MaxAttempts

(* The comparison and the write its result calls for: set_face_verified,   *)
(* set_blocked, or none.                                                   *)
Compare(f, match) ==
  LET a == req[f].auth IN
  /\ req[f].pc = "compare"
  /\ req' = [req EXCEPT ![f].pc = "publish",
                        ![f].result = IF match THEN "match" ELSE "fail"]
  /\ auth' = [auth EXCEPT ![a] =
       IF match THEN [Touch(a) EXCEPT !.status = "verified", !.face = TRUE]
       ELSE IF LastAttempt(f) THEN [Touch(a) EXCEPT !.status = "blocked"]
       ELSE @]
  /\ UNCHANGED linked

(* The event published for the outcome; Conversation delivers it.          *)
EventOf(f) ==
  IF req[f].result = "match" THEN "verified"
  ELSE IF LastAttempt(f) THEN "blocked" ELSE "face_failed"

Publish(f) ==
  /\ req[f].pc = "publish"
  /\ req' = [req EXCEPT ![f].pc = "done"]
  /\ UNCHANGED <<auth, linked>>

(* The TTL set by create_session (_AUTH_SESSION_TTL) runs out.             *)
Expire(a) ==
  /\ auth[a].made = "created"
  /\ auth' = [auth EXCEPT ![a] = Absent("expired")]
  /\ UNCHANGED <<linked, req>>

FaceNext ==
  \/ \E a \in Auths : \/ \E sent \in BOOLEAN : Issue(a, sent)
                      \/ Expire(a)
                      \/ \E f \in Requests : Check(f, a)
  \/ \E f \in Requests : \/ Count(f)
                         \/ \E match \in BOOLEAN : Compare(f, match)
                         \/ Publish(f)

FaceSpec == FaceInit /\ [][FaceNext]_faceVars

-----------------------------------------------------------------------------
FaceTypeOK ==
  /\ auth   \in [Auths -> AuthRecords]
  /\ linked \in SUBSET Auths
  /\ req    \in [Requests -> RequestRecords]

Failed(a)  == {f \in Requests : req[f].auth = a /\ req[f].result = "fail"}
Matched(a) == {f \in Requests : req[f].auth = a /\ req[f].result = "match"}

(* Pictures posted at the same time cannot slip past the limit together:   *)
(* once MaxAttempts comparisons of a session have failed, the session has  *)
(* been decided, blocked unless another picture matched.                   *)
FailuresEndTheSession ==
  \A a \in Auths :
    auth[a].made = "created" /\ Cardinality(Failed(a)) >= MaxAttempts
      => auth[a].status \in {"verified", "blocked"}

(* A session reads verified only if a face of that session matched, also   *)
(* when the record expired under the request and was created again.        *)
VerifiedMeansMatched ==
  \A a \in Auths : auth[a].status = "verified" => Matched(a) # {}
=============================================================================
