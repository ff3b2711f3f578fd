------------------------- MODULE IntegrationsProofs -------------------------
(* What holds of a tenant's connection for any number of requests, states, *)
(* accounts and sites.                                                     *)
EXTENDS Integrations, FiniteSetTheorems, TLAPS

Sources == {"own", "alias"}
Steps   == {"idle", "exchange", "select", "refresh", "reread", "send", "notion"}
Slot    == [pc : Steps, src : Sources, route : {"connector", "server"}, row : Rows,
            state : States \cup {None}, named : SUBSET Sites, began : BOOLEAN]
State   == [provider : Providers \cup {None}, wish : Wishes \cup {None},
            is : {"unused", "pending", "late", "gone"}]

(* An exchange knows the state it was begun with, a choice the site.       *)
StepsOK ==
  \A j \in Slots :
    /\ At(j, "exchange") => slot[j].state \in States
    /\ At(j, "select") => slot[j].row.site \in Sites

TypeInv == TypeOK /\ StepsOK

LEMMA NoRowType == NoRow \in Rows /\ Idle \in Slot /\ Unused \in State /\ Handmade \subseteq Rows
<1>1. NoRow \in Rows
  BY DEF NoRow, Rows
<1>2. Idle \in Slot
  BY <1>1 DEF Idle, Slot, Steps, Sources
<1>3. Unused \in State
  BY DEF Unused, State
<1>4. \A a \in Accounts : [NoRow EXCEPT !.status = "connected", !.access = a, !.owner = a] \in Rows
  BY DEF NoRow, Rows
<1> QED
  BY <1>1, <1>2, <1>3, <1>4 DEF Handmade

LEMMA TypeInit == Init => TypeInv
<1> SUFFICES ASSUME Init PROVE TypeInv
  OBVIOUS
<1> USE DEF Init
<1>1. row \in [Sources -> Rows] /\ slot \in [Slots -> Slot] /\ state \in [States -> State]
  BY NoRowType DEF Sources
<1>2. exchanges \in [States -> 0..2] /\ last \in [chosen : BOOLEAN, began : BOOLEAN]
  OBVIOUS
<1>3. TypeOK
  BY <1>1, <1>2 DEF TypeOK, Sources, Slot, Steps, State
<1>4. StepsOK
  BY DEF StepsOK, At, Idle
<1> QED
  BY <1>3, <1>4 DEF TypeInv

(* The types, as the steps below use them.                                 *)
LEMMA Types ==
  ASSUME TypeInv
  PROVE  /\ provider \in Providers
         /\ row \in [Sources -> Rows] /\ row["own"] \in Rows /\ row["alias"] \in Rows
         /\ slot \in [Slots -> Slot] /\ state \in [States -> State]
         /\ exchanges \in [States -> 0..2]
         /\ last \in [chosen : BOOLEAN, began : BOOLEAN]
         /\ named \subseteq Sites /\ off \subseteq Sources /\ blended \in BOOLEAN
BY DEF TypeInv, TypeOK, Sources, Slot, Steps, State

(* One slot is filled, the others stay.                                    *)
LEMMA FillSlot ==
  ASSUME TypeInv, NEW j \in Slots, NEW x \in Slot, slot' = [slot EXCEPT ![j] = x]
  PROVE  /\ slot' \in [Slots -> Slot] /\ slot'[j] = x
         /\ \A k \in Slots : k # j => slot'[k] = slot[k]
BY Types

LEMMA MoveSlot ==
  ASSUME TypeInv, NEW j \in Slots, NEW l \in Steps, Goto(j, l)
  PROVE  slot' = [slot EXCEPT ![j] = [slot[j] EXCEPT !.pc = l]] /\ [slot[j] EXCEPT !.pc = l] \in Slot
BY Types DEF Goto, Slot

(* One row is written.                                                     *)
LEMMA WriteRow ==
  ASSUME TypeInv, NEW src \in Sources, NEW r \in Rows, row' = [row EXCEPT ![src] = r]
  PROVE  /\ row' \in [Sources -> Rows] /\ row'[src] = r
         /\ \A other \in Sources : other # src => row'[other] = row[other]
BY Types

LEMMA MatchingType == ASSUME NEW w, NEW sites PROVE Matching(w, sites) \subseteq sites
BY DEF Matching

LEMMA OnlySite ==
  ASSUME NEW sites \in SUBSET Sites, Cardinality(sites) = 1
  PROVE  (CHOOSE x \in sites : TRUE) \in Sites /\ sites = {CHOOSE x \in sites : TRUE}
<1>1. IsFiniteSet(sites)
  BY IntegrationsAssumption, FS_Subset
<1>2. PICK x : sites = {x}
  BY <1>1, FS_Singleton
<1> QED
  BY <1>2

LEMMA ExchangedType ==
  ASSUME NEW a \in Accounts, NEW refresh \in BOOLEAN, NEW expires \in BOOLEAN
  PROVE  Exchanged(a, refresh, expires) \in Rows
BY DEF Exchanged, NoRow, Rows

(* What exchange_code leaves in the row.                                   *)
LEMMA WithSitesRow ==
  ASSUME NEW r \in Rows, NEW sites \in SUBSET Sites, NEW w, NEW pick \in Sites
  PROVE  /\ WithSites(r, sites, w, pick) \in Rows
         /\ WithSites(r, sites, w, pick).access = r.access
         /\ WithSites(r, sites, w, pick).owner = r.owner
         /\ WithSites(r, sites, w, pick).refresh = r.refresh
<1> DEFINE site == IF Matching(w, sites) # {} THEN pick
                   ELSE IF Cardinality(sites) = 1 THEN CHOOSE x \in sites : TRUE ELSE None
<1>1. site \in Sites \cup {None}
  BY OnlySite
<1> HIDE DEF site
<1>2. WithSites(r, sites, w, pick) =
        [r EXCEPT !.sites = sites, !.site = site, !.choose = site = None /\ sites # {},
                  !.status = IF sites = {} THEN "error" ELSE "connected"]
  BY DEF WithSites, site
<1>3. (site = None /\ sites # {}) \in BOOLEAN
  OBVIOUS
<1> QED
  BY <1>1, <1>2, <1>3 DEF Rows

-----------------------------------------------------------------------------
(* The steps, as the arguments below use them.                             *)

(* A token is read, to be sent or renewed: not a disconnected row's.       *)
Reads(j) ==
  \E src \in Sources, x \in Slot :
    /\ slot' = [slot EXCEPT ![j] = x]
    /\ provider # "notion" /\ row[src].status \notin {"absent", "disconnected"}
    /\ x.src = src /\ x.row = row[src] /\ x.named = named /\ x.began = (src \in off)
    /\ x.pc \in {"send", "refresh"}
    /\ x.pc = "refresh" => src = "own" /\ row["own"].refresh # None
    /\ UNCHANGED <<provider, row, state, history>>

(* A request goes out: to a site only when the row that was read has it.   *)
Sends(j) ==
  \E site \in Sites \cup {None} :
    /\ Deliver(j, site)
    /\ site # None => At(j, "send") /\ ~slot[j].row.choose /\ site = slot[j].row.site

LEMMA ReadRowReads ==
  ASSUME TypeInv, NEW j \in Slots, NEW src \in Sources, NEW route \in {"connector", "server"},
         provider # "notion", ReadRow(j, src, route), UNCHANGED <<provider, row, state, history>>
  PROVE  Reads(j)
<1> DEFINE x == [Idle EXCEPT !.pc = IF row[src].due = "past" THEN "refresh" ELSE "send",
                   !.src = src, !.route = route, !.row = row[src], !.named = named,
                   !.began = src \in off]
<1>1. row[src] \in Rows /\ named \subseteq Sites /\ (src \in off) \in BOOLEAN
  BY Types DEF Sources
<1>2. /\ x \in Slot /\ x.src = src /\ x.row = row[src] /\ x.named = named
      /\ x.began = (src \in off) /\ x.pc \in {"send", "refresh"}
      /\ x.pc = "refresh" => row[src].due = "past"
  BY <1>1, NoRowType DEF Idle, Slot, Steps
<1>3. slot' = [slot EXCEPT ![j] = x]
  BY DEF ReadRow
<1>4. x.pc = "refresh" => src = "own" /\ row["own"].refresh # None
  BY <1>2 DEF ReadRow, CanRefresh
<1> HIDE DEF x
<1> QED
  BY <1>2, <1>3, <1>4 DEF Reads, ReadRow

LEMMA ReadCases ==
  ASSUME TypeInv, NEW j \in Slots, ConnectorRead(j) \/ GetTenantToken(j) PROVE Reads(j)
<1>1. ResolveIntegration \in Sources
  BY DEF ResolveIntegration, Sources
<1> QED
  BY <1>1, ReadRowReads DEF ConnectorRead, GetTenantToken, Sources

LEMMA SendCases ==
  ASSUME TypeInv, NEW j \in Slots,
         \/ SlackSend(j) \/ SlackTool(j) \/ GmailSend(j) \/ GmailTool(j)
         \/ CalendarSend(j) \/ CalendarTool(j) \/ JiraSend(j) \/ JiraTool(j) \/ NotionPage(j)
  PROVE  Sends(j)
<1>1. CASE Deliver(j, None)
  BY <1>1 DEF Sends
<1>2. CASE At(j, "send") /\ CloudId(slot[j].row) # None /\ Deliver(j, CloudId(slot[j].row))
  <2>1. slot[j].row \in Rows
    BY Types DEF Slot
  <2>2. CloudId(slot[j].row) = slot[j].row.site /\ slot[j].row.site \in Sites /\ ~slot[j].row.choose
    BY <1>2, <2>1 DEF CloudId, Rows
  <2> QED
    BY <1>2, <2>2 DEF Sends
<1> QED
  BY <1>1, <1>2 DEF SlackSend, SlackTool, GmailSend, GmailTool, CalendarSend, CalendarTool,
     JiraSend, JiraTool, NotionPage, Sending

(* The same for every step: what [Next]_vars may be.                       *)
LEMMA NextCases ==
  ASSUME TypeInv, [Next]_vars
  PROVE  \/ UNCHANGED vars
         \/ Authorize \/ Disconnect \/ Expire \/ StateExpires \/ Crash
         \/ \E j \in Slots :
              \/ CallbackVerify(j) \/ CallbackStore(j) \/ SelectRead(j) \/ SelectWrite(j)
              \/ Reads(j) \/ RefreshAccessToken(j) \/ Reread(j) \/ Sends(j)
              \/ NotionTool(j) \/ GiveUp(j)
BY ReadCases, SendCases DEF Next

-----------------------------------------------------------------------------
(* Types                                                                   *)

LEMMA TypeOf ==
  ASSUME provider' = provider, provider \in Providers,
         row' \in [Sources -> Rows], slot' \in [Slots -> Slot], state' \in [States -> State],
         exchanges' \in [States -> 0..2], last' \in [chosen : BOOLEAN, began : BOOLEAN],
         named' \subseteq Sites, off' \subseteq Sources, blended' \in BOOLEAN, StepsOK'
  PROVE  TypeInv'
BY DEF TypeInv, TypeOK, Sources, Slot, Steps, State

LEMMA VerifyType ==
  ASSUME TypeInv, NEW s \in States, VerifyState(s)
  PROVE  state' \in [States -> State] /\ state'[s].is = "gone"
         /\ \A t \in States : t # s => state'[t] = state[t]
BY Types DEF VerifyState, State

LEMMA CallbackVerifyType ==
  ASSUME TypeInv, NEW j \in Slots, CallbackVerify(j) PROVE TypeInv'
<1> USE DEF CallbackVerify
<1>1. PICK s \in States, path \in {provider, "another"} :
        /\ VerifyState(s)
        /\ IF state[s].is = "pending" /\ path = state[s].provider
             THEN /\ slot' = [slot EXCEPT ![j] = [Idle EXCEPT !.pc = "exchange", !.state = s]]
                  /\ exchanges' = [exchanges EXCEPT ![s] = IF @ = 2 THEN 2 ELSE @ + 1]
             ELSE UNCHANGED <<slot, exchanges>>
  OBVIOUS
<1>2. state' \in [States -> State]
  BY <1>1, VerifyType
<1>3. exchanges' \in [States -> 0..2]
  BY <1>1, Types
<1>4. [Idle EXCEPT !.pc = "exchange", !.state = s] \in Slot
  BY NoRowType DEF Slot, Steps
<1>5. slot' \in [Slots -> Slot] /\ StepsOK'
  <2>1. CASE UNCHANGED slot
    BY <2>1, Types DEF TypeInv, StepsOK, At
  <2>2. CASE slot' = [slot EXCEPT ![j] = [Idle EXCEPT !.pc = "exchange", !.state = s]]
    <3>1. slot'[j].pc = "exchange" /\ slot'[j].state = s
      BY <2>2, Types DEF Idle
    <3> QED
      BY <2>2, <3>1, <1>4, FillSlot DEF TypeInv, StepsOK, At
  <2> QED
    BY <1>1, <2>1, <2>2
<1> QED
  BY <1>2, <1>3, <1>5, Types, TypeOf

LEMMA FinishType ==
  ASSUME TypeInv, NEW j \in Slots, Finish(j)
  PROVE  slot' \in [Slots -> Slot] /\ slot'[j] = Idle /\ StepsOK'
         /\ \A k \in Slots : k # j => slot'[k] = slot[k]
<1>1. slot' \in [Slots -> Slot] /\ slot'[j] = Idle /\ \A k \in Slots : k # j => slot'[k] = slot[k]
  BY NoRowType, FillSlot DEF Finish
<1>2. StepsOK'
  BY <1>1 DEF TypeInv, StepsOK, At, Idle
<1> QED
  BY <1>1, <1>2

(* A successful callback overwrites the provider's own row.                *)
LEMMA StoreRow ==
  ASSUME TypeInv, NEW j \in Slots, CallbackStore(j), ~UNCHANGED <<row, named, off, blended>>
  PROVE  \E a \in Accounts, r \in Rows :
           /\ row' = [row EXCEPT !["own"] = r]
           /\ r.access = a /\ r.owner = a /\ r.refresh \in {None, a}
           /\ off' = off \ {"own"} /\ blended' = (blended \/ Blends(a))
<1> USE DEF CallbackStore
<1>1. PICK a \in Accounts, refresh \in BOOLEAN, expires \in BOOLEAN :
        /\ IF provider = "jira"
             THEN \E sites \in SUBSET Sites, pick \in Sites :
                    UpsertIntegration(WithSites(Exchanged(a, refresh, expires), sites,
                                                state[slot[j].state].wish, pick))
             ELSE UpsertIntegration(Exchanged(a, refresh, expires))
        /\ off' = off \ {"own"} /\ blended' = (blended \/ Blends(a))
  OBVIOUS
<1> DEFINE e == Exchanged(a, refresh, expires)
<1>2. e \in Rows /\ e.access = a /\ e.owner = a /\ e.refresh \in {None, a}
  BY ExchangedType DEF Exchanged, NoRow
<1> HIDE DEF e
<1>3. CASE provider = "jira"
  <2>1. PICK sites \in SUBSET Sites, pick \in Sites :
          UpsertIntegration(WithSites(e, sites, state[slot[j].state].wish, pick))
    BY <1>1, <1>3 DEF e
  <2> DEFINE r == WithSites(e, sites, state[slot[j].state].wish, pick)
  <2>2. r \in Rows /\ r.access = a /\ r.owner = a /\ r.refresh \in {None, a}
    BY <1>2, WithSitesRow
  <2>3. row' = [row EXCEPT !["own"] = r]
    BY <2>1 DEF UpsertIntegration
  <2> HIDE DEF r
  <2> QED
    BY <1>1, <2>2, <2>3
<1>4. CASE provider # "jira"
  BY <1>1, <1>2, <1>4 DEF UpsertIntegration, e
<1> QED
  BY <1>3, <1>4

LEMMA CallbackStoreType ==
  ASSUME TypeInv, NEW j \in Slots, CallbackStore(j) PROVE TypeInv'
<1>1. slot' \in [Slots -> Slot] /\ StepsOK'
  BY FinishType DEF CallbackStore
<1>2. named' \subseteq Sites
  <2>1. slot[j].state \in States
    BY DEF CallbackStore, TypeInv, StepsOK
  <2>2. state[slot[j].state].wish \in Wishes \cup {None}
    BY <2>1, Types DEF State
  <2> QED
    BY <2>2, Types, IntegrationsAssumption DEF CallbackStore
<1>3. row' \in [Sources -> Rows] /\ off' \subseteq Sources /\ blended' \in BOOLEAN
  <2>1. CASE UNCHANGED <<row, named, off, blended>>
    BY <2>1, Types
  <2>2. CASE ~UNCHANGED <<row, named, off, blended>>
    <3>1. "own" \in Sources
      BY DEF Sources
    <3>2. \A a \in Accounts : Blends(a) \in BOOLEAN
      BY DEF Blends
    <3> QED
      BY <2>2, <3>1, <3>2, StoreRow, WriteRow, Types
  <2> QED
    BY <2>1, <2>2
<1> QED
  BY <1>1, <1>2, <1>3, Types, TypeOf DEF CallbackStore

LEMMA SelectType ==
  ASSUME TypeInv, NEW j \in Slots, SelectRead(j) \/ SelectWrite(j) PROVE TypeInv'
<1>1. CASE SelectRead(j)
  <2> USE <1>1 DEF SelectRead
  <2>1. PICK site \in row["own"].sites :
          slot' = [slot EXCEPT ![j] = [Idle EXCEPT !.pc = "select", !.row =
                    [row["own"] EXCEPT !.status = "connected", !.site = site, !.choose = FALSE]]]
    OBVIOUS
  <2> DEFINE r == [row["own"] EXCEPT !.status = "connected", !.site = site, !.choose = FALSE]
  <2>2. r \in Rows /\ r.site \in Sites
    BY Types DEF Rows
  <2>3. [Idle EXCEPT !.pc = "select", !.row = r] \in Slot
    BY <2>2, NoRowType DEF Slot, Steps
  <2>4. /\ slot' \in [Slots -> Slot] /\ slot'[j] = [Idle EXCEPT !.pc = "select", !.row = r]
        /\ \A k \in Slots : k # j => slot'[k] = slot[k]
    BY <2>1, <2>3, FillSlot
  <2>5. slot'[j].pc = "select" /\ slot'[j].row = r
    BY <2>4 DEF Idle
  <2> HIDE DEF r
  <2>6. StepsOK'
    BY <2>2, <2>4, <2>5 DEF TypeInv, StepsOK, At
  <2> QED
    BY <2>4, <2>6, Types, TypeOf DEF history
<1>2. CASE SelectWrite(j)
  <2> USE <1>2 DEF SelectWrite
  <2>1. slot[j].row \in Rows /\ slot[j].row.site \in Sites /\ "own" \in Sources
    BY Types DEF Slot, TypeInv, StepsOK, Sources
  <2>2. row' \in [Sources -> Rows] /\ named' \subseteq Sites /\ off' \subseteq Sources
    BY <2>1, WriteRow, Types
  <2>3. blended' \in BOOLEAN
    BY DEF Blends
  <2> QED
    BY <2>2, <2>3, FinishType, Types, TypeOf
<1> QED
  BY <1>1, <1>2

(* The row after a renewal: the account that owns the refresh token.       *)
LEMMA RefreshedRow ==
  ASSUME TypeInv, NEW j \in Slots, RefreshAccessToken(j), ~UNCHANGED row
  PROVE  \E r \in Rows :
           /\ row' = [row EXCEPT ![slot[j].src] = r] /\ slot[j].src \in Sources
           /\ r.access = slot[j].row.refresh /\ r.refresh = row[slot[j].src].refresh
           /\ r.owner = row[slot[j].src].owner /\ r.site = row[slot[j].src].site
           /\ r.choose = row[slot[j].src].choose /\ r.sites = row[slot[j].src].sites
           /\ off' = IF slot[j].began THEN off ELSE off \ {slot[j].src}
<1> DEFINE src == slot[j].src
<1>1. src \in Sources /\ slot[j].row \in Rows /\ row[src] \in Rows
  BY Types DEF Slot
<1>2. PICK due \in {"later", row[src].due} :
        row' = [row EXCEPT ![src].access = slot[j].row.refresh, ![src].due = due,
                           ![src].status = "connected"]
  BY DEF RefreshAccessToken
<1> DEFINE r == [row[src] EXCEPT !.access = slot[j].row.refresh, !.due = due, !.status = "connected"]
<1>3. /\ r \in Rows /\ r.access = slot[j].row.refresh /\ r.refresh = row[src].refresh
      /\ r.owner = row[src].owner /\ r.site = row[src].site
      /\ r.choose = row[src].choose /\ r.sites = row[src].sites
  BY <1>1 DEF Rows
<1>4. row' = [row EXCEPT ![src] = r]
  BY <1>1, <1>2, Types
<1>5. off' = IF slot[j].began THEN off ELSE off \ {src}
  BY DEF RefreshAccessToken
<1> HIDE DEF r
<1> QED
  BY <1>1, <1>3, <1>4, <1>5

(* A slot moved on by a renewal keeps what it read.                        *)
LEMMA RefreshSlot ==
  ASSUME TypeInv, NEW j \in Slots, RefreshAccessToken(j)
  PROVE  /\ slot' \in [Slots -> Slot] /\ StepsOK'
         /\ slot'[j] = Idle \/ (slot'[j].pc = "reread" /\ slot'[j].began = slot[j].began)
         /\ \A k \in Slots : k # j => slot'[k] = slot[k]
<1>1. CASE Finish(j)
  BY <1>1, FinishType
<1>2. CASE Goto(j, "reread")
  <2>1. slot' = [slot EXCEPT ![j] = [slot[j] EXCEPT !.pc = "reread"]]
        /\ [slot[j] EXCEPT !.pc = "reread"] \in Slot
    BY <1>2, MoveSlot DEF Steps
  <2>2. /\ slot' \in [Slots -> Slot] /\ slot'[j] = [slot[j] EXCEPT !.pc = "reread"]
        /\ \A k \in Slots : k # j => slot'[k] = slot[k]
    BY <2>1, FillSlot
  <2>3. slot'[j].pc = "reread" /\ slot'[j].began = slot[j].began
    BY <2>2, Types DEF Slot
  <2>4. StepsOK'
    BY <2>2, <2>3 DEF TypeInv, StepsOK, At
  <2> QED
    BY <2>2, <2>3, <2>4
<1> QED
  BY <1>1, <1>2 DEF RefreshAccessToken

LEMMA RefreshType == ASSUME TypeInv, NEW j \in Slots, RefreshAccessToken(j) PROVE TypeInv'
<1>1. row' \in [Sources -> Rows]
  <2>1. CASE UNCHANGED row
    BY <2>1, Types
  <2>2. CASE ~UNCHANGED row
    BY <2>2, RefreshedRow, WriteRow
  <2> QED
    BY <2>1, <2>2
<1>2. off' \subseteq Sources
  BY Types DEF RefreshAccessToken
<1> QED
  BY <1>1, <1>2, RefreshSlot, Types, TypeOf DEF RefreshAccessToken

LEMMA RereadSlot ==
  ASSUME TypeInv, NEW j \in Slots, Reread(j)
  PROVE  \E x \in Slot :
           /\ slot' = [slot EXCEPT ![j] = x]
           /\ x.pc = "send" /\ x.row = row[slot[j].src] /\ x.named = named
           /\ x.src = slot[j].src /\ x.began = slot[j].began
<1> DEFINE x == [slot[j] EXCEPT !.pc = "send", !.row = row[slot[j].src], !.named = named]
<1>1. /\ x \in Slot /\ x.pc = "send" /\ x.row = row[slot[j].src] /\ x.named = named
      /\ x.src = slot[j].src /\ x.began = slot[j].began
  BY ZenonT(30), Types DEF Slot, Steps
<1>2. slot' = [slot EXCEPT ![j] = x]
  BY Types DEF Reread
<1> HIDE DEF x
<1> QED
  BY <1>1, <1>2

LEMMA ReadType == ASSUME TypeInv, NEW j \in Slots, Reads(j) \/ Reread(j) PROVE TypeInv'
<1>1. PICK x \in Slot : slot' = [slot EXCEPT ![j] = x] /\ x.pc \in {"send", "refresh"}
  BY RereadSlot DEF Reads
<1>2. slot' \in [Slots -> Slot] /\ slot'[j] = x /\ \A k \in Slots : k # j => slot'[k] = slot[k]
  BY <1>1, FillSlot
<1>3. StepsOK'
  BY <1>1, <1>2 DEF TypeInv, StepsOK, At
<1> QED
  BY <1>2, <1>3, Types, TypeOf DEF Reads, Reread, history

LEMMA SendType ==
  ASSUME TypeInv, NEW j \in Slots, Sends(j) \/ GiveUp(j) PROVE TypeInv'
<1>1. Finish(j) /\ UNCHANGED <<provider, row, state, exchanges, named, off, blended>>
  BY DEF Sends, Deliver, GiveUp, history
<1>2. last' \in [chosen : BOOLEAN, began : BOOLEAN]
  <2>1. CASE GiveUp(j)
    BY <2>1, Types DEF GiveUp, history
  <2>2. CASE Sends(j)
    <3>1. slot[j].began \in BOOLEAN
      BY Types DEF Slot
    <3> QED
      BY <2>2, <3>1 DEF Sends, Deliver
  <2> QED
    BY <2>1, <2>2
<1> QED
  BY <1>1, <1>2, FinishType, Types, TypeOf

LEMMA NotionSlot ==
  ASSUME TypeInv, NEW j \in Slots, NotionTool(j)
  PROVE  \E x \in Slot : slot' = [slot EXCEPT ![j] = x] /\ x.pc = "notion"
<1>1. \A r \in Rows, b \in BOOLEAN :
        /\ [Idle EXCEPT !.pc = "notion", !.row = r, !.began = b] \in Slot
        /\ [Idle EXCEPT !.pc = "notion", !.row = r, !.began = b].pc = "notion"
  BY NoRowType DEF Slot, Steps
<1>2. ("own" \in off) \in BOOLEAN /\ row["own"] \in Rows
  BY Types
<1> DEFINE x == [Idle EXCEPT !.pc = "notion", !.row = row["own"], !.began = "own" \in off]
<1>3. x \in Slot /\ x.pc = "notion"
  BY <1>1, <1>2, Zenon
<1>4. slot' = [slot EXCEPT ![j] = x]
  BY DEF NotionTool
<1> HIDE DEF x
<1> QED
  BY <1>3, <1>4

LEMMA NotionType == ASSUME TypeInv, NEW j \in Slots, NotionTool(j) PROVE TypeInv'
<1>1. PICK x \in Slot : slot' = [slot EXCEPT ![j] = x] /\ x.pc = "notion"
  BY NotionSlot
<1>2. slot' \in [Slots -> Slot] /\ slot'[j] = x /\ \A k \in Slots : k # j => slot'[k] = slot[k]
  BY <1>1, FillSlot
<1>3. StepsOK'
  BY <1>1, <1>2 DEF TypeInv, StepsOK, At
<1> QED
  BY <1>2, <1>3, Types, TypeOf DEF NotionTool, history

LEMMA OtherType ==
  ASSUME TypeInv, Authorize \/ Disconnect \/ Expire \/ StateExpires \/ Crash PROVE TypeInv'
<1> USE DEF history
<1>1. CASE Authorize
  <2>1. PurgeExpired \in [States -> State]
    BY Types DEF PurgeExpired, State
  <2>2. state' \in [States -> State]
    BY <1>1, <2>1, Types DEF Authorize, State
  <2>3. StepsOK'
    BY <1>1 DEF Authorize, TypeInv, StepsOK, At
  <2> QED
    BY <1>1, <2>2, <2>3, Types, TypeOf DEF Authorize
<1>2. CASE Disconnect
  <2>1. row' \in [Sources -> Rows] /\ off' \subseteq Sources
    BY <1>2, Types DEF Disconnect, Sources, Rows
  <2>2. StepsOK'
    BY <1>2 DEF Disconnect, TypeInv, StepsOK, At
  <2> QED
    BY <1>2, <2>1, <2>2, Types, TypeOf DEF Disconnect
<1>3. CASE Expire
  <2>1. row' \in [Sources -> Rows]
    BY <1>3, Types DEF Expire, Sources, Rows
  <2>2. StepsOK'
    BY <1>3 DEF Expire, TypeInv, StepsOK, At
  <2> QED
    BY <1>3, <2>1, <2>2, Types, TypeOf DEF Expire
<1>4. CASE StateExpires
  <2>1. state' \in [States -> State]
    BY <1>4, Types DEF StateExpires, State
  <2>2. StepsOK'
    BY <1>4 DEF StateExpires, TypeInv, StepsOK, At
  <2> QED
    BY <1>4, <2>1, <2>2, Types, TypeOf DEF StateExpires
<1>5. CASE Crash
  <2>1. state' \in [States -> State]
    BY <1>5, Types, NoRowType DEF Crash, State
  <2>2. slot' \in [Slots -> Slot] /\ StepsOK'
    BY <1>5, NoRowType DEF Crash, StepsOK, At, Idle
  <2> QED
    BY <1>5, <2>1, <2>2, Types, TypeOf DEF Crash
<1> QED
  BY <1>1, <1>2, <1>3, <1>4, <1>5

LEMMA TypeNext == TypeInv /\ [Next]_vars => TypeInv'
<1> SUFFICES ASSUME TypeInv, [Next]_vars PROVE TypeInv'
  OBVIOUS
<1>1. CASE UNCHANGED vars
  BY <1>1 DEF vars, TypeInv, TypeOK, StepsOK, At
<1> QED
  BY <1>1, NextCases, OtherType, CallbackVerifyType, CallbackStoreType, SelectType, ReadType,
     RefreshType, SendType, NotionType

(* The variables keep their types.                                         *)
THEOREM TypeCorrect == Spec => []TypeOK
<1>1. TypeInv => TypeOK
  BY DEF TypeInv
<1> QED
  BY <1>1, TypeInit, TypeNext, PTL DEF Spec

-----------------------------------------------------------------------------
(* A code is exchanged when its state leaves the store, and a state that   *)
(* left does not come back.                                                *)
StatesOK ==
  \A s \in States : exchanges[s] <= 1 /\ (exchanges[s] # 0 => state[s].is = "gone")

LEMMA StatesInit == Init => StatesOK
BY DEF Init, StatesOK

LEMMA StatesNext == TypeInv /\ StatesOK /\ [Next]_vars => StatesOK'
<1> SUFFICES ASSUME TypeInv, StatesOK, [Next]_vars PROVE StatesOK'
  OBVIOUS
<1> USE DEF history
<1>1. CASE UNCHANGED <<exchanges, state>>
  BY <1>1 DEF StatesOK
<1>2. CASE Authorize
  <2>1. PICK s \in States, x \in State :
          state[s] = Unused /\ state' = [PurgeExpired EXCEPT ![s] = x]
    <3>1. \A w \in Wishes \cup {None} : [provider |-> provider, wish |-> w, is |-> "pending"] \in State
      BY Types DEF State
    <3> QED
      BY <1>2, <3>1 DEF Authorize
  <2>2. exchanges[s] = 0
    BY <2>1 DEF StatesOK, Unused
  <2>3. \A t \in States : t # s /\ state[t].is = "gone" => state'[t].is = "gone"
    BY <2>1, Types DEF PurgeExpired
  <2> QED
    BY <1>2, <2>2, <2>3 DEF Authorize, StatesOK
<1>3. CASE StateExpires
  <2>1. PICK s \in States : state[s].is = "pending" /\ state' = [state EXCEPT ![s].is = "late"]
    BY <1>3 DEF StateExpires
  <2>2. exchanges[s] = 0 /\ \A t \in States : t # s => state'[t] = state[t]
    BY <2>1, Types DEF StatesOK
  <2> QED
    BY <1>3, <2>2 DEF StateExpires, StatesOK
<1>4. CASE Crash
  <2>1. \A s \in States : state[s].is = "gone" => state'[s].is = "gone"
    BY <1>4, Types DEF Crash, State
  <2> QED
    BY <1>4, <2>1 DEF Crash, StatesOK
<1>5. ASSUME NEW j \in Slots, CallbackVerify(j) PROVE StatesOK'
  <2>1. PICK s \in States, path \in {provider, "another"} :
          /\ VerifyState(s)
          /\ IF state[s].is = "pending" /\ path = state[s].provider
               THEN exchanges' = [exchanges EXCEPT ![s] = IF @ = 2 THEN 2 ELSE @ + 1]
               ELSE UNCHANGED exchanges
    BY <1>5 DEF CallbackVerify
  <2>2. state'[s].is = "gone" /\ \A t \in States : t # s => state'[t] = state[t]
    BY <2>1, VerifyType
  <2>3. CASE UNCHANGED exchanges
    BY <2>2, <2>3 DEF StatesOK
  <2>4. CASE /\ state[s].is = "pending"
             /\ exchanges' = [exchanges EXCEPT ![s] = IF @ = 2 THEN 2 ELSE @ + 1]
    <3>1. exchanges[s] = 0
      BY <2>4 DEF StatesOK
    <3>2. exchanges'[s] = 1 /\ \A t \in States : t # s => exchanges'[t] = exchanges[t]
      BY <2>4, <3>1, Types
    <3> QED
      BY <2>2, <3>2 DEF StatesOK
  <2> QED
    BY <2>1, <2>3, <2>4
<1> QED
  BY <1>1, <1>2, <1>3, <1>4, <1>5, NextCases DEF vars, Disconnect, Expire, CallbackStore,
     SelectRead, SelectWrite, Reads, RefreshAccessToken, Reread, Sends, Deliver, NotionTool,
     GiveUp

(* One consent connects one account: a code is exchanged for a state once, *)
(* however often and to whatever path the browser returns.                 *)
THEOREM OneExchange == Spec => []OneExchangePerState
<1>1. StatesOK => OneExchangePerState
  BY DEF StatesOK, OneExchangePerState
<1> QED
  BY <1>1, TypeInit, TypeNext, StatesInit, StatesNext, PTL DEF Spec

-----------------------------------------------------------------------------
(* A row counts as off only while it is disconnected, so no call that read *)
(* a token began with its row off.                                         *)
OffOK ==
  provider # "notion" =>
    /\ \A src \in off : row[src].status = "disconnected"
    /\ \A j \in Slots : ~slot[j].began
    /\ ~last.began

LEMMA OffInit == Init => OffOK
BY DEF Init, OffOK, Idle

LEMMA OffNext == TypeInv /\ OffOK /\ [Next]_vars => OffOK'
<1> SUFFICES ASSUME TypeInv, OffOK, [Next]_vars, provider # "notion" PROVE OffOK'
  BY NextCases DEF vars, Authorize, Disconnect, Expire, StateExpires, Crash, CallbackVerify,
     CallbackStore, SelectRead, SelectWrite, Reads, RefreshAccessToken, Reread, Sends, Deliver,
     NotionTool, GiveUp, OffOK
<1> USE DEF history
<1>1. CASE UNCHANGED vars \/ Authorize \/ StateExpires
  BY <1>1 DEF vars, Authorize, StateExpires, OffOK
<1>2. CASE Disconnect
  <2>1. PICK src \in Sources :
          row' = [row EXCEPT ![src].status = "disconnected"] /\ off' = off \cup {src}
    BY <1>2 DEF Disconnect, Sources
  <2>2. row'[src].status = "disconnected" /\ \A o \in Sources : o # src => row'[o] = row[o]
    BY <2>1, Types DEF Rows
  <2> QED
    BY <1>2, <2>1, <2>2, Types DEF Disconnect, OffOK
<1>3. CASE Expire
  <2>1. \A o \in Sources : row'[o].status = row[o].status
    BY <1>3, Types DEF Expire, Rows
  <2> QED
    BY <1>3, <2>1, Types DEF Expire, OffOK
<1>4. CASE Crash
  BY <1>4 DEF Crash, OffOK, Idle
<1>5. ASSUME NEW j \in Slots, CallbackVerify(j) \/ SelectRead(j) PROVE OffOK'
  <2>1. \A k \in Slots : slot'[k].began = slot[k].began \/ ~slot'[k].began
    BY ZenonT(30), <1>5, Types DEF CallbackVerify, SelectRead, Idle
  <2> QED
    BY <1>5, <2>1 DEF CallbackVerify, SelectRead, OffOK
<1>6. ASSUME NEW j \in Slots, CallbackStore(j) \/ SelectWrite(j) PROVE OffOK'
  <2>1. \A k \in Slots : slot'[k].began = slot[k].began \/ ~slot'[k].began
    BY <1>6, FinishType DEF CallbackStore, SelectWrite, Idle
  <2>2. \A o \in off' : o \in off /\ row'[o] = row[o]
    <3>1. CASE UNCHANGED <<row, named, off, blended>>
      BY <3>1
    <3>2. CASE ~UNCHANGED <<row, named, off, blended>>
      <4>1. off' = off \ {"own"} /\ \E r \in Rows : row' = [row EXCEPT !["own"] = r]
        <5>1. CASE CallbackStore(j)
          BY <3>2, <5>1, StoreRow
        <5>2. CASE SelectWrite(j)
          BY <5>2, Types DEF SelectWrite, Slot
        <5> QED
          BY <1>6, <5>1, <5>2
      <4> QED
        BY <4>1, Types DEF Sources
    <3> QED
      BY <3>1, <3>2
  <2> QED
    BY <1>6, <2>1, <2>2 DEF CallbackStore, SelectWrite, OffOK
<1>7. ASSUME NEW j \in Slots, Reads(j) PROVE OffOK'
  <2>1. PICK src \in Sources, x \in Slot :
          /\ slot' = [slot EXCEPT ![j] = x] /\ x.began = (src \in off)
          /\ row[src].status # "disconnected" /\ UNCHANGED <<provider, row, off, last>>
    BY <1>7 DEF Reads
  <2>2. ~x.began
    BY <2>1 DEF OffOK
  <2>3. \A k \in Slots : slot'[k].began = slot[k].began \/ ~slot'[k].began
    BY <2>1, <2>2, FillSlot
  <2> QED
    BY <2>1, <2>3 DEF OffOK
<1>8. ASSUME NEW j \in Slots, RefreshAccessToken(j) PROVE OffOK'
  <2>1. \A k \in Slots : slot'[k].began = slot[k].began \/ ~slot'[k].began
    BY <1>8, RefreshSlot DEF Idle
  <2>2. \A o \in off' : o \in off /\ row'[o] = row[o]
    <3>1. CASE UNCHANGED row
      BY <1>8, <3>1 DEF RefreshAccessToken, OffOK
    <3>2. CASE ~UNCHANGED row
      <4>1. PICK r \in Rows : /\ row' = [row EXCEPT ![slot[j].src] = r] /\ slot[j].src \in Sources
                              /\ off' = IF slot[j].began THEN off ELSE off \ {slot[j].src}
        BY <1>8, <3>2, RefreshedRow
      <4> QED
        BY <4>1, Types DEF OffOK
    <3> QED
      BY <3>1, <3>2
  <2> QED
    BY <1>8, <2>1, <2>2 DEF RefreshAccessToken, OffOK
<1>9. ASSUME NEW j \in Slots, Reread(j) PROVE OffOK'
  <2>1. \A k \in Slots : slot'[k].began = slot[k].began
    BY <1>9, RereadSlot, FillSlot
  <2> QED
    BY <1>9, <2>1 DEF Reread, OffOK
<1>10. ASSUME NEW j \in Slots, Sends(j) \/ GiveUp(j) PROVE OffOK'
  <2>1. \A k \in Slots : slot'[k].began = slot[k].began \/ ~slot'[k].began
    BY <1>10, FinishType DEF Sends, Deliver, GiveUp, Idle
  <2>2. last'.began = last.began \/ last'.began = slot[j].began
    BY <1>10 DEF Sends, Deliver, GiveUp
  <2>3. UNCHANGED <<provider, row, off>>
    BY <1>10 DEF Sends, Deliver, GiveUp
  <2> QED
    BY <2>1, <2>2, <2>3 DEF OffOK
<1>11. ASSUME NEW j \in Slots PROVE ~NotionTool(j)
  BY DEF NotionTool
<1> QED
  BY <1>1, <1>2, <1>3, <1>4, <1>5, <1>6, <1>7, <1>8, <1>9, <1>10, <1>11, NextCases

(* Outside Notion nothing leaves on a token that was read after the tenant *)
(* disconnected, until the admin or a renewal under way connects it again. *)
THEOREM DisconnectHolds == Spec => []DisconnectStays
<1>1. OffOK => DisconnectStays
  BY DEF OffOK, DisconnectStays
<1> QED
  BY <1>1, TypeInit, TypeNext, OffInit, OffNext, PTL DEF Spec

-----------------------------------------------------------------------------
(* The tokens and the owner of a row, of what a handler is about to write  *)
(* and of what a renewal will write, belong together, unless the account   *)
(* was replaced under a renewal.                                           *)
Whole(r) == r.access = r.owner /\ r.refresh \in {None, r.owner}

AccountsOK ==
  /\ \A j \in Slots : At(j, "refresh") => slot[j].src = "own"
  /\ ~blended =>
       /\ \A src \in Sources : Whole(row[src])
       /\ \A j \in Slots :
            /\ At(j, "select") => Whole(slot[j].row)
            /\ At(j, "refresh") => slot[j].row.refresh = row["own"].owner

LEMMA AccountsInit == Init => AccountsOK
<1> SUFFICES ASSUME Init PROVE AccountsOK
  OBVIOUS
<1>1. \A r \in Handmade : Whole(r)
  <2>1. Whole(NoRow)
    BY DEF Whole, NoRow
  <2>2. \A a \in Accounts : Whole([NoRow EXCEPT !.status = "connected", !.access = a, !.owner = a])
    BY DEF Whole, NoRow
  <2> QED
    BY <2>1, <2>2 DEF Handmade
<1>2. \A src \in Sources : Whole(row[src])
  BY <1>1 DEF Init, Sources
<1> QED
  BY <1>2 DEF Init, AccountsOK, At, Idle

(* Slots that change to something that neither chooses nor renews.         *)
LEMMA AccountsKept ==
  ASSUME TypeInv, AccountsOK, blended' = blended,
         \A src \in Sources : /\ row'[src].access = row[src].access
                              /\ row'[src].owner = row[src].owner
                              /\ row'[src].refresh = row[src].refresh,
         \A k \in Slots : slot'[k] = slot[k] \/ slot'[k].pc \notin {"select", "refresh"}
  PROVE  AccountsOK'
<1>1. "own" \in Sources
  BY DEF Sources
<1> QED
  BY <1>1 DEF AccountsOK, Whole, At

(* The provider's own row is replaced: either the account stays, or no     *)
(* renewal is under way, or the replacement is noted.                      *)
LEMMA AccountsReplaced ==
  ASSUME TypeInv, AccountsOK, NEW j \in Slots, Finish(j), NEW r \in Rows,
         row' = [row EXCEPT !["own"] = r], ~blended => Whole(r),
         blended' = (blended \/ Blends(r.owner))
  PROVE  AccountsOK'
<1>1. /\ slot'[j] = Idle /\ \A k \in Slots : k # j => slot'[k] = slot[k]
  BY FinishType
<1>2. /\ row'["own"] = r /\ \A o \in Sources : o # "own" => row'[o] = row[o]
  BY Types DEF Sources
<1>3. \A k \in Slots : slot'[k].pc \in {"select", "refresh"} => k # j /\ slot'[k] = slot[k]
  BY <1>1 DEF Idle
<1>4. ASSUME ~blended', NEW k \in Slots, slot[k].pc = "refresh" PROVE r.owner = row["own"].owner
  BY <1>4 DEF Blends, At, AccountsOK
<1>5. ~blended' => ~blended
  OBVIOUS
<1> QED
  BY <1>1, <1>2, <1>3, <1>4, <1>5 DEF AccountsOK, At

LEMMA AccountsNext == TypeInv /\ AccountsOK /\ [Next]_vars => AccountsOK'
<1> SUFFICES ASSUME TypeInv, AccountsOK, [Next]_vars PROVE AccountsOK'
  OBVIOUS
<1> USE DEF history
<1>1. CASE UNCHANGED <<row, slot, blended>>
  BY <1>1 DEF AccountsOK, Whole, At
<1>2. CASE Disconnect \/ Expire
  <2>1. \A src \in Sources : /\ row'[src].access = row[src].access
                             /\ row'[src].owner = row[src].owner
                             /\ row'[src].refresh = row[src].refresh
    BY <1>2, Types DEF Disconnect, Expire, Rows, Sources
  <2> QED
    BY <1>2, <2>1, AccountsKept DEF Disconnect, Expire
<1>3. CASE Crash
  BY <1>3, AccountsKept DEF Crash, Idle
<1>4. ASSUME NEW j \in Slots, CallbackVerify(j) PROVE AccountsOK'
  <2>1. \A k \in Slots : slot'[k] = slot[k] \/ slot'[k].pc = "exchange"
    BY ZenonT(30), <1>4, Types DEF CallbackVerify, Idle
  <2> QED
    BY <1>4, <2>1, AccountsKept DEF CallbackVerify
<1>5. ASSUME NEW j \in Slots, CallbackStore(j) PROVE AccountsOK'
  <2>1. CASE UNCHANGED <<row, named, off, blended>>
    <3>1. \A k \in Slots : slot'[k] = slot[k] \/ slot'[k].pc = "idle"
      BY <1>5, FinishType DEF CallbackStore, Idle
    <3> QED
      BY <2>1, <3>1, AccountsKept
  <2>2. CASE ~UNCHANGED <<row, named, off, blended>>
    <3>1. PICK a \in Accounts, r \in Rows :
            /\ row' = [row EXCEPT !["own"] = r]
            /\ r.access = a /\ r.owner = a /\ r.refresh \in {None, a}
            /\ blended' = (blended \/ Blends(a))
      BY <1>5, <2>2, StoreRow
    <3>2. Whole(r) /\ Finish(j)
      BY <1>5, <3>1 DEF Whole, CallbackStore
    <3> QED
      BY <3>1, <3>2, AccountsReplaced
  <2> QED
    BY <2>1, <2>2
<1>6. ASSUME NEW j \in Slots, SelectRead(j) PROVE AccountsOK'
  <2>1. PICK site \in row["own"].sites :
          slot' = [slot EXCEPT ![j] = [Idle EXCEPT !.pc = "select", !.row =
                    [row["own"] EXCEPT !.status = "connected", !.site = site, !.choose = FALSE]]]
    BY <1>6 DEF SelectRead
  <2> DEFINE r == [row["own"] EXCEPT !.status = "connected", !.site = site, !.choose = FALSE]
  <2>2. slot'[j].pc = "select" /\ slot'[j].row = r /\ \A k \in Slots : k # j => slot'[k] = slot[k]
    BY <2>1, Types DEF Idle
  <2>3. r.access = row["own"].access /\ r.owner = row["own"].owner /\ r.refresh = row["own"].refresh
    BY Types DEF Rows
  <2>4. ~blended => Whole(r)
    BY <2>3 DEF AccountsOK, Whole, Sources
  <2> HIDE DEF r
  <2>5. UNCHANGED <<row, blended>>
    BY <1>6 DEF SelectRead
  <2> QED
    BY <2>2, <2>4, <2>5 DEF AccountsOK, At
<1>7. ASSUME NEW j \in Slots, SelectWrite(j) PROVE AccountsOK'
  <2>1. slot[j].row \in Rows /\ (~blended => Whole(slot[j].row))
    BY <1>7, Types DEF SelectWrite, Slot, AccountsOK
  <2> QED
    BY <1>7, <2>1, AccountsReplaced DEF SelectWrite
<1>8. ASSUME NEW j \in Slots, Reads(j) PROVE AccountsOK'
  <2>1. PICK src \in Sources, x \in Slot :
          /\ slot' = [slot EXCEPT ![j] = x] /\ x.src = src /\ x.row = row[src]
          /\ x.pc \in {"send", "refresh"}
          /\ x.pc = "refresh" => src = "own" /\ row["own"].refresh # None
          /\ UNCHANGED <<row, blended>>
    BY <1>8 DEF Reads
  <2>2. slot'[j] = x /\ \A k \in Slots : k # j => slot'[k] = slot[k]
    BY <2>1, FillSlot
  <2>3. ~blended /\ x.pc = "refresh" => x.src = "own" /\ x.row.refresh = row["own"].owner
    BY <2>1 DEF AccountsOK, Whole, Sources
  <2> QED
    BY <2>1, <2>2, <2>3 DEF AccountsOK, At
<1>9. ASSUME NEW j \in Slots, RefreshAccessToken(j) PROVE AccountsOK'
  <2>1. \A k \in Slots : slot'[k] = slot[k] \/ slot'[k].pc \in {"idle", "reread"}
    BY <1>9, RefreshSlot DEF Idle
  <2>2. CASE UNCHANGED row
    BY <1>9, <2>1, <2>2, AccountsKept DEF RefreshAccessToken
  <2>3. CASE ~UNCHANGED row
    <3>1. PICK r \in Rows :
            /\ row' = [row EXCEPT ![slot[j].src] = r] /\ slot[j].src \in Sources
            /\ r.access = slot[j].row.refresh /\ r.refresh = row[slot[j].src].refresh
            /\ r.owner = row[slot[j].src].owner
      BY <1>9, <2>3, RefreshedRow
    <3>2. slot[j].src = "own" /\ (~blended => slot[j].row.refresh = row["own"].owner)
      BY <1>9 DEF RefreshAccessToken, AccountsOK
    <3>3. blended' = blended
      BY <1>9 DEF RefreshAccessToken
    <3>4. /\ row'["own"] = r /\ \A o \in Sources : o # "own" => row'[o] = row[o]
      BY <3>1, <3>2, Types
    <3>5. ~blended => Whole(r) /\ r.owner = row["own"].owner
      BY <3>1, <3>2 DEF AccountsOK, Whole
    <3> QED
      BY <2>1, <3>3, <3>4, <3>5 DEF AccountsOK, At
  <2> QED
    BY <2>2, <2>3
<1>10. ASSUME NEW j \in Slots, Reread(j) \/ Sends(j) \/ GiveUp(j) \/ NotionTool(j)
       PROVE  AccountsOK'
  <2>1. \A k \in Slots : slot'[k] = slot[k] \/ slot'[k].pc \notin {"select", "refresh"}
    <3>1. CASE Reread(j) \/ NotionTool(j)
      BY <3>1, RereadSlot, NotionSlot, FillSlot
    <3>2. CASE Sends(j) \/ GiveUp(j)
      BY <3>2, FinishType DEF Sends, Deliver, GiveUp, Idle
    <3> QED
      BY <1>10, <3>1, <3>2
  <2>2. UNCHANGED <<row, blended>>
    BY <1>10 DEF Reread, Sends, Deliver, GiveUp, NotionTool
  <2> QED
    BY <2>1, <2>2, AccountsKept
<1> QED
  BY <1>1, <1>2, <1>3, <1>4, <1>5, <1>6, <1>7, <1>8, <1>9, <1>10, NextCases
     DEF vars, Authorize, StateExpires

(* A connection speaks for one account, its access token, its refresh      *)
(* token and its site alike, unless it was replaced during a renewal.      *)
THEOREM OneAccount == Spec => []RowIsOneAccount
<1>1. AccountsOK => RowIsOneAccount
  BY DEF AccountsOK, RowIsOneAccount, Whole, Sources
<1> QED
  BY <1>1, TypeInit, TypeNext, AccountsInit, AccountsNext, PTL DEF Spec

-----------------------------------------------------------------------------
(* The site of a row is the only one of the account or one the admin named *)
(* for this connection; so is that of a row read to be used.               *)
SiteOK(r, names) == r.choose \/ r.site = None \/ r.site \in names \/ {r.site} = r.sites

SitesOK ==
  /\ SiteOK(row["own"], named) /\ row["alias"].site = None
  /\ \A j \in Slots :
       /\ slot[j].pc \in {"send", "refresh"} => SiteOK(slot[j].row, slot[j].named)
       /\ slot[j].pc \in {"refresh", "reread"} => slot[j].src \in Sources
  /\ last.chosen

LEMMA WithSitesChosen ==
  ASSUME NEW r \in Rows, NEW sites \in SUBSET Sites, NEW w \in Wishes \cup {None}, NEW pick \in Sites,
         Matching(w, sites) # {} => pick \in Matching(w, sites)
  PROVE  SiteOK(WithSites(r, sites, w, pick), IF w = None THEN {} ELSE Match[w])
<1> DEFINE site == IF Matching(w, sites) # {} THEN pick
                   ELSE IF Cardinality(sites) = 1 THEN CHOOSE x \in sites : TRUE ELSE None
           new == WithSites(r, sites, w, pick)
<1>1. new.site = site /\ new.sites = sites
  BY DEF WithSites, Rows
<1>2. CASE Matching(w, sites) # {}
  BY <1>1, <1>2 DEF SiteOK, Matching
<1>3. CASE Matching(w, sites) = {} /\ Cardinality(sites) = 1
  BY <1>1, <1>3, OnlySite DEF SiteOK
<1>4. CASE Matching(w, sites) = {} /\ Cardinality(sites) # 1
  BY <1>1, <1>4 DEF SiteOK
<1> QED
  BY <1>2, <1>3, <1>4

LEMMA SitesInit == Init => SitesOK
<1> SUFFICES ASSUME Init PROVE SitesOK
  OBVIOUS
<1>1. ASSUME NEW r \in Handmade PROVE r.site = None
  <2>1. CASE r = NoRow
    BY <2>1 DEF NoRow
  <2>2. ASSUME NEW a \in Accounts,
               r = [NoRow EXCEPT !.status = "connected", !.access = a, !.owner = a]
        PROVE  r.site = None
    BY <2>2 DEF NoRow
  <2> QED
    BY <2>1, <2>2 DEF Handmade
<1>2. row["own"].site = None /\ row["alias"].site = None
  BY <1>1 DEF Init
<1> QED
  BY <1>2 DEF Init, SitesOK, SiteOK, Idle

(* Steps after which every slot is as it was, or neither sends nor renews. *)
LEMMA SitesKept ==
  ASSUME SitesOK, SiteOK(row["own"], named)', row'["alias"].site = None, last'.chosen,
         \A k \in Slots : slot'[k] = slot[k] \/ slot'[k].pc \notin {"send", "refresh", "reread"}
  PROVE  SitesOK'
BY DEF SitesOK

LEMMA SitesNext == TypeInv /\ SitesOK /\ [Next]_vars => SitesOK'
<1> SUFFICES ASSUME TypeInv, SitesOK, [Next]_vars PROVE SitesOK'
  OBVIOUS
<1> USE DEF history
<1>1. CASE UNCHANGED <<row, slot, named, last>>
  BY <1>1 DEF SitesOK, SiteOK
<1>2. CASE Disconnect \/ Expire
  <2>1. \A src \in Sources : /\ row'[src].site = row[src].site
                             /\ row'[src].sites = row[src].sites
                             /\ row'[src].choose = row[src].choose
    BY <1>2, Types DEF Disconnect, Expire, Rows, Sources
  <2>2. UNCHANGED <<slot, named, last>>
    BY <1>2 DEF Disconnect, Expire
  <2> QED
    BY <2>1, <2>2 DEF SitesOK, SiteOK, Sources
<1>3. CASE Crash
  BY <1>3, SitesKept DEF Crash, Idle, SitesOK, SiteOK
<1>4. ASSUME NEW j \in Slots, CallbackVerify(j) \/ SelectRead(j) \/ NotionTool(j) PROVE SitesOK'
  <2>1. \A k \in Slots : slot'[k] = slot[k] \/ slot'[k].pc \in {"exchange", "select", "notion"}
    <3>1. CASE NotionTool(j)
      BY <3>1, NotionSlot, FillSlot
    <3>2. CASE CallbackVerify(j) \/ SelectRead(j)
      BY ZenonT(30), <3>2, Types DEF CallbackVerify, SelectRead, Idle
    <3> QED
      BY <1>4, <3>1, <3>2
  <2>2. UNCHANGED <<row, named, last>>
    BY <1>4 DEF CallbackVerify, SelectRead, NotionTool
  <2> QED
    BY <2>1, <2>2, SitesKept DEF SitesOK, SiteOK
<1>5. ASSUME NEW j \in Slots, CallbackStore(j) PROVE SitesOK'
  <2> DEFINE w == state[slot[j].state].wish
  <2>1. \A k \in Slots : slot'[k] = slot[k] \/ slot'[k].pc = "idle"
    BY <1>5, FinishType DEF CallbackStore, Idle
  <2>2. w \in Wishes \cup {None}
    <3>1. slot[j].state \in States
      BY <1>5 DEF CallbackStore, TypeInv, StepsOK
    <3> QED
      BY <3>1, Types DEF State
  <2>3. CASE UNCHANGED <<row, named, off, blended>>
    BY <1>5, <2>1, <2>3, SitesKept DEF CallbackStore, SitesOK, SiteOK
  <2>4. CASE ~UNCHANGED <<row, named, off, blended>>
    <3>1. PICK a \in Accounts, refresh \in BOOLEAN, expires \in BOOLEAN :
            /\ IF provider = "jira"
                 THEN \E sites \in SUBSET Sites, pick \in Sites :
                        /\ Matching(w, sites) # {} => pick \in Matching(w, sites)
                        /\ UpsertIntegration(WithSites(Exchanged(a, refresh, expires), sites, w, pick))
                 ELSE UpsertIntegration(Exchanged(a, refresh, expires))
            /\ named' = IF w = None THEN {} ELSE Match[w]
      BY <1>5, <2>4 DEF CallbackStore
    <3> HIDE DEF w
    <3> DEFINE e == Exchanged(a, refresh, expires)
    <3>2. e \in Rows /\ e.site = None
      BY ExchangedType DEF Exchanged, NoRow
    <3> HIDE DEF e
    <3>3. \E r \in Rows : row' = [row EXCEPT !["own"] = r] /\ SiteOK(r, named')
      <4>1. CASE provider = "jira"
        <5>1. PICK sites \in SUBSET Sites, pick \in Sites :
                /\ Matching(w, sites) # {} => pick \in Matching(w, sites)
                /\ UpsertIntegration(WithSites(e, sites, w, pick))
          BY <3>1, <4>1 DEF e
        <5>2. /\ WithSites(e, sites, w, pick) \in Rows
              /\ SiteOK(WithSites(e, sites, w, pick), named')
          BY <2>2, <3>1, <3>2, <5>1, WithSitesRow, WithSitesChosen
        <5> QED
          BY <5>1, <5>2 DEF UpsertIntegration
      <4>2. CASE provider # "jira"
        BY <3>1, <3>2, <4>2 DEF UpsertIntegration, SiteOK, e
      <4> QED
        BY <4>1, <4>2
    <3>4. SiteOK(row["own"], named)' /\ row'["alias"].site = None
      BY <3>3, Types DEF SitesOK, Sources, SiteOK
    <3> QED
      BY <1>5, <2>1, <3>4, SitesKept DEF CallbackStore, SitesOK
  <2> QED
    BY <2>3, <2>4
<1>6. ASSUME NEW j \in Slots, SelectWrite(j) PROVE SitesOK'
  <2>1. \A k \in Slots : slot'[k] = slot[k] \/ slot'[k].pc = "idle"
    BY <1>6, FinishType DEF SelectWrite, Idle
  <2>2. row'["own"] = slot[j].row /\ row'["alias"] = row["alias"] /\ named' = named \cup {slot[j].row.site}
    BY <1>6, Types DEF SelectWrite, Sources
  <2> QED
    BY <1>6, <2>1, <2>2, SitesKept DEF SelectWrite, SitesOK, SiteOK
<1>7. ASSUME NEW j \in Slots, Reads(j) \/ Reread(j) PROVE SitesOK'
  <2>1. PICK x \in Slot :
          /\ slot' = [slot EXCEPT ![j] = x] /\ x.named = named
          /\ x.src \in Sources /\ x.row = row[x.src]
    <3>1. CASE Reads(j)
      BY <3>1 DEF Reads
    <3>2. CASE Reread(j)
      BY <3>2, RereadSlot, Types DEF Slot
    <3> QED
      BY <1>7, <3>1, <3>2
  <2>2. slot'[j] = x /\ \A k \in Slots : k # j => slot'[k] = slot[k]
    BY <2>1, FillSlot
  <2>3. SiteOK(x.row, x.named)
    BY <2>1 DEF SitesOK, SiteOK, Sources
  <2>4. UNCHANGED <<row, named, last>>
    BY <1>7 DEF Reads, Reread
  <2> QED
    BY <2>1, <2>2, <2>3, <2>4 DEF SitesOK, SiteOK
<1>8. ASSUME NEW j \in Slots, RefreshAccessToken(j) PROVE SitesOK'
  <2>1. UNCHANGED <<named, last>>
    BY <1>8 DEF RefreshAccessToken
  <2>2. SiteOK(row["own"], named)' /\ row'["alias"].site = None
    <3>1. CASE UNCHANGED row
      BY <2>1, <3>1 DEF SitesOK, SiteOK
    <3>2. CASE ~UNCHANGED row
      <4>1. PICK r \in Rows :
              /\ row' = [row EXCEPT ![slot[j].src] = r] /\ slot[j].src \in Sources
              /\ r.site = row[slot[j].src].site /\ r.choose = row[slot[j].src].choose
              /\ r.sites = row[slot[j].src].sites
        BY <1>8, <3>2, RefreshedRow
      <4>2. /\ row'[slot[j].src] = r /\ \A o \in Sources : o # slot[j].src => row'[o] = row[o]
        BY <4>1, WriteRow
      <4> QED
        BY <2>1, <4>1, <4>2 DEF SitesOK, SiteOK, Sources
    <3> QED
      BY <3>1, <3>2
  <2>3. slot' \in [Slots -> Slot] /\ \A k \in Slots : slot'[k] = slot[k] \/ slot'[k].pc \in {"idle", "reread"}
    BY <1>8, RefreshSlot DEF Idle
  <2>4. \A k \in Slots : slot'[k].src \in Sources
    BY <2>3 DEF Slot
  <2> QED
    BY <2>1, <2>2, <2>3, <2>4 DEF SitesOK
<1>9. ASSUME NEW j \in Slots, Sends(j) \/ GiveUp(j) PROVE SitesOK'
  <2>1. \A k \in Slots : slot'[k] = slot[k] \/ slot'[k].pc = "idle"
    BY <1>9, FinishType DEF Sends, Deliver, GiveUp, Idle
  <2>2. UNCHANGED <<row, named>>
    BY <1>9 DEF Sends, Deliver, GiveUp
  <2>3. last'.chosen
    <3>1. CASE GiveUp(j)
      BY <3>1 DEF GiveUp, SitesOK
    <3>2. CASE Sends(j)
      <4>1. PICK site \in Sites \cup {None} :
              /\ Deliver(j, site)
              /\ site # None => At(j, "send") /\ ~slot[j].row.choose /\ site = slot[j].row.site
        BY <3>2 DEF Sends
      <4>2. site = None \/ site \in slot[j].named \/ {site} = slot[j].row.sites
        BY <4>1 DEF SitesOK, SiteOK, At
      <4> QED
        BY <4>1, <4>2 DEF Deliver
    <3> QED
      BY <1>9, <3>1, <3>2
  <2> QED
    BY <2>1, <2>2, <2>3, SitesKept DEF SitesOK, SiteOK
<1> QED
  BY <1>1, <1>2, <1>3, <1>4, <1>5, <1>6, <1>7, <1>8, <1>9, NextCases
     DEF vars, Authorize, StateExpires

(* An issue is filed at the only site of the account or at one the admin   *)
(* named, whatever was connected, chosen or renewed before.                *)
THEOREM ChosenSites == Spec => []IssueGoesToAChosenSite
<1>1. SitesOK => IssueGoesToAChosenSite
  BY DEF SitesOK, IssueGoesToAChosenSite
<1> QED
  BY <1>1, TypeInit, TypeNext, SitesInit, SitesNext, PTL DEF Spec
=============================================================================
