---------------------------- MODULE Integrations ----------------------------
(***************************************************************************)
(* A tenant's connection to one outside service: the row of                *)
(* tenant_integrations that OAuth fills, and the calls that use its token. *)
(*                                                                         *)
(* Writers of the row are the API (callback, select-workspace, disconnect) *)
(* and every call that finds its token expired; they run in the API        *)
(* process, in the MCP server and in scripts, so a read and a later write  *)
(* of one handler are two steps even where the handler does not await.     *)
(* Providers do not meet: no handler touches the rows of two of them, only *)
(* of a provider and its older name.  So one provider is followed, any of  *)
(* them, chosen in the initial state.                                      *)
(*                                                                         *)
(* A token is known by the account it speaks for, encryption by its effect *)
(* (a token that cannot be read fails the call), an expiry by whether it   *)
(* has passed.                                                             *)
(***************************************************************************)
EXTENDS Naturals, FiniteSets

CONSTANTS
  Slots,      \* requests and calls in progress at a time
  States,     \* OAuth states handed out
  Accounts,   \* accounts of the service, other tokens' and this tenant's
  Sites,      \* Jira sites
  Wishes,     \* what an admin may ask for when connecting Jira
  Match,      \* Match[w]: the sites that satisfy it
  None

ASSUME IntegrationsAssumption ==
  /\ None \notin Accounts \cup Sites \cup Wishes
  /\ Match \in [Wishes -> SUBSET Sites] /\ IsFiniteSet(Sites)

Providers == {"slack", "google_gmail", "google_calendar", "jira", "notion"}

(* The older names that provider_lookup tries after the provider's own.    *)
HasAlias == {"google_gmail", "google_calendar"}

VARIABLES
  provider,
  row,        \* the rows: "own" and, of an older name, "alias"
  state,      \* _state_store
  slot,       \* requests and calls
  exchanges,  \* history: codes exchanged for a state, up to 2
  last,       \* history: of the last request that left: to a site the admin chose,
              \* by a call that began while disconnected
  named,      \* history: sites the admin named for this connection
  off,        \* history: rows disconnected, neither connected again by the admin nor by
              \* a refresh that was under way
  blended     \* history: a token was refreshed while the account was replaced

vars == <<provider, row, state, slot, exchanges, last, named, off, blended>>
history == <<exchanges, last, named, off, blended>>

NoRow == [status |-> "absent", access |-> None, refresh |-> None, due |-> "never",
          owner |-> None, site |-> None, choose |-> FALSE, sites |-> {}]
Idle  == [pc |-> "idle", src |-> "own", route |-> "connector", row |-> NoRow,
          state |-> None, named |-> {}, began |-> FALSE]

Goto(j, l)  == slot' = [slot EXCEPT ![j].pc = l]
At(j, l)    == slot[j].pc = l
Finish(j)   == slot' = [slot EXCEPT ![j] = Idle]
Unused      == [provider |-> None, wish |-> None, is |-> "unused"]

(* Rows of an older name, and Notion's, were put there by hand.            *)
Handmade == {NoRow} \cup
  {[NoRow EXCEPT !.status = "connected", !.access = a, !.owner = a] : a \in Accounts}

Init ==
  /\ provider \in Providers
  /\ row \in [{"own", "alias"} -> Handmade]
  /\ provider # "notion" => row["own"] = NoRow
  /\ provider \notin HasAlias => row["alias"] = NoRow
  /\ state = [s \in States |-> Unused]
  /\ slot  = [j \in Slots |-> Idle]
  /\ exchanges = [s \in States |-> 0]
  /\ last = [chosen |-> TRUE, began |-> FALSE]
  /\ named = {} /\ off = {} /\ blended = FALSE

-----------------------------------------------------------------------------
(* Connecting: authorize, callback                                         *)

PurgeExpired == [s \in States |-> IF state[s].is = "late" THEN [state[s] EXCEPT !.is = "gone"]
                                  ELSE state[s]]

(* Notion is not in the registry of _get_provider: 404.                    *)
Authorize ==
  /\ provider # "notion"
  /\ \E s \in States, w \in Wishes \cup {None} :
       /\ state[s] = Unused
       /\ provider # "jira" => w = None
       /\ state' = [PurgeExpired EXCEPT ![s] = [provider |-> provider, wish |-> w, is |-> "pending"]]
  /\ UNCHANGED <<provider, row, slot, history>>

VerifyState_Reusable(s) ==      \* mutant: a good state stays in the store
  state' = [state EXCEPT ![s].is = IF @ = "late" THEN "gone" ELSE @]

VerifyState(s) == state' = [state EXCEPT ![s].is = "gone"]

(* The browser comes back with a state, at the path of some provider, any  *)
(* number of times.  A state that is unknown, late or another provider's   *)
(* is a 400; it is taken from the store before its provider is compared.   *)
CallbackVerify(j) ==
  /\ At(j, "idle")
  /\ \E s \in States, path \in {provider, "another"} :
       /\ state[s] # Unused
       /\ VerifyState(s)
       /\ IF state[s].is = "pending" /\ path = state[s].provider
            THEN /\ slot' = [slot EXCEPT ![j] = [Idle EXCEPT !.pc = "exchange", !.state = s]]
                 /\ exchanges' = [exchanges EXCEPT ![s] = IF @ = 2 THEN 2 ELSE @ + 1]
            ELSE UNCHANGED <<slot, exchanges>>
  /\ UNCHANGED <<provider, row, last, named, off, blended>>

(* What the provider answers to exchange_code: the account, a refresh      *)
(* token or none (Slack has none), and whether the access token expires.   *)
Exchanged(a, refresh, expires) ==
  [NoRow EXCEPT !.status = "connected", !.access = a, !.owner = a,
                !.refresh = IF refresh /\ provider # "slack" THEN a ELSE None,
                !.due = IF expires /\ provider # "slack" THEN "later" ELSE "never"]

(* _resource_matches_desired: the sites that an address or a name fits.    *)
Matching(wish, sites) == IF wish = None THEN {} ELSE Match[wish] \cap sites

WithSites_FirstOne(r, sites, wish, pick) ==   \* mutant: the first of several is taken
  [r EXCEPT !.sites = sites, !.site = IF sites = {} THEN None ELSE CHOOSE x \in sites : TRUE,
            !.choose = sites = {}, !.status = IF sites = {} THEN "error" ELSE "connected"]

(* The site of a Jira connection: the first of its sites that the admin    *)
(* asked for, or the only one; else it waits for a choice.  A list that    *)
(* could not be read is an empty list.                                     *)
WithSites(r, sites, wish, pick) ==
  LET matching == Matching(wish, sites)
      site == IF matching # {} THEN pick
              ELSE IF Cardinality(sites) = 1 THEN CHOOSE x \in sites : TRUE ELSE None IN
  [r EXCEPT !.sites = sites, !.site = site, !.choose = site = None /\ sites # {},
            !.status = IF sites = {} THEN "error" ELSE "connected"]

UpsertIntegration_KeepsRefresh(r) ==    \* mutant: a missing refresh token leaves the old one
  row' = [row EXCEPT !["own"] = [r EXCEPT !.refresh = IF r.refresh = None THEN row["own"].refresh ELSE @]]

(* _db_upsert: every column is overwritten, with NULL too.                 *)
UpsertIntegration(r) == row' = [row EXCEPT !["own"] = r]

(* The account of the row changes while a token of the old one is renewed. *)
Blends(owner) ==
  /\ owner # row["own"].owner
  /\ \E k \in Slots : At(k, "refresh") /\ slot[k].src = "own"

CallbackStore(j) ==
  LET wish == state[slot[j].state].wish IN
  /\ At(j, "exchange")
  /\ \/ UNCHANGED <<row, named, off, blended>>              \* the exchange failed: 502
     \/ \E a \in Accounts, refresh, expires \in BOOLEAN :
          /\ IF provider = "jira"
               THEN \E sites \in SUBSET Sites, pick \in Sites :
                      /\ Matching(wish, sites) # {} => pick \in Matching(wish, sites)
                      /\ UpsertIntegration(WithSites(Exchanged(a, refresh, expires), sites, wish, pick))
               ELSE UpsertIntegration(Exchanged(a, refresh, expires))
          /\ named' = IF wish = None THEN {} ELSE Match[wish]
          /\ off' = off \ {"own"}
          /\ blended' = (blended \/ Blends(a))
  /\ Finish(j)
  /\ UNCHANGED <<provider, state, exchanges, last>>

-----------------------------------------------------------------------------
(* select_jira_workspace: read, change, write the whole row.               *)
SelectRead(j) ==
  LET r == row["own"] IN
  /\ At(j, "idle") /\ provider = "jira" /\ r.status # "absent"
  /\ \E site \in r.sites :                   \* a site not in the list is a 400
       slot' = [slot EXCEPT ![j] = [Idle EXCEPT !.pc = "select", !.row =
                  [r EXCEPT !.status = "connected", !.site = site, !.choose = FALSE]]]
  /\ UNCHANGED <<provider, row, state, history>>

SelectWrite(j) ==
  /\ At(j, "select")
  /\ row' = [row EXCEPT !["own"] = slot[j].row]
  /\ named' = named \cup {slot[j].row.site}
  /\ off' = off \ {"own"}
  /\ blended' = (blended \/ Blends(slot[j].row.owner))
  /\ Finish(j)
  /\ UNCHANGED <<provider, state, exchanges, last>>

(* The status alone; the tokens stay.  Any name is accepted.               *)
Disconnect ==
  /\ \E src \in {"own", "alias"} :
       /\ row[src].status # "absent"
       /\ row' = [row EXCEPT ![src].status = "disconnected"]
       /\ off' = off \cup {src}
  /\ UNCHANGED <<provider, state, slot, exchanges, last, named, blended>>

-----------------------------------------------------------------------------
(* Using the token                                                         *)

(* The first connected row of the provider's names, else the first row.    *)
ResolveIntegration ==
  IF row["own"].status = "connected" THEN "own"
  ELSE IF row["alias"].status = "connected" \/ row["own"].status = "absent" THEN "alias"
  ELSE "own"

(* A row of an older name has no OAuth client, Slack's cannot refresh.     *)
CanRefresh(src) == src = "own" /\ provider \in {"google_gmail", "google_calendar", "jira"}

ReadRow_AnyStatus(j, src, route) ==      \* mutant: the status is not asked for
  LET r == row[src] IN
  /\ r.status # "absent"
  /\ r.due = "past" => r.refresh # None /\ CanRefresh(src)
  /\ slot' = [slot EXCEPT ![j] = [Idle EXCEPT !.pc = IF r.due = "past" THEN "refresh" ELSE "send",
                !.src = src, !.route = route, !.row = r, !.named = named,
                !.began = src \in off]]

(* get_tenant_token and the _oauth_execute of the connectors: nothing      *)
(* without a row or with a disconnected one; an expired token is renewed   *)
(* first.                                                                  *)
ReadRow(j, src, route) ==
  LET r == row[src] IN
  /\ r.status \notin {"absent", "disconnected"}
  /\ r.due = "past" => r.refresh # None /\ CanRefresh(src)
  /\ slot' = [slot EXCEPT ![j] = [Idle EXCEPT !.pc = IF r.due = "past" THEN "refresh" ELSE "send",
                !.src = src, !.route = route, !.row = r, !.named = named,
                !.began = src \in off]]

ConnectorRead(j) ==
  /\ At(j, "idle") /\ provider # "notion"
  /\ ReadRow(j, "own", "connector")
  /\ UNCHANGED <<provider, row, state, history>>

GetTenantToken(j) ==
  /\ At(j, "idle") /\ provider # "notion"
  /\ ReadRow(j, ResolveIntegration, "server")
  /\ UNCHANGED <<provider, row, state, history>>

(* The provider answers with a token of the account; it is written with    *)
(* status connected whatever the row says now.  An answer without an       *)
(* expiry leaves the old one, and a rotated refresh token is dropped.      *)
RefreshAccessToken(j) ==
  LET r == slot[j].row IN
  /\ At(j, "refresh")
  /\ \/ /\ \E due \in {"later", row[slot[j].src].due} :
             row' = [row EXCEPT ![slot[j].src].access = r.refresh,
                                ![slot[j].src].due = due,
                                ![slot[j].src].status = "connected"]
        /\ off' = IF slot[j].began THEN off ELSE off \ {slot[j].src}
        /\ Goto(j, "reread")
     \/ /\ Finish(j)                              \* tenant_token_expired_refresh_failed
        /\ UNCHANGED <<row, off>>
  /\ UNCHANGED <<provider, state, exchanges, last, named, blended>>

(* The row is read again for the call; its status is not looked at again.  *)
Reread(j) ==
  /\ At(j, "reread")
  /\ slot' = [slot EXCEPT ![j].pc = "send", ![j].row = row[slot[j].src],
                        ![j].named = named]
  /\ UNCHANGED <<provider, row, state, history>>

Sending(j, p, route) == At(j, "send") /\ provider = p /\ slot[j].route = route

(* One request with the token that was read; its answer (success, an HTTP  *)
(* error, ok = false, an exception) changes nothing here.                  *)
Deliver(j, site) ==
  /\ last' = [began |-> slot[j].began,
              chosen |-> site = None \/ site \in slot[j].named \/ {site} = slot[j].row.sites]
  /\ Finish(j)
  /\ UNCHANGED <<provider, row, state, exchanges, named, off, blended>>

(* A token that cannot be decrypted, no recipient: failed or skipped.      *)
GiveUp(j) ==
  /\ At(j, "send")
  /\ Finish(j)
  /\ UNCHANGED <<provider, row, state, history>>

SlackSend(j)    == Sending(j, "slack", "connector") /\ Deliver(j, None)
SlackTool(j)    == Sending(j, "slack", "server") /\ Deliver(j, None)
GmailSend(j)    == Sending(j, "google_gmail", "connector") /\ Deliver(j, None)
GmailTool(j)    == Sending(j, "google_gmail", "server") /\ Deliver(j, None)
CalendarSend(j) == Sending(j, "google_calendar", "connector") /\ Deliver(j, None)
CalendarTool(j) == Sending(j, "google_calendar", "server") /\ Deliver(j, None)

(* A Jira issue needs a site: none while a choice is asked for.            *)
CloudId(r) == IF r.choose THEN None ELSE r.site

JiraSend(j) ==
  /\ Sending(j, "jira", "connector")
  /\ CloudId(slot[j].row) # None
  /\ Deliver(j, CloudId(slot[j].row))

JiraTool(j) ==
  /\ Sending(j, "jira", "server")
  /\ CloudId(slot[j].row) # None
  /\ Deliver(j, CloudId(slot[j].row))

(* Notion: the row's token whatever its status, else the environment's;    *)
(* the connector knows only the environment's.                             *)
NotionTool(j) ==
  /\ At(j, "idle") /\ provider = "notion" /\ row["own"].status # "absent"
  /\ slot' = [slot EXCEPT ![j] = [Idle EXCEPT !.pc = "notion", !.row = row["own"],
                                              !.began = "own" \in off]]
  /\ UNCHANGED <<provider, row, state, history>>

NotionPage(j) ==
  /\ At(j, "notion")
  /\ Deliver(j, None)

-----------------------------------------------------------------------------
(* Time passes: an access token expires, a state is ten minutes old.       *)
Expire ==
  /\ \E src \in {"own", "alias"} :
       /\ row[src].due = "later"
       /\ row' = [row EXCEPT ![src].due = "past"]
  /\ UNCHANGED <<provider, state, slot, history>>

StateExpires ==
  /\ \E s \in States :
       /\ state[s].is = "pending"
       /\ state' = [state EXCEPT ![s].is = "late"]
  /\ UNCHANGED <<provider, row, slot, history>>

(* A process stops; the API process forgets the states it handed out.      *)
Crash ==
  /\ slot' = [j \in Slots |-> Idle]
  /\ state' = [s \in States |-> IF state[s].is = "unused" THEN Unused
                                ELSE [state[s] EXCEPT !.is = "gone"]]
  /\ UNCHANGED <<provider, row, history>>

Next ==
  \/ Authorize \/ Disconnect \/ Expire \/ StateExpires \/ Crash
  \/ \E j \in Slots :
       \/ CallbackVerify(j) \/ CallbackStore(j) \/ SelectRead(j) \/ SelectWrite(j)
       \/ ConnectorRead(j) \/ GetTenantToken(j) \/ RefreshAccessToken(j) \/ Reread(j)
       \/ SlackSend(j) \/ SlackTool(j) \/ GmailSend(j) \/ GmailTool(j)
       \/ CalendarSend(j) \/ CalendarTool(j) \/ JiraSend(j) \/ JiraTool(j)
       \/ NotionTool(j) \/ NotionPage(j) \/ GiveUp(j)

Spec == Init /\ [][Next]_vars

-----------------------------------------------------------------------------
Rows == [status : {"absent", "connected", "disconnected", "error"},
         access : Accounts \cup {None}, refresh : Accounts \cup {None},
         due : {"never", "later", "past"}, owner : Accounts \cup {None},
         site : Sites \cup {None}, choose : BOOLEAN, sites : SUBSET Sites]

TypeOK ==
  /\ provider \in Providers
  /\ row \in [{"own", "alias"} -> Rows]
  /\ state \in [States -> [provider : Providers \cup {None}, wish : Wishes \cup {None},
                           is : {"unused", "pending", "late", "gone"}]]
  /\ slot \in [Slots -> [pc : {"idle", "exchange", "select", "refresh", "reread", "send", "notion"},
                         src : {"own", "alias"}, route : {"connector", "server"}, row : Rows,
                         state : States \cup {None}, named : SUBSET Sites,
                         began : BOOLEAN]]
  /\ exchanges \in [States -> 0..2]
  /\ last \in [chosen : BOOLEAN, began : BOOLEAN]
  /\ named \subseteq Sites /\ off \subseteq {"own", "alias"} /\ blended \in BOOLEAN

(* One consent of the admin connects one account: however often the        *)
(* browser comes back with a state, and wherever, a code is exchanged for  *)
(* it at most once.                                                        *)
OneExchangePerState == \A s \in States : exchanges[s] <= 1

(* An issue goes to the only site of the account or to one the admin asked *)
(* for, whatever was reconnected or chosen in between.                     *)
IssueGoesToAChosenSite == last.chosen

(* The tokens and the site of a connection belong to one account, as long  *)
(* as no token was being refreshed when the account was replaced.          *)
RowIsOneAccount ==
  ~blended => \A src \in {"own", "alias"} :
    row[src].access = row[src].owner /\ row[src].refresh \in {None, row[src].owner}

(* A tenant that disconnected stays so: a call that began afterwards sends *)
(* nothing.  A refresh that was under way then connects the row again (see *)
(* the hazards), and Notion's row is used whatever its status.             *)
DisconnectStays ==
  last.began => provider = "notion"
=============================================================================
