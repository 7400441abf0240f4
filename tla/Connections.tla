---------------------------- MODULE Connections ----------------------------
(***************************************************************************)
(* One user's connected accounts and the tokens behind them: the consent   *)
(* round trip (oauth-start, oauth-complete), the token refresh of a sync   *)
(* or an approved action (_shared/oauth.ts, getAccessToken) and the        *)
(* disconnect (accounts-disconnect), while grants are withdrawn at the     *)
(* provider and the encryption key is rotated.                             *)
(*                                                                         *)
(* A call is one invocation; every request it makes to the database or the *)
(* provider is a step of its own.  A consent is also the grant it yields.  *)
(*                                                                         *)
(* Abstracted: scopes and kinds, what a plan allows (both may refuse a     *)
(* consent), rate limits, profiles, the audit trail, and what the tokens   *)
(* are used for.  A mailbox is a provider account, its provider included.  *)
(***************************************************************************)
EXTENDS Integers, FiniteSets

CONSTANTS
  Accounts,   \* ids of connected_accounts rows, never used twice
  Mailboxes,  \* the provider accounts the user can sign into
  Revocable,  \* those whose provider has an endpoint to revoke a token
  Consents,   \* rows of oauth_states, and the grants they end in
  Calls,      \* invocations that may overlap
  MaxKey,     \* bound: the last version of the encryption key
  MaxFaults,  \* bound: calls that die and requests that fail
  None

ASSUME BoundsAssumption == MaxKey \in Nat \ {0} /\ MaxFaults \in Nat /\ Revocable \subseteq Mailboxes

Keys == 1 .. MaxKey
Status == {"connected", "expired", "revoked", "disconnected"}
Row == [mailbox : Mailboxes, status : Status, primary : BOOLEAN]

\* A sealed token: the grant it belongs to, the key it was sealed with and the
\* key version written beside it.
Secret == [grant : Consents, key : Keys, version : Keys]
Tokens == [access : Secret, fresh : BOOLEAN, refresh : Secret \cup {None}]

ASSUME NoneAssumption ==
  None \notin Accounts \cup Mailboxes \cup Consents \cup Status \cup Row \cup Secret \cup Tokens

VARIABLES
  state,       \* oauth_states: not made yet, there, or deleted
  names,       \* the account a consent is to widen
  picked,      \* the mailbox the user signed into at the provider
  live,        \* the grants the provider honours
  account,     \* connected_accounts
  used,        \* the ids it has used
  credential,  \* oauth_credentials
  bound,       \* how often each consent was bound to an account
  key,         \* OAUTH_ENCRYPTION_KEY_VERSION
  call,        \* what each invocation holds
  faults       \* how many faults the bound has let happen

vars == <<state, names, picked, live, account, used, credential, bound, key, call, faults>>
provider == <<picked, live>>
consents == <<state, names, bound>>
rows == <<account, used>>

Idle == [step |-> "idle", grant |-> None, account |-> None, primary |-> FALSE, mark |-> None]

Call ==
  [step : {"idle", "exchange", "lookup", "total", "upsert", "store", "load", "ask", "keep", "mark",
           "revoke", "recall", "forget", "unlink", "delete"},
   grant : Consents \cup {None}, account : Accounts \cup {None}, primary : BOOLEAN,
   mark : Status \cup {None}]

TypeOK ==
  /\ state \in [Consents -> {"new", "open", "gone"}]
  /\ names \in [Consents -> Accounts \cup {None}]
  /\ picked \in [Consents -> Mailboxes \cup {None}]
  /\ live \subseteq Consents
  /\ account \in [Accounts -> Row \cup {None}]
  /\ used \subseteq Accounts
  /\ credential \in [Accounts -> Tokens \cup {None}]
  /\ bound \in [Consents -> Nat]
  /\ key \in Keys
  /\ call \in [Calls -> Call]
  /\ faults \in 0 .. MaxFaults

Init ==
  /\ state = [s \in Consents |-> "new"]
  /\ names = [s \in Consents |-> None]
  /\ picked = [s \in Consents |-> None]
  /\ live = {}
  /\ account = [a \in Accounts |-> None]
  /\ used = {}
  /\ credential = [a \in Accounts |-> None]
  /\ bound = [s \in Consents |-> 0]
  /\ key = 1
  /\ call = [p \in Calls |-> Idle]
  /\ faults = 0

At(p, step) == call[p].step = step
Exists(a) == account[a] # None
Done(p) == call' = [call EXCEPT ![p] = Idle]
Fault == faults < MaxFaults /\ faults' = faults + 1

-----------------------------------------------------------------------------
(* The round trip through the browser *)

\* oauth-start: a consent for a new account or to widen one of the user's.
Start(s, a) ==
  /\ state[s] = "new"
  /\ a # None => Exists(a)
  /\ state' = [state EXCEPT ![s] = "open"]
  /\ names' = [names EXCEPT ![s] = a]
  /\ UNCHANGED <<provider, rows, credential, bound, key, call, faults>>

\* The user signs into a mailbox, not necessarily the one that was meant.
SignIn(s, m) ==
  /\ state[s] # "new" /\ picked[s] = None
  /\ picked' = [picked EXCEPT ![s] = m]
  /\ live' = live \cup {s}
  /\ UNCHANGED <<consents, rows, credential, key, call, faults>>

\* Ten minutes pass: the sweep deletes the state, or its late use does.
Lapse(s) ==
  /\ state[s] = "open"
  /\ state' = [state EXCEPT ![s] = "gone"]
  /\ UNCHANGED <<names, bound, provider, rows, credential, key, call, faults>>

\* Mutant: the state is read, and left for the sweep.
ConsumeReading(p, s) ==
  /\ At(p, "idle")
  /\ state[s] = "open" /\ picked[s] # None
  /\ call' = [call EXCEPT ![p].step = "exchange", ![p].grant = s]
  /\ UNCHANGED <<consents, provider, rows, credential, key, faults>>

\* The redirect reaches oauth-complete, perhaps twice: the DELETE decides.
Consume(p, s) ==
  /\ At(p, "idle")
  /\ state[s] = "open" /\ picked[s] # None
  /\ state' = [state EXCEPT ![s] = "gone"]
  /\ call' = [call EXCEPT ![p].step = "exchange", ![p].grant = s]
  /\ UNCHANGED <<names, bound, provider, rows, credential, key, faults>>

Exchange(p) ==
  /\ At(p, "exchange")
  /\ IF call[p].grant \in live
     THEN call' = [call EXCEPT ![p].step = "lookup"]
     ELSE Done(p)
  /\ UNCHANGED <<consents, provider, rows, credential, key, faults>>

\* The account the consent named, or the one that has the mailbox already.
Found(s) ==
  {a \in Accounts : Exists(a) /\ (names[s] = a \/ (names[s] = None /\ account[a].mailbox = picked[s]))}

\* Another mailbox than the named account's ends the call.
Lookup(p) ==
  /\ At(p, "lookup")
  /\ LET s == call[p].grant
     IN \/ \E a \in Found(s) :
             IF account[a].mailbox = picked[s]
             THEN call' = [call EXCEPT ![p].step = "upsert", ![p].primary = account[a].primary]
             ELSE Done(p)
        \/ Found(s) = {} /\ call' = [call EXCEPT ![p].step = "total"]
        \/ Done(p)
  /\ UNCHANGED <<consents, provider, rows, credential, key, faults>>

\* The first account of all is the primary one.
Total(p) ==
  /\ At(p, "total")
  /\ call' = [call EXCEPT ![p].step = "upsert", ![p].primary = \A a \in Accounts : ~Exists(a)]
  /\ UNCHANGED <<consents, provider, rows, credential, key, faults>>

\* Mutant: the conflict target leaves out the external id.
TargetAny(m) ==
  LET any == {a \in Accounts : Exists(a)}
  IN IF any # {} THEN any ELSE Accounts \ used

\* The row the upsert lands on: the mailbox's, or a new one.
Target(m) ==
  LET same == {a \in Accounts : Exists(a) /\ account[a].mailbox = m}
  IN IF same # {} THEN same ELSE Accounts \ used

PrimaryTaken(a) == \E b \in Accounts \ {a} : Exists(b) /\ account[b].primary

Bind(p, a) ==
  /\ account' = [account EXCEPT ![a] =
       [mailbox |-> picked[call[p].grant], status |-> "connected", primary |-> call[p].primary]]
  /\ used' = used \cup {a}
  /\ bound' = [bound EXCEPT ![call[p].grant] = @ + 1]
  /\ call' = [call EXCEPT ![p].step = "store", ![p].account = a]

\* Mutant: without the partial unique index.
UpsertUnindexed(p) ==
  /\ At(p, "upsert")
  /\ \E a \in Target(picked[call[p].grant]) : Bind(p, a)
  /\ UNCHANGED <<state, names, provider, credential, key, faults>>

\* A second primary account violates the index and ends the call.
Upsert(p) ==
  /\ At(p, "upsert")
  /\ \E a \in Target(picked[call[p].grant]) :
       IF call[p].primary /\ PrimaryTaken(a)
       THEN Done(p) /\ UNCHANGED <<account, used, bound>>
       ELSE Bind(p, a)
  /\ UNCHANGED <<state, names, provider, credential, key, faults>>

-----------------------------------------------------------------------------
(* Tokens are sealed and stored *)

Sealed(g) == [grant |-> g, key |-> key, version |-> key]

\* Mutant: one version for both tokens, as before 0018_refresh_key_version.sql.
WrittenOneVersion(old, g, rotated) ==
  [access |-> Sealed(g), fresh |-> TRUE,
   refresh |-> IF rotated THEN Sealed(g)
               ELSE IF old = None \/ old.refresh = None THEN None
               ELSE [old.refresh EXCEPT !.version = key]]

\* An answer without a refresh token leaves the stored one.
Written(old, g, rotated) ==
  [access |-> Sealed(g), fresh |-> TRUE,
   refresh |-> IF rotated THEN Sealed(g) ELSE IF old = None THEN None ELSE old.refresh]

\* storeTokens; the foreign key refuses it once the account is gone.
Write(a, g) ==
  /\ Exists(a)
  /\ \E rotated \in BOOLEAN : credential' = [credential EXCEPT ![a] = Written(credential[a], g, rotated)]

StoreTokens(p) ==
  /\ At(p, "store")
  /\ \/ Write(call[p].account, call[p].grant)
     \/ ~Exists(call[p].account) /\ UNCHANGED credential
  /\ Done(p)
  /\ UNCHANGED <<consents, provider, rows, key, faults>>

-----------------------------------------------------------------------------
(* A sync, or an approved action, asks for an access token *)

\* A sync lists the accounts that read connected; an approved action also takes
\* one that reads expired.
Begin(p, a) ==
  /\ At(p, "idle")
  /\ Exists(a) /\ account[a].status \in {"connected", "expired"}
  /\ call' = [call EXCEPT ![p].step = "load", ![p].account = a]
  /\ UNCHANGED <<consents, provider, rows, credential, key, faults>>

Opens(secret, version) == secret.key = version

\* No row, a token that is still valid, or one that cannot be opened ends the call.
Load(p) ==
  /\ At(p, "load")
  /\ LET held == credential[call[p].account]
     IN IF held = None \/ held.fresh THEN Done(p)
        ELSE IF held.refresh = None
        THEN call' = [call EXCEPT ![p].step = "mark", ![p].mark = "expired"]
        ELSE IF Opens(held.refresh, held.refresh.version)
        THEN call' = [call EXCEPT ![p].step = "ask", ![p].grant = held.refresh.grant]
        ELSE Done(p)
  /\ UNCHANGED <<consents, provider, rows, credential, key, faults>>

\* The provider answers with a token or with invalid_grant, or not at all.
Ask(p) ==
  /\ At(p, "ask")
  /\ \/ /\ call[p].grant \in live
        /\ call' = [call EXCEPT ![p].step = "keep"]
        /\ UNCHANGED faults
     \/ /\ call[p].grant \notin live
        /\ call' = [call EXCEPT ![p].step = "mark", ![p].mark = "revoked"]
        /\ UNCHANGED faults
     \/ /\ Fault
        /\ call' = [call EXCEPT ![p].step = "mark", ![p].mark = "expired"]
  /\ UNCHANGED <<consents, provider, rows, credential, key>>

Keep(p) ==
  /\ At(p, "keep")
  /\ \/ Write(call[p].account, call[p].grant) /\ call' = [call EXCEPT ![p].step = "mark", ![p].mark = "connected"]
     \/ ~Exists(call[p].account) /\ Done(p) /\ UNCHANGED credential
  /\ UNCHANGED <<consents, provider, rows, key, faults>>

\* markAccountStatus, by id, whatever the row says by now.
MarkStatus(a, status) ==
  account' = IF Exists(a) THEN [account EXCEPT ![a].status = status] ELSE account

Mark(p) ==
  /\ At(p, "mark")
  /\ MarkStatus(call[p].account, call[p].mark)
  /\ Done(p)
  /\ UNCHANGED <<consents, provider, used, credential, key, faults>>

-----------------------------------------------------------------------------
(* The user disconnects an account *)

\* Mutant: the account and the mark change places.
DisconnectSwapped(p, a) ==
  /\ At(p, "idle")
  /\ Exists(a)
  /\ call' = [call EXCEPT ![p].step = "revoke", ![p].account = "disconnected", ![p].mark = a]
  /\ UNCHANGED <<consents, provider, rows, credential, key, faults>>

Disconnect(p, a) ==
  /\ At(p, "idle")
  /\ Exists(a)
  /\ \/ call' = [call EXCEPT ![p].step = "revoke", ![p].account = a, ![p].mark = "disconnected"]
     \/ call' = [call EXCEPT ![p].step = "forget", ![p].account = a]
  /\ UNCHANGED <<consents, provider, rows, credential, key, faults>>

CanRevoke(held) ==
  held # None /\ held.refresh # None /\ picked[held.refresh.grant] \in Revocable

\* revokeAndDelete opens the refresh token with the access token's key version;
\* whatever goes wrong, the disconnect goes on.
Revoke(p) ==
  /\ At(p, "revoke")
  /\ LET held == credential[call[p].account]
     IN IF CanRevoke(held) /\ Opens(held.refresh, held.access.version)
        THEN call' = [call EXCEPT ![p].step = "recall", ![p].grant = held.refresh.grant]
        ELSE call' = [call EXCEPT ![p].step = "forget"]
  /\ UNCHANGED <<consents, provider, rows, credential, key, faults>>

\* The provider withdraws every grant for the mailbox.
Withdraw(s) == live' = {g \in live : picked[g] # picked[s]}

Recall(p) ==
  /\ At(p, "recall")
  /\ \/ Withdraw(call[p].grant) /\ UNCHANGED faults
     \/ Fault /\ UNCHANGED live
  /\ call' = [call EXCEPT ![p].step = "forget"]
  /\ UNCHANGED <<consents, picked, rows, credential, key>>

\* Nobody looks at whether the credentials went, or whether the mark was written.
Forget(p) ==
  /\ At(p, "forget")
  /\ \/ credential' = [credential EXCEPT ![call[p].account] = None] /\ UNCHANGED faults
     \/ Fault /\ UNCHANGED credential
  /\ call' = [call EXCEPT ![p].step = IF call[p].mark = None THEN "delete" ELSE "unlink"]
  /\ UNCHANGED <<consents, provider, rows, key>>

Unlink(p) ==
  /\ At(p, "unlink")
  /\ \/ MarkStatus(call[p].account, call[p].mark) /\ UNCHANGED faults
     \/ Fault /\ UNCHANGED account
  /\ call' = [call EXCEPT ![p].step = "delete"]
  /\ UNCHANGED <<consents, provider, used, credential, key>>

\* Mutant: nothing cascades.
DeleteAlone(p) ==
  /\ At(p, "delete")
  /\ account' = [account EXCEPT ![call[p].account] = None]
  /\ Done(p)
  /\ UNCHANGED <<consents, provider, used, credential, key, faults>>

\* The row goes, and with it its credentials and the consents that name it.
Delete(p) ==
  /\ At(p, "delete")
  /\ LET a == call[p].account
     IN /\ account' = [account EXCEPT ![a] = None]
        /\ credential' = [credential EXCEPT ![a] = None]
        /\ state' = [s \in Consents |-> IF state[s] = "open" /\ names[s] = a THEN "gone" ELSE state[s]]
  /\ Done(p)
  /\ UNCHANGED <<names, bound, provider, used, key, faults>>

-----------------------------------------------------------------------------

\* An exception, or the end of an invocation: what it has done stays done.
GiveUp(p) ==
  /\ ~At(p, "idle")
  /\ Fault
  /\ Done(p)
  /\ UNCHANGED <<consents, provider, rows, credential, key>>

\* Access tokens last an hour.
Expire(a) ==
  /\ credential[a] # None /\ credential[a].fresh
  /\ credential' = [credential EXCEPT ![a].fresh = FALSE]
  /\ UNCHANGED <<consents, provider, rows, key, call, faults>>

\* The user withdraws a grant at the provider.
WithdrawnByOwner(s) ==
  /\ s \in live
  /\ Withdraw(s)
  /\ UNCHANGED <<consents, picked, rows, credential, key, call, faults>>

RotateKey ==
  /\ key < MaxKey
  /\ key' = key + 1
  /\ UNCHANGED <<consents, provider, rows, credential, call, faults>>

Proceed(p) ==
  \/ Exchange(p) \/ Lookup(p) \/ Total(p) \/ Upsert(p) \/ StoreTokens(p)
  \/ Load(p) \/ Ask(p) \/ Keep(p) \/ Mark(p)
  \/ Revoke(p) \/ Recall(p) \/ Forget(p) \/ Unlink(p) \/ Delete(p)

Next ==
  \/ \E p \in Calls : Proceed(p) \/ GiveUp(p)
  \/ \E p \in Calls, s \in Consents : Consume(p, s)
  \/ \E p \in Calls, a \in Accounts : Begin(p, a) \/ Disconnect(p, a)
  \/ \E s \in Consents, a \in Accounts \cup {None} : Start(s, a)
  \/ \E s \in Consents, m \in Mailboxes : SignIn(s, m)
  \/ \E s \in Consents : Lapse(s) \/ WithdrawnByOwner(s)
  \/ \E a \in Accounts : Expire(a)
  \/ RotateKey

Spec == Init /\ [][Next]_vars

-----------------------------------------------------------------------------
(* What the rest of the product sees of the accounts *)

\* The consents an account was made or renewed with.
Spent == {s \in Consents : bound[s] > 0}

GrantsOf(tokens) ==
  IF tokens = None THEN {}
  ELSE {tokens.access.grant} \cup IF tokens.refresh = None THEN {} ELSE {tokens.refresh.grant}

Held == [a \in Accounts |-> GrantsOf(credential[a])]

Connected == INSTANCE Links WITH spent <- Spent, held <- Held

-----------------------------------------------------------------------------
(* Properties *)

\* Consents, refreshes and disconnects that overlap, die and fail half-way amount
\* to links made, renewed and dropped in one step each: a consent is spent once
\* (oauth.ts 141), on the only row of its mailbox, and no row ever changes hands.
ImplementsLinks == Connected!Spec

\* Whatever account the user signs into, a row only ever holds tokens of its own
\* mailbox: a step-up, a reconnect or a slow refresh never swaps which mailbox is
\* read (oauth-complete 138-143).
TokensMatch ==
  \A a \in Accounts : Exists(a) /\ credential[a] # None =>
    /\ picked[credential[a].access.grant] = account[a].mailbox
    /\ credential[a].refresh # None => picked[credential[a].refresh.grant] = account[a].mailbox

\* Neither a refresh nor a consent that was under way leaves credentials, or a
\* consent, for an account that was disconnected.
NothingLeftBehind ==
  \A a \in Accounts : ~Exists(a) =>
    credential[a] = None /\ \A s \in Consents : names[s] = a => state[s] # "open"

\* First accounts connected together do not both become the primary one.
OnePrimary ==
  \A a, b \in Accounts :
    Exists(a) /\ Exists(b) /\ account[a].primary /\ account[b].primary => a = b

\* A consent is bound once, however often the redirect arrives (oauth.ts 141).
BoundOnce == \A s \in Consents : bound[s] <= 1

\* A rotation of the key leaves every stored token readable, through refreshes
\* that replace only one of the two (0018_refresh_key_version.sql).
Readable ==
  \A a \in Accounts : credential[a] # None =>
    /\ credential[a].access.key = credential[a].access.version
    /\ credential[a].refresh # None => credential[a].refresh.key = credential[a].refresh.version

\* "Provider-side revocation is attempted first" (accounts-disconnect 11): a
\* disconnect that finds a refresh token, and fails at nothing, has asked.
RevocationIsAttempted ==
  [][\A p \in Calls :
       Revoke(p) /\ CanRevoke(credential[call[p].account]) => call'[p].step = "recall"]_vars
=============================================================================
