------------------------------ MODULE WalletLink ------------------------------
(***************************************************************************)
(* Linking two wallets to one account (apps/api/src/services/walletLink.ts *)
(* with the functions of apps/api/sql/wallet_merge.sql): createLinkRequest,*)
(* confirmLink with merge_accounts, unlinkWallet with unlink_wallet, and   *)
(* an award of points (addPoints) that overlaps them.                      *)
(*                                                                         *)
(* Every await of a handler is a step of its own.  merge_accounts locks    *)
(* both accounts after its first lookup: what it does under the locks is   *)
(* one step.  Every wallet has signed in before, so getOrCreate finds its  *)
(* account.  A wallet can pay for any token; a payment that is not found,  *)
(* like any error, ends the request (Throws).                              *)
(***************************************************************************)
EXTENDS Integers, FiniteSets

CONSTANTS
    Wallets,     \* wallet addresses
    HomeOf,      \* the account each wallet has created, ids from 1
    Nobody,      \* no account, no wallet, no token
    Requests,    \* requests served at a time
    LinkBonus,   \* getLinkBonusPp()
    MaxAccounts, \* bound on the accounts, those merged away included
    MaxTokens,   \* bound on the link requests
    MaxAwards    \* bound on the awards

MAX_WALLETS_PER_ACCOUNT == 2
Accounts == 1 .. MaxAccounts
Tokens == 1 .. MaxTokens

WalletLinkAssumption ==
    /\ IsFiniteSet(Wallets) /\ Wallets # {} /\ Cardinality(Wallets) <= MaxAccounts
    /\ HomeOf \in [Wallets -> 1 .. Cardinality(Wallets)]
    /\ \A v, w \in Wallets : HomeOf[v] = HomeOf[w] => v = w
    /\ Nobody \notin Accounts \cup Wallets \cup Tokens
    /\ LinkBonus \in Nat \ {0} /\ MaxAccounts \in Nat /\ MaxTokens \in Nat /\ MaxAwards \in Nat

VARIABLES
    wallet,  \* user_wallets: the account of a wallet, and whether it is its primary one
    users,   \* users: address (Nobody once merged away) and total_points
    lastId,  \* the sequence users.id comes from
    ledger,  \* point_events: sum of an account
    unlogged,\* history: awards of an account whose event was not inserted
    link,    \* wallet_link_requests, by token
    merged,  \* account_merges: wallets with a completed merge
    bonuses, \* account_merges: merges of a wallet that paid the bonus
    uses,    \* account_merges: wallets merged with a token
    stray,   \* history: a merge moved what an award wrote after an earlier merge
    req,     \* the requests
    awards   \* awards so far

accountVars == <<wallet, users, lastId, ledger, unlogged>>
mergeVars == <<merged, bonuses, uses, stray>>
vars == <<accountVars, link, mergeVars, req, awards>>

Unused == [source |-> Nobody, wallet |-> Nobody, status |-> "unused"]
Idle == [at |-> "idle", wallet |-> Nobody, token |-> Nobody, account |-> Nobody, seen |-> 0]
Places == {"idle", "countOwn", "cancel", "insert", "load", "target", "same", "primary",
           "alone", "room", "lookup", "merge", "answer", "row", "check", "detach",
           "addEvent", "addUser"}

WalletLinkInit ==
    /\ wallet = [w \in Wallets |-> [owner |-> HomeOf[w], primary |-> TRUE]]
    /\ users = [a \in Accounts |->
                   IF \E w \in Wallets : HomeOf[w] = a
                   THEN [address |-> CHOOSE w \in Wallets : HomeOf[w] = a, points |-> 1]
                   ELSE [address |-> Nobody, points |-> 0]]
    /\ lastId = Cardinality(Wallets)
    /\ ledger = [a \in Accounts |-> users[a].points] /\ unlogged = [a \in Accounts |-> 0]
    /\ link = [t \in Tokens |-> Unused]
    /\ merged = {} /\ bonuses = [w \in Wallets |-> 0] /\ uses = [t \in Tokens |-> {}] /\ stray = FALSE
    /\ req = [r \in Requests |-> Idle] /\ awards = 0

-----------------------------------------------------------------------------

At(r, place) == req[r].at = place
Goto(r, place) == req' = [req EXCEPT ![r].at = place]
Return(r) == req' = [req EXCEPT ![r] = Idle]
Held(a) == Cardinality({w \in Wallets : wallet[w].owner = a})
Live(a) == users[a].address # Nobody
Awarded(a) == ledger[a] + unlogged[a]

Throws(r) ==
    /\ ~At(r, "idle") /\ Return(r)
    /\ UNCHANGED <<accountVars, link, mergeVars, awards>>

-----------------------------------------------------------------------------
\* createLinkRequest

BeginCreate(r, w) ==
    /\ At(r, "idle") /\ \E t \in Tokens : link[t] = Unused
    /\ req' = [req EXCEPT ![r] = [Idle EXCEPT !.at = "countOwn", !.wallet = w,
                                              !.account = wallet[w].owner]]
    /\ UNCHANGED <<accountVars, link, mergeVars, awards>>

CountOwn(r) ==
    /\ At(r, "countOwn")
    /\ IF Held(req[r].account) >= MAX_WALLETS_PER_ACCOUNT THEN Return(r) ELSE Goto(r, "cancel")
    /\ UNCHANGED <<accountVars, link, mergeVars, awards>>

CancelOlder(r) ==
    /\ At(r, "cancel") /\ Goto(r, "insert")
    /\ link' = [t \in Tokens |->
                   IF link[t].source = req[r].account /\ link[t].status = "pending"
                   THEN [link[t] EXCEPT !.status = "cancelled"] ELSE link[t]]
    /\ UNCHANGED <<accountVars, mergeVars, awards>>

InsertLink(r, t) ==
    /\ At(r, "insert") /\ link[t] = Unused /\ \A s \in Tokens : s < t => link[s] # Unused
    /\ link' = [link EXCEPT ![t] = [source |-> req[r].account, wallet |-> req[r].wallet,
                                    status |-> "pending"]]
    /\ Return(r)
    /\ UNCHANGED <<accountVars, mergeVars, awards>>

\* 30 minutes later; loadPendingRequestByToken refuses it from then on.
Expire(t) ==
    /\ link[t].status = "pending" /\ link' = [link EXCEPT ![t].status = "expired"]
    /\ UNCHANGED <<accountVars, mergeVars, req, awards>>

-----------------------------------------------------------------------------
\* confirmLink

LoadLink(r, w, t) ==
    /\ At(r, "idle") /\ link[t].status = "pending" /\ w # link[t].wallet
    /\ req' = [req EXCEPT ![r] = [Idle EXCEPT !.at = "target", !.wallet = w, !.token = t]]
    /\ UNCHANGED <<accountVars, link, mergeVars, awards>>

Source(r) == link[req[r].token].source

ReadTarget(r) ==
    /\ At(r, "target")
    /\ req' = [req EXCEPT ![r].account = wallet[req[r].wallet].owner,
                          ![r].at = IF wallet[req[r].wallet].owner = Source(r)
                                    THEN "same" ELSE "primary"]
    /\ UNCHANGED <<accountVars, link, mergeVars, awards>>

\* The wallet is in the account already: the request is consumed.
ConsumeSame(r) ==
    /\ At(r, "same") /\ Return(r)
    /\ link' = [link EXCEPT ![req[r].token].status = "consumed"]
    /\ UNCHANGED <<accountVars, mergeVars, awards>>

\* Three lookups that refuse: a wallet that is linked already, an account of
\* several wallets, a source account that is full.
CheckPrimary(r) ==
    /\ At(r, "primary")
    /\ IF wallet[req[r].wallet].primary THEN Goto(r, "alone") ELSE Return(r)
    /\ UNCHANGED <<accountVars, link, mergeVars, awards>>

CheckAlone(r) ==
    /\ At(r, "alone") /\ IF Held(req[r].account) > 1 THEN Return(r) ELSE Goto(r, "room")
    /\ UNCHANGED <<accountVars, link, mergeVars, awards>>

CheckRoom(r) ==
    /\ At(r, "room")
    /\ IF Held(Source(r)) >= MAX_WALLETS_PER_ACCOUNT THEN Return(r) ELSE Goto(r, "lookup")
    /\ UNCHANGED <<accountVars, link, mergeVars, awards>>

\* merge_accounts: a wallet with a completed merge is left as it is.
FindMerge(r) ==
    /\ At(r, "lookup")
    /\ req' = [req EXCEPT ![r].at = IF req[r].wallet \in merged THEN "answer" ELSE "merge",
                          ![r].seen = users[req[r].account].points]
    /\ UNCHANGED <<accountVars, link, mergeVars, awards>>

\* Faulty variant of Moving: the points are read before the accounts are locked.
MovingSeen(r) == req[r].seen

Moving(r) == users[req[r].account].points

\* Faulty variant of Bonus: every merge pays it.
BonusAlways(w) == LinkBonus

Bonus(w) == IF bonuses[w] = 0 THEN LinkBonus ELSE 0

MergeAccounts(r) ==
    LET s == Source(r)  a == req[r].account  w == req[r].wallet
    IN  /\ At(r, "merge") /\ Goto(r, "answer")
        /\ users' = [users EXCEPT ![s].points = @ + Moving(r) + Bonus(w),
                                  ![a] = [address |-> Nobody, points |-> 0]]
        /\ ledger' = [ledger EXCEPT ![s] = @ + ledger[a] + Bonus(w), ![a] = 0]
        /\ unlogged' = [unlogged EXCEPT ![s] = @ + unlogged[a], ![a] = 0]
        /\ wallet' = [wallet EXCEPT ![w] = [owner |-> s, primary |-> FALSE]]
        /\ bonuses' = [bonuses EXCEPT ![w] = IF Bonus(w) > 0 THEN @ + 1 ELSE @]
        /\ merged' = merged \cup {w}
        /\ uses' = [uses EXCEPT ![req[r].token] = @ \cup {w}]
        /\ stray' = (stray \/ (~Live(a) /\ users[a].points > Awarded(a)))
        /\ link' = [link EXCEPT ![req[r].token].status = "consumed"]
        /\ UNCHANGED <<lastId, awards>>

\* success, and the bonus of the merge
Answer(r) ==
    /\ At(r, "answer") /\ Return(r)
    /\ UNCHANGED <<accountVars, link, mergeVars, awards>>

-----------------------------------------------------------------------------
\* unlinkWallet

ReadWalletRow(r, w) ==
    /\ At(r, "idle") /\ ~wallet[w].primary
    /\ req' = [req EXCEPT ![r] = [Idle EXCEPT !.at = "check", !.wallet = w,
                                              !.account = wallet[w].owner]]
    /\ UNCHANGED <<accountVars, link, mergeVars, awards>>

\* unlink_wallet looks at the row again, before it locks the account.
CheckRow(r) ==
    /\ At(r, "check")
    /\ IF wallet[req[r].wallet] = [owner |-> req[r].account, primary |-> FALSE]
       THEN Goto(r, "detach") ELSE Return(r)
    /\ UNCHANGED <<accountVars, link, mergeVars, awards>>

\* users.address is unique: the insert fails while another row has the address.
Detach(r) ==
    LET w == req[r].wallet
    IN  /\ At(r, "detach") /\ lastId < MaxAccounts /\ \A b \in Accounts : users[b].address # w
        /\ lastId' = lastId + 1
        /\ users' = [users EXCEPT ![lastId + 1] = [address |-> w, points |-> 0]]
        /\ wallet' = [wallet EXCEPT ![w] = [owner |-> lastId + 1, primary |-> TRUE]]
        /\ Return(r)
        /\ UNCHANGED <<ledger, unlogged, link, mergeVars, awards>>

-----------------------------------------------------------------------------
\* addPoints: read the account, insert the event, write the balance

BeginAward(r, w) ==
    /\ At(r, "idle") /\ awards < MaxAwards /\ awards' = awards + 1
    /\ req' = [req EXCEPT ![r] = [Idle EXCEPT !.at = "addEvent", !.wallet = w,
                   !.account = wallet[w].owner, !.seen = users[wallet[w].owner].points]]
    /\ UNCHANGED <<accountVars, link, mergeVars>>

\* Whether the insert went through is not looked at.
AddEvent(r) ==
    /\ At(r, "addEvent") /\ Goto(r, "addUser")
    /\ \/ /\ ledger' = [ledger EXCEPT ![req[r].account] = @ + 1]
          /\ UNCHANGED unlogged
       \/ /\ unlogged' = [unlogged EXCEPT ![req[r].account] = @ + 1]
          /\ UNCHANGED ledger
    /\ UNCHANGED <<wallet, users, lastId, link, mergeVars, awards>>

AddUser(r) ==
    /\ At(r, "addUser") /\ Return(r)
    /\ users' = [users EXCEPT ![req[r].account].points = req[r].seen + 1]
    /\ UNCHANGED <<wallet, lastId, ledger, unlogged, link, mergeVars, awards>>

-----------------------------------------------------------------------------

WalletLinkNext ==
    \/ \E r \in Requests :
          \/ Throws(r) \/ CountOwn(r) \/ CancelOlder(r) \/ ReadTarget(r) \/ ConsumeSame(r)
          \/ CheckPrimary(r) \/ CheckAlone(r) \/ CheckRoom(r) \/ FindMerge(r)
          \/ MergeAccounts(r) \/ Answer(r) \/ CheckRow(r) \/ Detach(r)
          \/ AddEvent(r) \/ AddUser(r)
          \/ \E w \in Wallets :
                \/ BeginCreate(r, w) \/ ReadWalletRow(r, w) \/ BeginAward(r, w)
                \/ \E t \in Tokens : LoadLink(r, w, t)
          \/ \E t \in Tokens : InsertLink(r, t)
    \/ \E t \in Tokens : Expire(t)

WalletLinkSpec == WalletLinkInit /\ [][WalletLinkNext]_vars

-----------------------------------------------------------------------------

WalletLinkTypeOK ==
    /\ wallet \in [Wallets -> [owner : Accounts, primary : BOOLEAN]]
    /\ users \in [Accounts -> [address : Wallets \cup {Nobody}, points : Nat]]
    /\ lastId \in Accounts
    /\ ledger \in [Accounts -> Nat] /\ unlogged \in [Accounts -> Nat]
    /\ \A t \in Tokens :
          /\ link[t].source \in Accounts \cup {Nobody} /\ link[t].wallet \in Wallets \cup {Nobody}
          /\ link[t].status \in {"unused", "pending", "consumed", "cancelled", "expired"}
    /\ merged \subseteq Wallets /\ bonuses \in [Wallets -> Nat]
    /\ uses \in [Tokens -> SUBSET Wallets] /\ stray \in BOOLEAN
    /\ \A r \in Requests : req[r].at \in Places /\ req[r].wallet \in Wallets \cup {Nobody}

\* merge_accounts pays the link bonus "lifetime once per secondary wallet",
\* however confirmations of one wallet, for one account or several, overlap,
\* and whatever is unlinked in between.
BonusOncePerWallet == \A w \in Wallets : bonuses[w] <= 1

\* No account that is in use holds more points than it was awarded, the awards whose
\* event was not inserted included: points that move in a merge are not counted
\* twice, neither when two merges of one account overlap nor when an award that read
\* the balance before a merge writes it afterwards.  Only both together can do that
\* (stray): the award writes to the account that was merged away, and the second
\* merge, which had looked for the first one before it was there, moves those points.
LiveBalancesBacked == ~stray => \A a \in Accounts : Live(a) => users[a].points <= Awarded(a)

\* wallet_merge.sql: "Every account has exactly one primary wallet whose
\* address equals users.address", for the accounts that own a wallet.
PrimaryWallet ==
    \A w \in Wallets :
        LET a == wallet[w].owner
        IN  {v \in Wallets : wallet[v].owner = a /\ wallet[v].primary} = {users[a].address}

=============================================================================
