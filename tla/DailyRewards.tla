---------------------------- MODULE DailyRewards ----------------------------
(***************************************************************************)
(* Check-ins, streaks and spins of one points account                      *)
(* (apps/api/src/services/pointsEngine.ts): dailyCheckIn,                  *)
(* recoverBrokenStreak, resetBrokenStreak, spin, and addPoints, which      *)
(* every other source of points ends in.                                   *)
(*                                                                         *)
(* Each handler runs over several awaits without a transaction around      *)
(* them.  A request stands at the next statement it will run; requests of  *)
(* the account overlap, midnight may pass between two statements, and a    *)
(* request may end at any of them (a thrown error, a crash of the          *)
(* process).  The users row a request read is a copy it writes back from.  *)
(*                                                                         *)
(* A payment or spin transaction is one the account sent, of the right     *)
(* amount, to the right contract; the chain tells on which day it was      *)
(* mined.  Points of one check-in are in units of ten percent of its base. *)
(***************************************************************************)
EXTENDS Integers, FiniteSets

CONSTANTS
    Requests,   \* requests the API serves at a time
    Wallets,    \* wallets linked to the account
    Txs,        \* transactions the wallets send
    Kinds,      \* operations the requests ask for
    NoTx,       \* no transaction
    Prize,      \* points of a spin
    Pts,        \* base points of another activity
    Cost,       \* tickets a spin costs
    PerCheckIn, \* tickets a check-in grants each wallet
    MaxDay,     \* bound on the days that pass
    MaxFaults,  \* bound on failed or interrupted statements
    MaxLedger   \* bound on the points awarded

AllKinds == {"checkIn", "recover", "reset", "spin", "earn"}

RewardsAssumption ==
    /\ Kinds \subseteq AllKinds
    /\ Wallets # {} /\ NoTx \notin Txs
    /\ Prize \in Nat \ {0} /\ Pts \in Nat \ {0} /\ Cost \in Nat \ {0} /\ PerCheckIn \in Nat
    /\ MaxDay \in Nat \ {0} /\ MaxFaults \in Nat /\ MaxLedger \in Nat

VARIABLES
    day,        \* today, in UTC
    mined,      \* day a transaction was mined, 0 before that
    user,       \* users: current_streak, last_check_in (0: never), total_points
    rows,       \* check_ins: the days that have a row, with the transaction
    recoveries, \* streak_recovery_events: transactions redeemed
    spins,      \* spin_history: wallet of the spin a transaction paid, if any
    tickets,    \* wallet_spin_balances
    ledger,     \* point_events: total_awarded over all rows
    checkInPay, \* point_events: daily_check_in rows by day
    spinPay,    \* point_events: spin_reward rows by transaction
    unrecorded, \* history: awards of addPoints whose insert failed unseen
    restores,   \* history: streaks restored by a transaction
    granted,    \* history: tickets granted to a wallet
    req,        \* the requests in flight
    faults

chainVars == <<day, mined>>
pointVars == <<ledger, checkInPay, spinPay, unrecorded>>
tables == <<user, rows, recoveries, spins, tickets, pointVars, restores, granted>>
vars == <<chainVars, tables, req, faults>>

Days == 1 .. MaxDay
User == [streak : Nat, last : Nat, points : Nat]
Places == {"idle", "lookup", "verify", "row", "event", "user", "tickets",
           "record", "restoreRow", "restoreUser", "clear",
           "take", "history", "refund", "award", "addEvent", "addUser"}
Request == [kind : AllKinds, at : Places, wallet : Wallets, tx : Txs \cup {NoTx},
            seen : User, on : Nat, pts : Nat, next : Nat, topped : SUBSET Wallets]

Idle == [kind |-> "earn", at |-> "idle", wallet |-> CHOOSE w \in Wallets : TRUE, tx |-> NoTx,
         seen |-> [streak |-> 0, last |-> 0, points |-> 0], on |-> 0, pts |-> 0,
         next |-> 0, topped |-> {}]

RewardsInit ==
    /\ day = 1 /\ mined = [t \in Txs |-> 0]
    /\ user = [streak |-> 0, last |-> 0, points |-> 0]
    /\ rows = [d \in Days |-> NoTx]
    /\ recoveries = {} /\ spins = [t \in Txs |-> {}]
    /\ tickets = [w \in Wallets |-> 0]
    /\ ledger = 0 /\ checkInPay = [d \in Days |-> 0]
    /\ spinPay = [t \in Txs |-> 0] /\ unrecorded = 0
    /\ restores = [t \in Txs |-> 0] /\ granted = [w \in Wallets |-> 0]
    /\ req = [r \in Requests |-> Idle]
    /\ faults = 0

-----------------------------------------------------------------------------
\* The clock, the chain, and requests that end

NextDay ==
    /\ day < MaxDay /\ day' = day + 1
    /\ UNCHANGED <<mined, tables, req, faults>>

MineTx(t) ==
    /\ mined[t] = 0 /\ mined' = [mined EXCEPT ![t] = day]
    /\ UNCHANGED <<day, tables, req, faults>>

At(r, place) == req[r].at = place
Goto(r, place) == req' = [req EXCEPT ![r].at = place]
Finish(r) == req' = [req EXCEPT ![r] = Idle]

\* verifyFeeTransaction: the payment is confirmed, of the account's wallet,
\* to the recipient and of the amount, and verifySpinTransaction likewise.
Paid(t) == mined[t] # 0
SpinPaid(t) == mined[t] # 0
MinedToday(t) == mined[t] >= day

\* A statement throws, or the process dies before it.
Interrupted(r) ==
    /\ ~At(r, "idle") /\ faults < MaxFaults
    /\ Finish(r) /\ faults' = faults + 1
    /\ UNCHANGED <<chainVars, tables>>

-----------------------------------------------------------------------------
\* The streak as buildStreakSnapshot reads it from a users row

CheckedInToday(u) == u.last = day
Missed(u) == u.streak > 0 /\ u.last # day /\ u.last # day - 1
ActiveStreak(u) == IF Missed(u) THEN 0 ELSE u.streak
Continues(u) == ~CheckedInToday(u) /\ ActiveStreak(u) > 0

\* What base points become at a streak of n days: ten percent more a day, up
\* to thirty days.
Boosted(base, n) == base * (10 + (IF n > 30 THEN 30 ELSE n))

Begin(r, kind, w, t) ==
    /\ At(r, "idle") /\ kind \in Kinds
    /\ req' = [req EXCEPT ![r] = [Idle EXCEPT !.kind = kind, !.wallet = w, !.tx = t,
                  !.seen = user, !.on = day,
                  !.next = IF kind = "recover" THEN user.streak + 1
                           ELSE IF Continues(user) THEN user.streak + 1 ELSE 1,
                  !.at = IF kind = "earn" THEN "award"
                         ELSE IF kind = "reset" THEN "clear" ELSE "lookup"]]
    /\ UNCHANGED <<chainVars, tables, faults>>

-----------------------------------------------------------------------------
\* dailyCheckIn

BeginCheckIn(r, w, t) ==
    /\ ~CheckedInToday(user)
    /\ Begin(r, "checkIn", w, t)

\* The transaction must not be on a check-in yet, and be mined today.
CheckInLookup(r) ==
    /\ At(r, "lookup") /\ req[r].kind = "checkIn"
    /\ IF \E d \in Days : rows[d] = req[r].tx THEN Finish(r) ELSE Goto(r, "verify")
    /\ UNCHANGED <<chainVars, tables, faults>>

CheckInVerify(r) ==
    /\ At(r, "verify") /\ req[r].kind = "checkIn"
    /\ IF Paid(req[r].tx) /\ MinedToday(req[r].tx)
       THEN req' = [req EXCEPT ![r].at = "row", ![r].on = day,
                               ![r].pts = Boosted(1, req[r].next)]
       ELSE Finish(r)
    /\ UNCHANGED <<chainVars, tables, faults>>

\* Faulty variant of InsertCheckIn: a row that is already there is replaced.
UpsertCheckIn(r) ==
    /\ At(r, "row")
    /\ Goto(r, "event") /\ rows' = [rows EXCEPT ![req[r].on] = req[r].tx]
    /\ UNCHANGED <<chainVars, user, recoveries, spins, tickets, pointVars, restores, granted,
                   faults>>

\* UNIQUE(user_id, check_in_date)
InsertCheckIn(r) ==
    /\ At(r, "row")
    /\ IF rows[req[r].on] # NoTx
       THEN Finish(r) /\ UNCHANGED rows
       ELSE Goto(r, "event") /\ rows' = [rows EXCEPT ![req[r].on] = req[r].tx]
    /\ UNCHANGED <<chainVars, user, recoveries, spins, tickets, pointVars, restores, granted,
                   faults>>

\* Faulty variant of InsertCheckInEvent: the error of the insert is not looked
\* at.
InsertCheckInEventUnchecked(r) ==
    /\ At(r, "event") /\ faults < MaxFaults
    /\ Goto(r, "user") /\ faults' = faults + 1
    /\ UNCHANGED <<chainVars, tables>>

InsertCheckInEvent(r) ==
    /\ At(r, "event") /\ ledger + req[r].pts <= MaxLedger
    /\ ledger' = ledger + req[r].pts
    /\ checkInPay' = [checkInPay EXCEPT ![req[r].on] = @ + 1]
    /\ Goto(r, "user")
    /\ UNCHANGED <<chainVars, user, rows, recoveries, spins, tickets, spinPay, unrecorded,
                   restores, granted, faults>>

\* Written from the row the request read first.
UpdateCheckedIn(r) ==
    /\ At(r, "user")
    /\ user' = [streak |-> req[r].next, last |-> req[r].on,
                points |-> req[r].seen.points + req[r].pts]
    /\ Goto(r, "tickets")
    /\ UNCHANGED <<chainVars, rows, recoveries, spins, tickets, pointVars, restores, granted,
                   faults>>

\* grantSpinTicketsToAllWallets, one wallet at a time
GrantTickets(r) ==
    /\ At(r, "tickets")
    /\ \E w \in Wallets \ req[r].topped :
          /\ tickets' = [tickets EXCEPT ![w] = @ + PerCheckIn]
          /\ granted' = [granted EXCEPT ![w] = @ + PerCheckIn]
          /\ IF req[r].topped \cup {w} = Wallets
             THEN Finish(r)
             ELSE req' = [req EXCEPT ![r].topped = @ \cup {w}]
    /\ UNCHANGED <<chainVars, user, rows, recoveries, spins, pointVars, restores, faults>>

-----------------------------------------------------------------------------
\* recoverBrokenStreak and resetBrokenStreak

BeginRecover(r, w, t) ==
    /\ Missed(user)
    /\ Begin(r, "recover", w, t)

RecoverLookup(r) ==
    /\ At(r, "lookup") /\ req[r].kind = "recover"
    /\ IF req[r].tx \in recoveries THEN Finish(r) ELSE Goto(r, "verify")
    /\ UNCHANGED <<chainVars, tables, faults>>

\* The payment is mined and at most 48 hours old; the restored day is the
\* one before today.
RecoverVerify(r) ==
    /\ At(r, "verify") /\ req[r].kind = "recover"
    /\ IF Paid(req[r].tx) /\ mined[req[r].tx] >= day - 2
       THEN req' = [req EXCEPT ![r].at = "record", ![r].on = day - 1]
       ELSE Finish(r)
    /\ UNCHANGED <<chainVars, tables, faults>>

\* Faulty variant of InsertRecovery: nothing makes the transaction unique.
InsertRecoveryAnyway(r) ==
    /\ At(r, "record")
    /\ Goto(r, "restoreRow") /\ recoveries' = recoveries \cup {req[r].tx}
    /\ UNCHANGED <<chainVars, user, rows, spins, tickets, pointVars, restores, granted, faults>>

\* streak_recovery_events.tx_hash is UNIQUE.
InsertRecovery(r) ==
    /\ At(r, "record")
    /\ IF req[r].tx \in recoveries
       THEN Finish(r) /\ UNCHANGED recoveries
       ELSE Goto(r, "restoreRow") /\ recoveries' = recoveries \cup {req[r].tx}
    /\ UNCHANGED <<chainVars, user, rows, spins, tickets, pointVars, restores, granted, faults>>

UpsertRestoredDay(r) ==
    /\ At(r, "restoreRow")
    /\ rows' = [rows EXCEPT ![req[r].on] = req[r].tx]
    /\ Goto(r, "restoreUser")
    /\ UNCHANGED <<chainVars, user, recoveries, spins, tickets, pointVars, restores, granted,
                   faults>>

\* Faulty variant of UpdateRestored: the streak is raised where it stands.
RaiseRestored(r) ==
    /\ At(r, "restoreUser")
    /\ user' = [user EXCEPT !.streak = @ + 1, !.last = req[r].on]
    /\ restores' = [restores EXCEPT ![req[r].tx] = @ + 1]
    /\ Finish(r)
    /\ UNCHANGED <<chainVars, rows, recoveries, spins, tickets, pointVars, granted, faults>>

UpdateRestored(r) ==
    /\ At(r, "restoreUser")
    /\ user' = [user EXCEPT !.streak = req[r].next, !.last = req[r].on]
    /\ restores' = [restores EXCEPT ![req[r].tx] = @ + 1]
    /\ Finish(r)
    /\ UNCHANGED <<chainVars, rows, recoveries, spins, tickets, pointVars, granted, faults>>

BeginReset(r, w) ==
    /\ Missed(user)
    /\ Begin(r, "reset", w, NoTx)

ResetStreak(r) ==
    /\ At(r, "clear")
    /\ user' = [user EXCEPT !.streak = 0]
    /\ Finish(r)
    /\ UNCHANGED <<chainVars, rows, recoveries, spins, tickets, pointVars, restores, granted,
                   faults>>

-----------------------------------------------------------------------------
\* spin

BeginSpin(r, w, t) ==
    /\ tickets[w] >= Cost
    /\ Begin(r, "spin", w, t)

SpinLookup(r) ==
    /\ At(r, "lookup") /\ req[r].kind = "spin"
    /\ IF spins[req[r].tx] # {} THEN Finish(r) ELSE Goto(r, "verify")
    /\ UNCHANGED <<chainVars, tables, faults>>

SpinVerify(r) ==
    /\ At(r, "verify") /\ req[r].kind = "spin"
    /\ IF SpinPaid(req[r].tx) THEN Goto(r, "take") ELSE Finish(r)
    /\ UNCHANGED <<chainVars, tables, faults>>

\* Faulty variants of TakeTicket: the balance is not looked at again, or the
\* ticket is not taken.
TakeTicketSeen(r) ==
    /\ At(r, "take")
    /\ tickets' = [tickets EXCEPT ![req[r].wallet] = @ - Cost]
    /\ Goto(r, "history")
    /\ UNCHANGED <<chainVars, user, rows, recoveries, spins, pointVars, restores, granted,
                   faults>>
KeepTicket(r) ==
    /\ At(r, "take") /\ tickets[req[r].wallet] >= Cost
    /\ Goto(r, "history")
    /\ UNCHANGED <<chainVars, tables, faults>>

\* adjust_wallet_spin_tickets: one statement that keeps the balance at 0 or more
TakeTicket(r) ==
    /\ At(r, "take")
    /\ IF tickets[req[r].wallet] < Cost
       THEN Finish(r) /\ UNCHANGED tickets
       ELSE /\ tickets' = [tickets EXCEPT ![req[r].wallet] = @ - Cost]
            /\ Goto(r, "history")
    /\ UNCHANGED <<chainVars, user, rows, recoveries, spins, pointVars, restores, granted,
                   faults>>

\* Faulty variant of InsertSpin: nothing makes the transaction unique.
InsertSpinAnyway(r) ==
    /\ At(r, "history")
    /\ spins' = [spins EXCEPT ![req[r].tx] = {req[r].wallet}]
    /\ Goto(r, "award")
    /\ UNCHANGED <<chainVars, user, rows, recoveries, tickets, pointVars, restores, granted,
                   faults>>

\* spin_history.tx_hash is UNIQUE.
InsertSpin(r) ==
    /\ At(r, "history")
    /\ IF spins[req[r].tx] # {}
       THEN Goto(r, "refund") /\ UNCHANGED spins
       ELSE /\ spins' = [spins EXCEPT ![req[r].tx] = {req[r].wallet}]
            /\ Goto(r, "award")
    /\ UNCHANGED <<chainVars, user, rows, recoveries, tickets, pointVars, restores, granted,
                   faults>>

\* The insert reports an error that is not the unique index.
InsertSpinFails(r) ==
    /\ At(r, "history") /\ faults < MaxFaults
    /\ Goto(r, "refund") /\ faults' = faults + 1
    /\ UNCHANGED <<chainVars, tables>>

\* An error of the refund is swallowed: Interrupted.
RefundTicket(r) ==
    /\ At(r, "refund")
    /\ tickets' = [tickets EXCEPT ![req[r].wallet] = @ + Cost]
    /\ Finish(r)
    /\ UNCHANGED <<chainVars, user, rows, recoveries, spins, pointVars, restores, granted,
                   faults>>

-----------------------------------------------------------------------------
\* addPoints, for a spin's prize (not boosted) or another activity (boosted)

BeginEarn(r, w) == Begin(r, "earn", w, NoTx)

AddPointsRead(r) ==
    /\ At(r, "award")
    /\ req' = [req EXCEPT ![r].at = "addEvent", ![r].seen = user,
                   ![r].pts = IF req[r].kind = "spin" THEN Prize
                              ELSE Boosted(Pts, ActiveStreak(user)) \div 10]
    /\ UNCHANGED <<chainVars, tables, faults>>

AddPointsEvent(r) ==
    /\ At(r, "addEvent") /\ ledger + req[r].pts <= MaxLedger
    /\ ledger' = ledger + req[r].pts
    /\ spinPay' = IF req[r].kind = "spin" THEN [spinPay EXCEPT ![req[r].tx] = @ + 1]
                  ELSE spinPay
    /\ Goto(r, "addUser")
    /\ UNCHANGED <<chainVars, user, rows, recoveries, spins, tickets, checkInPay, unrecorded,
                   restores, granted, faults>>

\* The error of the insert is not looked at.
AddPointsEventFails(r) ==
    /\ At(r, "addEvent") /\ faults < MaxFaults
    /\ unrecorded' = unrecorded + req[r].pts
    /\ Goto(r, "addUser") /\ faults' = faults + 1
    /\ UNCHANGED <<chainVars, user, rows, recoveries, spins, tickets, ledger, checkInPay,
                   spinPay, restores, granted>>

AddPointsUser(r) ==
    /\ At(r, "addUser")
    /\ user' = [user EXCEPT !.points = req[r].seen.points + req[r].pts]
    /\ Finish(r)
    /\ UNCHANGED <<chainVars, rows, recoveries, spins, tickets, pointVars, restores, granted,
                   faults>>

-----------------------------------------------------------------------------

Step(r) ==
    \/ CheckInLookup(r) \/ CheckInVerify(r) \/ InsertCheckIn(r) \/ InsertCheckInEvent(r)
    \/ UpdateCheckedIn(r) \/ GrantTickets(r)
    \/ RecoverLookup(r) \/ RecoverVerify(r) \/ InsertRecovery(r) \/ UpsertRestoredDay(r)
    \/ UpdateRestored(r) \/ ResetStreak(r)
    \/ SpinLookup(r) \/ SpinVerify(r) \/ TakeTicket(r) \/ InsertSpin(r) \/ InsertSpinFails(r)
    \/ RefundTicket(r)
    \/ AddPointsRead(r) \/ AddPointsEvent(r) \/ AddPointsEventFails(r) \/ AddPointsUser(r)
    \/ Interrupted(r)

RewardsNext ==
    \/ NextDay
    \/ \E t \in Txs : MineTx(t)
    \/ \E r \in Requests, w \in Wallets, t \in Txs :
          BeginCheckIn(r, w, t) \/ BeginRecover(r, w, t) \/ BeginSpin(r, w, t)
    \/ \E r \in Requests, w \in Wallets : BeginReset(r, w) \/ BeginEarn(r, w)
    \/ \E r \in Requests : Step(r)

RewardsSpec == RewardsInit /\ [][RewardsNext]_vars

-----------------------------------------------------------------------------

RewardsTypeOK ==
    /\ day \in Days /\ mined \in [Txs -> Nat]
    /\ user \in User
    /\ rows \in [Days -> Txs \cup {NoTx}]
    /\ recoveries \subseteq Txs /\ spins \in [Txs -> SUBSET Wallets]
    /\ tickets \in [Wallets -> Nat]
    /\ ledger \in Nat /\ checkInPay \in [Days -> Nat] /\ spinPay \in [Txs -> Nat]
    /\ unrecorded \in Nat
    /\ restores \in [Txs -> Nat] /\ granted \in [Wallets -> Nat]
    /\ req \in [Requests -> Request]
    /\ faults \in Nat

\* The balance shown to a user never exceeds what was awarded, whatever
\* requests overlap and wherever they end: total_points is overwritten from a
\* copy, and the copy was backed by the same ledger.
BalanceEarned == user.points <= ledger + unrecorded

\* A streak of n days has n rows of check_ins behind it, none of them later
\* than last_check_in.  Row and streak are written by two statements, and a
\* request that read an older streak may write after one that checked in.
StreakEarned == user.streak <= Cardinality({d \in Days : rows[d] # NoTx /\ d <= user.last})

\* A day's check-in is paid at most once, although the check that it has not
\* been done yet, the row, the event and the balance are separate statements.
CheckInPaidOnce == \A d \in Days : checkInPay[d] <= 1

\* "Failing open here would let one paid transaction restore a streak more
\* than once."  A redeemed payment restores at most once, also when two
\* requests carry it.
OneRestorePerPayment == \A t \in Txs : restores[t] <= 1

\* A transaction pays for one spin, and a spin for one prize.
OnePrizePerSpin == \A t \in Txs : spinPay[t] <= Cardinality(spins[t])

\* Tickets are not made up: what a wallet holds and what it spent on spins is
\* covered by its grants, also when a spin is refused after its ticket was
\* taken.
SpinsOf(w) == {t \in Txs : w \in spins[t]}
TicketsCovered ==
    \A w \in Wallets : tickets[w] + Cost * Cardinality(SpinsOf(w)) <= granted[w]

\* docs/docs/rewards/pp-rewards.md: "Can I lose PP?  PP is not deducted by
\* normal usage."  No request lowers the balance.
PointsKept == [][user'.points >= user.points]_vars

=============================================================================
