------------------------------ MODULE Referrals ------------------------------
(***************************************************************************)
(* Referral codes (apps/api/src/services/pointsEngine.ts): applyReferral   *)
(* with the in-flight map and the 30 second result cache of each API       *)
(* process, applyReferralOnce, finalizeReferralLink, updateReferralLedger  *)
(* and awardReferralCommission, statement by statement.                    *)
(*                                                                         *)
(* A code is the account that owns it.  An award is what addPoints does:   *)
(* the insert of the point_events row, which may fail unseen, and the      *)
(* balance, which is in DailyRewards.                                      *)
(* The repair of a signup that already has an event                        *)
(* (ensureReferralSignupLedgerBaseline) runs only in finalizeReferralLink, *)
(* which the link lets one request enter, so no request ever finds one.    *)
(***************************************************************************)
EXTENDS Integers, FiniteSets

CONSTANTS
    Accounts,   \* accounts, and the codes they own
    Bogus,      \* a code nobody owns
    Referees,   \* accounts that apply codes and earn points
    Applied,    \* the codes they apply
    Processes,  \* API processes
    Requests,   \* requests they serve at a time
    Nobody,     \* no account, no request
    NoRow,      \* no referrals row
    Signup,     \* CFG.REFERRAL_SIGNUP
    Commission, \* what one earning of a referee brings the referrer
    Attempts,   \* REFERRAL_LEDGER_UPDATE_MAX_ATTEMPTS
    MaxEarn,    \* bound on the earnings
    MaxFaults   \* bound on thrown errors and restarts

ReferralAssumption ==
    /\ Bogus \notin Accounts /\ Nobody \notin Accounts \cup Requests /\ IsFiniteSet(Requests)
    /\ NoRow \notin [referrer : Accounts, earned : Nat]
    /\ Referees \subseteq Accounts /\ Applied \subseteq Accounts \cup {Bogus}
    /\ Signup \in Nat \ {0} /\ Commission \in Nat \ {0} /\ Attempts \in Nat \ {0}
    /\ MaxEarn \in Nat /\ MaxFaults \in Nat

VARIABLES
    active,     \* accounts that have checked in or claimed a drop
    referredBy, \* users.referred_by
    rows,       \* referrals: row of a referee
    welcomed,   \* point_events: accounts with a referral_welcome row
    brought,    \* point_events: <<referrer, referee>> with a referral_new_user row
    welcome,    \* history: welcome bonuses awarded to an account
    signup,     \* history: signup bonuses awarded to a referrer for a referee
    commission, \* history: total of the commissions awarded for a referee
    missed,     \* history: what an interrupted or exhausted update left out
    inflight,   \* per process: request that applies a code for an account
    recent,     \* per process: remembered results
    req,        \* the requests
    earned,     \* earnings so far
    faults

database == <<active, referredBy, rows, welcomed, brought, welcome, signup, commission, missed>>
memory == <<inflight, recent>>
vars == <<database, memory, req, earned, faults>>

Codes == Accounts \cup {Bogus}
Row == [referrer : Accounts, earned : Nat]
Places == {"idle", "referrer", "user", "row", "activation", "link", "relook", "ensure",
           "welcome", "addWelcome", "signup", "addSignup", "commission",
           "ensureRow", "load", "compare"}

Idle == [at |-> "idle", process |-> Nobody, account |-> Nobody,
         code |-> Nobody, add |-> 0, seen |-> 0, tries |-> 0]

ReferralInit ==
    /\ active = {} /\ referredBy = [a \in Accounts |-> Nobody]
    /\ rows = [a \in Accounts |-> NoRow]
    /\ welcomed = {} /\ brought = {}
    /\ welcome = [a \in Accounts |-> 0]
    /\ signup = [a \in Accounts |-> [b \in Accounts |-> 0]]
    /\ commission = [a \in Accounts |-> 0]
    /\ missed = [a \in Accounts |-> 0]
    /\ inflight = [p \in Processes |-> [a \in Accounts |-> Nobody]]
    /\ recent = [p \in Processes |-> {}]
    /\ req = [r \in Requests |-> Idle]
    /\ earned = 0 /\ faults = 0

-----------------------------------------------------------------------------

At(r, place) == req[r].at = place
Goto(r, place) == req' = [req EXCEPT ![r].at = place]

\* finally: the entry of the request leaves the in-flight map.
Released(r) ==
    [inflight EXCEPT ![req[r].process] =
        [a \in Accounts |-> IF @[a] = r THEN Nobody ELSE @[a]]]
Return(r) == /\ req' = [req EXCEPT ![r] = Idle]
             /\ inflight' = Released(r)

\* A final result is remembered for the account and the code.
Remember(r, result) ==
    /\ Return(r)
    /\ recent' = [recent EXCEPT ![req[r].process] =
                    @ \cup {<<req[r].account, req[r].code, result>>}]

Forget(p, entry) ==
    /\ entry \in recent[p]
    /\ recent' = [recent EXCEPT ![p] = @ \ {entry}]
    /\ UNCHANGED <<database, inflight, req, earned, faults>>

\* What a request that ends early still had to add to its referee's row
Left(r) == IF req[r].at \in {"ensureRow", "load", "compare"} THEN req[r].add ELSE 0
MissedBy(ended) == [a \in Accounts |-> missed[a] +
    (LET mine == {r \in ended : req[r].account = a /\ Left(r) > 0}
     IN  Signup * Cardinality({r \in mine : req[r].add = Signup})
         + Commission * Cardinality({r \in mine : req[r].add # Signup}))]

Throws(r) ==
    /\ ~At(r, "idle") /\ faults < MaxFaults /\ faults' = faults + 1
    /\ Return(r) /\ missed' = MissedBy({r})
    /\ UNCHANGED <<active, referredBy, rows, welcomed, brought, welcome, signup, commission,
                   recent, earned>>

Restart(p) ==
    /\ faults < MaxFaults /\ faults' = faults + 1
    /\ LET ended == {r \in Requests : req[r].process = p /\ ~At(r, "idle")}
       IN  /\ req' = [r \in Requests |-> IF r \in ended THEN Idle ELSE req[r]]
           /\ missed' = MissedBy(ended)
    /\ inflight' = [inflight EXCEPT ![p] = [a \in Accounts |-> Nobody]]
    /\ recent' = [recent EXCEPT ![p] = {}]
    /\ UNCHANGED <<active, referredBy, rows, welcomed, brought, welcome, signup, commission,
                   earned>>

Activate(a) ==
    /\ a \notin active /\ active' = active \cup {a}
    /\ UNCHANGED <<referredBy, rows, welcomed, brought, welcome, signup, commission, missed,
                   memory, req, earned, faults>>

-----------------------------------------------------------------------------
\* applyReferral and applyReferralOnce

\* A remembered result is returned, a request for the same code is joined, and
\* one for another code is refused: none of them changes anything.
BeginApply(r, p, a, c) ==
    /\ At(r, "idle")
    /\ \A entry \in recent[p] : <<entry[1], entry[2]>> # <<a, c>>
    /\ inflight[p][a] = Nobody
    /\ inflight' = [inflight EXCEPT ![p][a] = r]
    /\ req' = [req EXCEPT ![r] = [Idle EXCEPT !.at = "referrer", !.process = p,
                                              !.account = a, !.code = c]]
    /\ UNCHANGED <<database, recent, earned, faults>>

FindReferrer(r) ==
    /\ At(r, "referrer")
    /\ IF req[r].code \in {Bogus, req[r].account}
       THEN Remember(r, "refused")
       ELSE Goto(r, "user") /\ UNCHANGED memory
    /\ UNCHANGED <<database, earned, faults>>

ReadUser(r) ==
    /\ At(r, "user")
    /\ IF referredBy[req[r].account] # Nobody
       THEN Remember(r, "refused")
       ELSE Goto(r, "row") /\ UNCHANGED memory
    /\ UNCHANGED <<database, earned, faults>>

ReadRow(r) ==
    /\ At(r, "row")
    /\ IF rows[req[r].account] # NoRow
       THEN Remember(r, "applied")
       ELSE Goto(r, "activation") /\ UNCHANGED memory
    /\ UNCHANGED <<database, earned, faults>>

\* hasReferralActivation; a deferred result is not remembered.
CheckActivation(r) ==
    /\ At(r, "activation")
    /\ IF req[r].account \in active
       THEN Goto(r, "link") /\ UNCHANGED inflight
       ELSE Return(r)
    /\ UNCHANGED <<database, recent, earned, faults>>

\* UPDATE users SET referred_by ... WHERE referred_by IS NULL
LinkUser(r) ==
    /\ At(r, "link")
    /\ IF referredBy[req[r].account] = Nobody
       THEN /\ referredBy' = [referredBy EXCEPT ![req[r].account] = req[r].code]
            /\ Goto(r, "ensure")
       ELSE Goto(r, "relook") /\ UNCHANGED referredBy
    /\ UNCHANGED <<active, rows, welcomed, brought, welcome, signup, commission, missed, memory,
                   earned, faults>>

\* Faulty variant of LookAgain: an application that another request has linked
\* is carried on with.
LookAgainAndFinish(r) ==
    /\ At(r, "relook")
    /\ IF referredBy[req[r].account] = req[r].code
       THEN Goto(r, "ensure") /\ UNCHANGED memory
       ELSE Remember(r, "refused")
    /\ UNCHANGED <<database, earned, faults>>

LookAgain(r) ==
    /\ At(r, "relook")
    /\ Remember(r, IF referredBy[req[r].account] = req[r].code THEN "applied" ELSE "refused")
    /\ UNCHANGED <<database, earned, faults>>

-----------------------------------------------------------------------------
\* finalizeReferralLink

WithRow(a, referrer) ==
    IF rows[a] = NoRow
    THEN [rows EXCEPT ![a] = [referrer |-> referrer, earned |-> 0]]
    ELSE rows

EnsureLinkRow(r) ==
    /\ At(r, "ensure")
    /\ rows' = WithRow(req[r].account, req[r].code)
    /\ Goto(r, "welcome")
    /\ UNCHANGED <<active, referredBy, welcomed, brought, welcome, signup, commission, missed,
                   memory, earned, faults>>

FindWelcome(r) ==
    /\ At(r, "welcome")
    /\ Goto(r, IF req[r].account \in welcomed THEN "signup" ELSE "addWelcome")
    /\ UNCHANGED <<database, memory, earned, faults>>

\* Whether the event went in is not looked at, here and in the other awards.
AddWelcome(r) ==
    /\ At(r, "addWelcome")
    /\ welcomed' \in {welcomed, welcomed \cup {req[r].account}}
    /\ welcome' = [welcome EXCEPT ![req[r].account] = @ + 1]
    /\ Goto(r, "signup")
    /\ UNCHANGED <<active, referredBy, rows, brought, signup, commission, missed, memory, earned,
                   faults>>

FindSignup(r) ==
    /\ At(r, "signup")
    /\ IF <<req[r].code, req[r].account>> \notin brought
       THEN Goto(r, "addSignup") /\ UNCHANGED memory
       ELSE Remember(r, "applied")
    /\ UNCHANGED <<database, earned, faults>>

\* The row is to be raised by what was awarded, with or without an event.
AddSignup(r) ==
    /\ At(r, "addSignup")
    /\ brought' \in {brought, brought \cup {<<req[r].code, req[r].account>>}}
    /\ signup' = [signup EXCEPT ![req[r].code][req[r].account] = @ + 1]
    /\ req' = [req EXCEPT ![r].at = "ensureRow", ![r].add = Signup]
    /\ UNCHANGED <<active, referredBy, rows, welcomed, welcome, commission, missed, memory, earned,
                   faults>>

-----------------------------------------------------------------------------
\* updateReferralLedger: compare and set, with retries

\* What the caller does next: applyReferralOnce remembers its result.
Updated(r) == IF inflight[req[r].process][req[r].account] = r
              THEN Remember(r, "applied") ELSE Return(r) /\ UNCHANGED recent

EnsureRow(r) ==
    /\ At(r, "ensureRow")
    /\ rows' = WithRow(req[r].account, req[r].code)
    /\ Goto(r, "load")
    /\ UNCHANGED <<active, referredBy, welcomed, brought, welcome, signup, commission, missed,
                   memory, earned, faults>>

\* Fails when the row names another referrer.
LoadRow(r) ==
    /\ At(r, "load")
    /\ IF rows[req[r].account].referrer = req[r].code
       THEN /\ req' = [req EXCEPT ![r].at = "compare", ![r].seen = rows[req[r].account].earned]
            /\ UNCHANGED <<missed, inflight>>
       ELSE Return(r) /\ missed' = MissedBy({r})
    /\ UNCHANGED <<active, referredBy, rows, welcomed, brought, welcome, signup, commission,
                   recent, earned, faults>>

\* Faulty variant of SetEarned: the update does not compare.
SetEarnedAnyway(r) ==
    /\ At(r, "compare")
    /\ rows' = [rows EXCEPT ![req[r].account].earned = req[r].seen + req[r].add]
    /\ Updated(r)
    /\ UNCHANGED <<active, referredBy, welcomed, brought, welcome, signup, commission, missed,
                   earned, faults>>

SetEarned(r) ==
    /\ At(r, "compare") /\ rows[req[r].account].earned = req[r].seen
    /\ rows' = [rows EXCEPT ![req[r].account].earned = req[r].seen + req[r].add]
    /\ Updated(r)
    /\ UNCHANGED <<active, referredBy, welcomed, brought, welcome, signup, commission, missed,
                   earned, faults>>

TryAgain(r) ==
    /\ At(r, "compare") /\ rows[req[r].account].earned # req[r].seen
    /\ IF req[r].tries + 1 < Attempts
       THEN /\ req' = [req EXCEPT ![r].at = "load", ![r].tries = @ + 1]
            /\ UNCHANGED <<missed, inflight>>
       ELSE Return(r) /\ missed' = MissedBy({r})
    /\ UNCHANGED <<active, referredBy, rows, welcomed, brought, welcome, signup, commission,
                   recent, earned, faults>>

-----------------------------------------------------------------------------
\* awardReferralCommission, for the account whose row the award has read

Earn(r, p, a) ==
    /\ At(r, "idle") /\ a \in active /\ earned < MaxEarn
    /\ earned' = earned + 1
    /\ req' = IF referredBy[a] = Nobody THEN req
              ELSE [req EXCEPT ![r] = [Idle EXCEPT !.at = "commission", !.process = p,
                                           !.account = a, !.code = referredBy[a]]]
    /\ UNCHANGED <<active, referredBy, rows, welcomed, brought, welcome, signup, commission,
                   missed, memory, faults>>

\* No award depends on the event, so that it makes no difference here whether it went in.
AddCommission(r) ==
    /\ At(r, "commission")
    /\ commission' = [commission EXCEPT ![req[r].account] = @ + Commission]
    /\ req' = [req EXCEPT ![r].at = "ensureRow", ![r].add = Commission]
    /\ UNCHANGED <<active, referredBy, rows, welcomed, brought, welcome, signup, missed, memory,
                   earned, faults>>

-----------------------------------------------------------------------------

Step(r) ==
    \/ FindReferrer(r) \/ ReadUser(r) \/ ReadRow(r) \/ CheckActivation(r) \/ LinkUser(r)
    \/ LookAgain(r) \/ EnsureLinkRow(r) \/ FindWelcome(r) \/ AddWelcome(r) \/ FindSignup(r)
    \/ AddSignup(r) \/ EnsureRow(r) \/ LoadRow(r) \/ SetEarned(r) \/ TryAgain(r)
    \/ AddCommission(r) \/ Throws(r)

ReferralNext ==
    \/ \E r \in Requests : Step(r)
    \/ \E r \in Requests, p \in Processes, a \in Referees, c \in Applied : BeginApply(r, p, a, c)
    \/ \E r \in Requests, p \in Processes, a \in Referees : Earn(r, p, a)
    \/ \E a \in Referees : Activate(a)
    \/ \E p \in Processes : Restart(p) \/ \E entry \in recent[p] : Forget(p, entry)

ReferralSpec == ReferralInit /\ [][ReferralNext]_vars

-----------------------------------------------------------------------------

ReferralTypeOK ==
    /\ active \subseteq Accounts
    /\ referredBy \in [Accounts -> Accounts \cup {Nobody}]
    /\ \A a \in Accounts : rows[a] = NoRow \/ rows[a] \in Row
    /\ welcomed \subseteq Accounts /\ brought \subseteq Accounts \X Accounts
    /\ welcome \in [Accounts -> Nat] /\ signup \in [Accounts -> [Accounts -> Nat]]
    /\ commission \in [Accounts -> Nat]
    /\ missed \in [Accounts -> Nat]
    /\ inflight \in [Processes -> [Accounts -> Requests \cup {Nobody}]]
    /\ \A p \in Processes : recent[p] \subseteq Accounts \X Codes \X {"applied", "refused"}
    /\ \A r \in Requests : req[r].at \in Places

\* docs/docs/referrals/anti-sybil-measures.md: "duplicate submissions or retries can't
\* create duplicate rewards".  However often codes are applied, by requests on several
\* processes that overlap or are cut off, and whether or not the events of the awards
\* went in, an account is welcomed at most once and brings at most one referrer at most
\* one signup bonus.  That it brings one at all is not ensured: a request that is cut
\* off after the link leaves the bonuses unpaid, and no other one pays them.
SignupPaidOnce ==
    \A a \in Accounts :
        /\ welcome[a] <= 1
        /\ Cardinality({b \in Accounts : signup[b][a] > 0}) <= 1
        /\ \A b \in Accounts : signup[b][a] <= 1

\* The row of a referee names its referrer, and what it says the referrer earned is
\* exactly what was awarded, less the updates under way and those that were cut off:
\* retries of the compare and set neither lose nor repeat an award.  It is what was
\* awarded, not what the events say: an event may be missing, and the row counts it.
UnderWay(a) ==
    LET adding == {r \in Requests : req[r].account = a /\ Left(r) > 0}
    IN  Signup * Cardinality({r \in adding : req[r].add = Signup})
        + Commission * Cardinality({r \in adding : req[r].add # Signup})
SignupAwards(a) == Cardinality({b \in Accounts : signup[b][a] > 0})
EarnedAccounted ==
    \A a \in Accounts :
        /\ rows[a] # NoRow => rows[a].referrer = referredBy[a]
        /\ (IF rows[a] = NoRow THEN 0 ELSE rows[a].earned) + UnderWay(a) + missed[a]
              = Signup * SignupAwards(a) + commission[a]

=============================================================================
