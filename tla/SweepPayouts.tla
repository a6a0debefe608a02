----------------------------- MODULE SweepPayouts -----------------------------
(***************************************************************************)
(* The payout worker of the sweep campaign                                 *)
(* (apps/api/src/services/sweepCampaign.ts): processPayouts with           *)
(* recoverSendingClaims and sendClaimPayout, the admin's approveClaims,    *)
(* the database rows of the claims and the chain's view of the wallet.     *)
(*                                                                         *)
(* A server process runs one loop at a time (payoutLoopRunning) and may    *)
(* die between any two of its awaits.  An attempt, that is a signed        *)
(* transaction, stands for its hash.  Its nonce is stored with its hash    *)
(* and cleared with it, so the row keeps both as one field.  One UTC day,  *)
(* so that "paid today" is "paid"; the owner of the wallet may use a nonce *)
(* for a transaction of his own.                                           *)
(***************************************************************************)
EXTENDS Amounts, Sequences

CONSTANTS
    Claims,      \* rows of sweep_campaign_claims
    Amount,      \* what each claim pays
    MaxAuto,     \* getMaxAutoPayoutMicro
    DailyCap,    \* getDailySpendCapMicro
    Funds,       \* what the payout wallet starts with
    MaxAttempts, \* PAYOUT_MAX_ATTEMPTS
    Processes,   \* server processes
    Faults,      \* what may go wrong besides crashes
    MaxCrashes,  \* bound on the crashes
    MaxForeign,  \* bound on the owner's own transactions
    NoTx, NoClaim

FaultKinds == {"sign", "missed receipt", "lost answer", "rejected", "unsaved"}

\* The try-th attempt to pay a claim.
Attempt == [claim : Claims, try : 1 .. MaxAttempts, nonce : Nat \ {0}]

ASSUME PayoutsAssumption ==
    /\ IsFiniteSet(Claims) /\ Amount \in [Claims -> Nat]
    /\ MaxAuto \in Nat /\ DailyCap \in Nat /\ Funds \in Nat /\ MaxAttempts \in Nat \ {0}
    /\ Faults \subseteq FaultKinds /\ MaxCrashes \in Nat /\ MaxForeign \in Nat
    /\ NoClaim \notin Claims /\ NoTx \notin Attempt

VARIABLES
    row,    \* rows of sweep_campaign_claims
    mined,  \* the wallet's transactions on chain, by nonce, and whether each paid
    pool,   \* attempts the network knows of
    loop,   \* where the payout loop of a process is
    crashes

payoutVars == <<row, mined, pool, loop, crashes>>

Statuses == {"pending_approval", "pending_payout", "sending", "paid", "failed"}
Places == {"idle", "recover", "nonce", "again", "batch", "take", "sign", "send", "wait"}
Resting == [at |-> "idle", rows |-> [c \in {} |-> c], claim |-> NoClaim, attempt |-> NoTx]

\* claimTier: a small claim is paid by the worker, a large one waits for the admin.
Claimed(c) == [status |-> IF Amount[c] <= MaxAuto THEN "pending_payout" ELSE "pending_approval",
               approved |-> FALSE, attempts |-> 0, attempt |-> NoTx]

PayoutsInit ==
    /\ row = [c \in Claims |-> Claimed(c)]
    /\ mined = <<>> /\ pool = {}
    /\ loop = [p \in Processes |-> Resting]
    /\ crashes = 0

Sum(S) == Total([c \in S |-> Amount[c]])

Paying(i) == mined[i].ok /\ mined[i].attempt # NoTx
Balance ==
    Funds - Total([i \in {j \in DOMAIN mined : Paying(j)} |-> Amount[mined[i].attempt.claim]])

-----------------------------------------------------------------------------
\* The network and the admin

\* An attempt whose nonce is next is mined, and reverts when the wallet is short.
\* Attempts with the same nonce can never be mined after it.
Mine ==
    \E t \in pool :
        /\ t.nonce = Len(mined) + 1
        /\ mined' = Append(mined, [attempt |-> t, ok |-> Amount[t.claim] <= Balance])
        /\ pool' = {u \in pool : u.nonce # t.nonce}
        /\ UNCHANGED <<row, loop, crashes>>

\* The owner sends a transaction of his own from the payout wallet.
OwnerSends ==
    /\ Cardinality({i \in DOMAIN mined : mined[i].attempt = NoTx}) < MaxForeign
    /\ mined' = Append(mined, [attempt |-> NoTx, ok |-> TRUE])
    /\ pool' = {u \in pool : u.nonce # Len(mined) + 1}
    /\ UNCHANGED <<row, loop, crashes>>

\* approveClaims: one conditional UPDATE.
approveClaims(c) ==
    /\ row[c].status = "pending_approval"
    /\ row' = [row EXCEPT ![c].status = "pending_payout", ![c].approved = TRUE]
    /\ UNCHANGED <<mined, pool, loop, crashes>>

Receipts(t) == {i \in DOMAIN mined : t # NoTx /\ mined[i].attempt = t}

\* A lookup that throws counts as "no receipt" in every caller.
NoReceipt(t) == Receipts(t) = {} \/ "missed receipt" \in Faults

-----------------------------------------------------------------------------
\* The payout loop

At(p, place) == loop[p].at = place
Goto(p, place) == loop' = [loop EXCEPT ![p].at = place]

\* The row as it was read, and the loop without it.
Saw(p) == loop[p].rows[loop[p].claim]
Done(p, c, place) ==
    loop' = [loop EXCEPT ![p] = [at |-> place, claim |-> NoClaim, attempt |-> NoTx,
                                 rows |-> [d \in DOMAIN loop[p].rows \ {c} |-> loop[p].rows[d]]]]

WithStatus(s) == {c \in Claims : row[c].status = s}
Read(p, place, S) ==
    loop' = [loop EXCEPT ![p].at = place, ![p].rows = [c \in S |-> row[c]]]

\* markClaimPaid, markClaimFailed: no condition on the status.
Mark(c, s) == row' = [row EXCEPT ![c].status = s]
\* Faulty variant of MarkBy: a receipt is enough, whatever its status.
MarkUnchecked(c, t) == \E i \in Receipts(t) : Mark(c, "paid")
MarkBy(c, t) == \E i \in Receipts(t) : Mark(c, IF mined[i].ok THEN "paid" ELSE "failed")

\* processPayouts: the rows in 'sending' are read at once, and handled one by one;
\* then a batch of those that wait.
BeginRecovery(p) ==
    /\ At(p, "idle") /\ Read(p, "recover", WithStatus("sending"))
    /\ UNCHANGED <<row, mined, pool, crashes>>
BeginBatch(p) ==
    /\ At(p, "recover") /\ DOMAIN loop[p].rows = {}
    /\ Read(p, "batch", WithStatus("pending_payout"))
    /\ UNCHANGED <<row, mined, pool, crashes>>

\* The batch is done, or the payouts are paused in the middle of it.
EndBatch(p) ==
    /\ At(p, "batch") /\ loop' = [loop EXCEPT ![p] = Resting]
    /\ UNCHANGED <<row, mined, pool, crashes>>

\* recoverSendingClaims looks for the receipt of the attempt, then at the nonce,
\* and again for the receipt.  A row without an attempt stays as it is.
FindReceipt(p) ==
    /\ At(p, "recover")
    /\ \E c \in DOMAIN loop[p].rows :
           MarkBy(c, loop[p].rows[c].attempt) /\ Done(p, c, "recover")
    /\ UNCHANGED <<mined, pool, crashes>>
FindNothing(p) ==
    /\ At(p, "recover")
    /\ \E c \in DOMAIN loop[p].rows :
           LET t == loop[p].rows[c].attempt
           IN  IF t = NoTx THEN Done(p, c, "recover")
               ELSE NoReceipt(t) /\ loop' = [loop EXCEPT ![p].at = "nonce", ![p].claim = c]
    /\ UNCHANGED <<row, mined, pool, crashes>>
CheckNonce(p) ==
    /\ At(p, "nonce")
    /\ IF Len(mined) >= Saw(p).attempt.nonce THEN Goto(p, "again")
       ELSE Done(p, loop[p].claim, "recover")
    /\ UNCHANGED <<row, mined, pool, crashes>>

\* The nonce went to another transaction: the attempt can never be mined.
Requeue(c, seen) ==
    IF seen.attempts >= MaxAttempts THEN Mark(c, "failed")
    ELSE IF row[c].status # "sending" THEN row' = row
    ELSE row' = [row EXCEPT ![c].status = "pending_payout", ![c].attempt = NoTx]

\* Faulty variant of LookAgain: a spent nonce is enough.
LookNoMore(p) ==
    /\ At(p, "again")
    /\ Requeue(loop[p].claim, Saw(p)) /\ Done(p, loop[p].claim, "recover")
    /\ UNCHANGED <<mined, pool, crashes>>

LookAgain(p) ==
    LET c == loop[p].claim  t == Saw(p).attempt
    IN  /\ At(p, "again")
        /\ MarkBy(c, t) \/ (NoReceipt(t) /\ Requeue(c, Saw(p)))
        /\ Done(p, c, "recover")
        /\ UNCHANGED <<mined, pool, crashes>>

\* Faulty variant of Today: what is being sent is not counted.
PaidToday == {c \in Claims : ~row[c].approved /\ row[c].status = "paid"}

\* getDailySpendMicro
Today == {c \in Claims : ~row[c].approved /\ row[c].status \in {"sending", "paid"}}

\* sendClaimPayout: what lets a claim leave the queue.
Payable(c, seen) ==
    /\ seen.approved \/ Amount[c] <= MaxAuto
    /\ Balance >= Amount[c]
    /\ seen.approved \/ Sum(Today) + Amount[c] <= DailyCap
Consider(p) ==
    /\ At(p, "batch")
    /\ \E c \in DOMAIN loop[p].rows :
           IF Payable(c, loop[p].rows[c])
           THEN loop' = [loop EXCEPT ![p].at = "take", ![p].claim = c]
           ELSE Done(p, c, "batch")
    /\ UNCHANGED <<row, mined, pool, crashes>>

\* One conditional UPDATE.
Take(p) ==
    LET c == loop[p].claim
    IN  /\ At(p, "take")
        /\ IF row[c].status = "pending_payout"
           THEN /\ row' = [row EXCEPT ![c].status = "sending", ![c].attempts = @ + 1]
                /\ Goto(p, "sign")
           ELSE row' = row /\ Done(p, c, "batch")
        /\ UNCHANGED <<mined, pool, crashes>>

\* The nonce comes from one of many nodes, which may not know all that is pending.
Nonces == {n \in Len(mined) + 1 .. Len(mined) + 1 + Cardinality(pool) :
               \A k \in Len(mined) + 1 .. n - 1 : \E u \in pool : u.nonce = k}

\* The attempt is stored before it is sent; an UPDATE that fails is not noticed.
Sign(p) ==
    LET c == loop[p].claim
    IN  /\ At(p, "sign")
        /\ \E n \in Nonces, saved \in BOOLEAN :
               LET t == [claim |-> c, try |-> row[c].attempts, nonce |-> n]
               IN  /\ saved \/ "unsaved" \in Faults
                   /\ row' = IF saved THEN [row EXCEPT ![c].attempt = t] ELSE row
                   /\ loop' = [loop EXCEPT ![p].at = "send", ![p].attempt = t]
        /\ UNCHANGED <<mined, pool, crashes>>

\* The catch block: a claim without a stored attempt goes back to the queue.
Caught(c) ==
    IF row[c].attempt # NoTx THEN row' = row
    ELSE IF row[c].attempts >= MaxAttempts THEN Mark(c, "failed")
    ELSE IF row[c].status # "sending" THEN row' = row
    ELSE Mark(c, "pending_payout")

\* Nonce, gas, fees or signature fail.
SignFails(p) ==
    /\ At(p, "sign") /\ "sign" \in Faults
    /\ Caught(loop[p].claim) /\ Done(p, loop[p].claim, "batch")
    /\ UNCHANGED <<mined, pool, crashes>>

\* eth_sendRawTransaction: the answer may be lost on its way.
Send(p) ==
    LET t == loop[p].attempt
    IN  /\ At(p, "send") /\ t.nonce > Len(mined)
        /\ pool' = pool \cup {t}
        /\ \/ row' = row /\ Goto(p, "wait")
           \/ "lost answer" \in Faults /\ Caught(t.claim) /\ Done(p, t.claim, "batch")
        /\ UNCHANGED <<mined, crashes>>
SendRejected(p) ==
    LET t == loop[p].attempt
    IN  /\ At(p, "send") /\ (t.nonce <= Len(mined) \/ "rejected" \in Faults)
        /\ Caught(t.claim) /\ Done(p, t.claim, "batch")
        /\ UNCHANGED <<mined, pool, crashes>>

\* The receipt is polled for, and left to recovery when it does not come.
Receive(p) ==
    LET t == loop[p].attempt
    IN  /\ At(p, "wait")
        /\ MarkBy(t.claim, t) \/ row' = row
        /\ Done(p, t.claim, "batch")
        /\ UNCHANGED <<mined, pool, crashes>>

Crash(p) ==
    /\ ~At(p, "idle") /\ crashes < MaxCrashes
    /\ crashes' = crashes + 1
    /\ loop' = [loop EXCEPT ![p] = Resting]
    /\ UNCHANGED <<row, mined, pool>>

LoopStep(p) ==
    \/ BeginRecovery(p) \/ BeginBatch(p) \/ EndBatch(p)
    \/ FindReceipt(p) \/ FindNothing(p) \/ CheckNonce(p) \/ LookAgain(p)
    \/ Consider(p) \/ Take(p) \/ Sign(p) \/ SignFails(p)
    \/ Send(p) \/ SendRejected(p) \/ Receive(p)

PayoutsNext ==
    \/ Mine \/ OwnerSends \/ \E c \in Claims : approveClaims(c)
    \/ \E p \in Processes : LoopStep(p) \/ Crash(p)

PayoutsSpec == PayoutsInit /\ [][PayoutsNext]_payoutVars

-----------------------------------------------------------------------------

RowType == [status : Statuses, approved : BOOLEAN, attempts : 0 .. MaxAttempts,
            attempt : Attempt \cup {NoTx}]

PayoutsTypeOK ==
    /\ row \in [Claims -> RowType]
    /\ mined \in Seq([attempt : Attempt \cup {NoTx}, ok : BOOLEAN])
    /\ pool \subseteq Attempt
    /\ \A p \in Processes :
           /\ loop[p].at \in Places /\ loop[p].claim \in Claims \cup {NoClaim}
           /\ loop[p].attempt \in Attempt \cup {NoTx}
           /\ DOMAIN loop[p].rows \subseteq Claims
    /\ crashes \in 0 .. MaxCrashes

Transferred(c) == {i \in DOMAIN mined : Paying(i) /\ mined[i].attempt.claim = c}

\* Comments of sendClaimPayout and recoverSendingClaims: a claim is never paid
\* twice, wherever a process dies, a nonce is lost or an answer does not arrive.
TransferredOnce == \A c \in Claims : Cardinality(Transferred(c)) <= 1

\* What the claimer is told is what the chain says: a claim is paid when it was
\* transferred, and queued or failed when it was not.
BooksMatchChain ==
    \A c \in Claims :
        /\ row[c].status = "paid" => Transferred(c) # {}
        /\ Transferred(c) # {} => row[c].status \in {"sending", "paid"}

\* What the worker pays on its own in a day stays within the cap.
WithinDailyCap == Sum(Today) <= DailyCap

=============================================================================
