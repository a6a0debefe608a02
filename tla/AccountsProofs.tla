---------------------------- MODULE AccountsProofs ----------------------------
(***************************************************************************)
(* The components of Accounts for any requests, claims, wallets, quests,   *)
(* sweeps and bounds, each in a part of its own with the invariant it      *)
(* needs, and the properties of their composition at the end.              *)
(***************************************************************************)
EXTENDS Accounts, AmountsProofs

(***************************************************************************)
(* SweepPayouts: with one server process, a row that is stored when its    *)
(* update returns, and lookups that find a receipt that exists, no claim   *)
(* is transferred twice.  The reason is that a row names the only attempt  *)
(* that is under way or has landed for its claim (Live, Landed), and that  *)
(* the loop acts on rows that have not changed since it read them          *)
(* (LoopAgrees).                                                           *)
(***************************************************************************)

OneHonestWorker ==
    /\ \A p, q \in Processes : p = q
    /\ "missed receipt" \notin Faults /\ "unsaved" \notin Faults

-----------------------------------------------------------------------------
\* The inductive invariant

RowsRead == UNION {[S -> RowType] : S \in SUBSET Claims}
LoopType == [at : Places, rows : RowsRead, claim : Claims \cup {NoClaim},
             attempt : Attempt \cup {NoTx}]
Transaction == [attempt : Attempt \cup {NoTx}, ok : BOOLEAN]

PayoutsTypes ==
    /\ row \in [Claims -> RowType]
    /\ mined \in Seq(Transaction)
    /\ pool \subseteq Attempt
    /\ loop \in [Processes -> LoopType]
    /\ crashes \in 0 .. MaxCrashes

Sending(c, t) == row[c].status = "sending" /\ row[c].attempt = t

\* What may still be mined is what its row is sending.
Live == \A t \in pool : Sending(t.claim, t) /\ t.nonce > Len(mined)

\* What was mined is what its row names, at the nonce it was signed with.
LandedAt(i, t) ==
    /\ t.nonce = i
    /\ row[t.claim].attempt = t
    /\ row[t.claim].status = "sending"
       \/ row[t.claim].status = (IF mined[i].ok THEN "paid" ELSE "failed")
Landed ==
    \A i \in DOMAIN mined : mined[i].attempt # NoTx => LandedAt(i, mined[i].attempt)

\* A queued row names no attempt and has one left; other rows name their own.
RowsAgree ==
    \A c \in Claims :
        /\ row[c].status \in {"pending_payout", "pending_approval"} =>
               row[c].attempt = NoTx /\ row[c].attempts < MaxAttempts
        /\ row[c].status = "sending" => row[c].attempts > 0
        /\ row[c].attempt # NoTx => row[c].attempt.claim = c

PaysClaim(i, c) == Paying(i) /\ mined[i].attempt.claim = c
PaidHasLanded ==
    \A c \in Claims : row[c].status = "paid" => \E i \in DOMAIN mined : PaysClaim(i, c)

\* What the loop remembers is so.
Recovering(l) ==
    \A c \in DOMAIN l.rows : row[c] = l.rows[c] /\ row[c].status = "sending"
Looking(l) == l.claim \in DOMAIN l.rows /\ l.rows[l.claim].attempt # NoTx
Agrees(l) ==
    /\ l.at \in {"recover", "nonce", "again"} => Recovering(l)
    /\ l.at \in {"nonce", "again"} => Looking(l)
    /\ l.at = "again" => l.rows[l.claim].attempt.nonce <= Len(mined)
    /\ l.at \in {"take", "sign"} => l.claim \in Claims
    /\ l.at = "sign" => Sending(l.claim, NoTx)
    /\ l.at \in {"send", "wait"} =>
           l.attempt \in Attempt /\ Sending(l.attempt.claim, l.attempt)
LoopAgrees == \A p \in Processes : Agrees(loop[p])

PayoutsInv ==
    /\ PayoutsTypes /\ Live /\ Landed /\ RowsAgree /\ PaidHasLanded /\ LoopAgrees

-----------------------------------------------------------------------------
\* The network and the admin

LEMMA StartsRight == PayoutsInit => PayoutsInv
<1> SUFFICES ASSUME PayoutsInit PROVE PayoutsInv
  OBVIOUS
<1> USE DEF PayoutsInit
<1>1. \A c \in Claims : Claimed(c) \in RowType
  BY PayoutsAssumption DEF Claimed, RowType, Statuses
<1>2. Resting \in LoopType
  <2>1. [c \in {} |-> c] \in [{} -> RowType]
    OBVIOUS
  <2> QED
    BY <2>1 DEF Resting, LoopType, RowsRead, Places
<1>3. PayoutsTypes
  BY <1>1, <1>2, PayoutsAssumption DEF PayoutsTypes
<1>4. Live /\ Landed /\ PaidHasLanded
  BY DEF Live, Landed, PaidHasLanded, Claimed
<1>5. RowsAgree
  BY PayoutsAssumption DEF RowsAgree, Claimed
<1>6. LoopAgrees
  BY DEF LoopAgrees, Agrees, Resting
<1> QED
  BY <1>3, <1>4, <1>5, <1>6 DEF PayoutsInv

\* A transaction is mined: an attempt of the pool, or one of the owner's.
Mines(t, ok) ==
    /\ mined' = Append(mined, [attempt |-> t, ok |-> ok])
    /\ pool' = {u \in pool : u.nonce # Len(mined) + 1}
    /\ UNCHANGED <<row, loop, crashes>>

LEMMA MinesKeeps ==
  ASSUME PayoutsInv, NEW t \in Attempt \cup {NoTx}, NEW ok \in BOOLEAN, Mines(t, ok),
         t # NoTx => t \in pool /\ t.nonce = Len(mined) + 1
  PROVE  PayoutsInv'
<1> USE DEF PayoutsInv, Mines
<1>1. /\ Len(mined) \in Nat /\ Len(mined') = Len(mined) + 1
      /\ DOMAIN mined = 1 .. Len(mined) /\ DOMAIN mined' = 1 .. Len(mined) + 1
      /\ \A i \in DOMAIN mined : mined'[i] = mined[i]
      /\ mined'[Len(mined) + 1] = [attempt |-> t, ok |-> ok]
      /\ mined' \in Seq(Transaction)
  BY DEF PayoutsTypes, Transaction
<1>2. PayoutsTypes'
  BY <1>1 DEF PayoutsTypes
<1>3. Live'
  BY <1>1 DEF Live, Sending, PayoutsTypes, Attempt
<1>4. Landed'
  <2> SUFFICES ASSUME NEW i \in DOMAIN mined', mined'[i].attempt # NoTx
               PROVE  LandedAt(i, mined[i].attempt)'
    BY DEF Landed
  <2>1. CASE i \in DOMAIN mined
    BY <1>1, <2>1 DEF Landed, LandedAt
  <2>2. CASE i = Len(mined) + 1
    BY <1>1, <2>2 DEF Live, LandedAt, Sending
  <2> QED
    BY <1>1, <2>1, <2>2
<1>5. RowsAgree'
  BY DEF RowsAgree
<1>6. PaidHasLanded'
  BY <1>1 DEF PaidHasLanded, PaysClaim, Paying
<1>7. LoopAgrees'
  <2> SUFFICES ASSUME NEW p \in Processes PROVE Agrees(loop[p])'
    BY DEF LoopAgrees
  <2>1. Agrees(loop[p])
    BY DEF LoopAgrees
  <2>2. loop[p].at = "again" => loop[p].rows[loop[p].claim].attempt.nonce \in Nat
    BY <2>1 DEF PayoutsTypes, Agrees, Looking, LoopType, RowsRead, RowType, Attempt
  <2> QED
    BY <1>1, <2>1, <2>2 DEF Agrees, Recovering, Looking, Sending
<1> QED
  BY <1>2, <1>3, <1>4, <1>5, <1>6, <1>7

LEMMA MineKeeps == PayoutsInv /\ Mine => PayoutsInv'
<1> SUFFICES ASSUME PayoutsInv, Mine PROVE PayoutsInv'
  OBVIOUS
<1>1. PICK t \in pool :
          /\ t.nonce = Len(mined) + 1
          /\ mined' = Append(mined, [attempt |-> t, ok |-> Amount[t.claim] <= Balance])
          /\ pool' = {u \in pool : u.nonce # t.nonce}
          /\ UNCHANGED <<row, loop, crashes>>
  BY DEF Mine
<1>2. (Amount[t.claim] <= Balance) \in BOOLEAN
  OBVIOUS
<1>3. Mines(t, Amount[t.claim] <= Balance)
  BY <1>1 DEF Mines
<1> QED
  BY <1>1, <1>2, <1>3, MinesKeeps DEF PayoutsInv, PayoutsTypes

LEMMA OwnerKeeps == PayoutsInv /\ OwnerSends => PayoutsInv'
<1> SUFFICES ASSUME PayoutsInv, OwnerSends PROVE PayoutsInv'
  OBVIOUS
<1>1. Mines(NoTx, TRUE)
  BY DEF OwnerSends, Mines
<1> QED
  BY <1>1, MinesKeeps

-----------------------------------------------------------------------------
\* What a step of the loop may do

LEMMA LoopMoves ==
  ASSUME PayoutsInv, OneHonestWorker, NEW p \in Processes,
         loop' \in [Processes -> LoopType], Agrees(loop[p])',
         UNCHANGED <<row, mined>>, pool' \subseteq Attempt, Live',
         crashes' \in 0 .. MaxCrashes
  PROVE  PayoutsInv'
<1>1. PayoutsTypes' /\ Landed' /\ RowsAgree' /\ PaidHasLanded'
  BY DEF PayoutsInv, PayoutsTypes, Landed, LandedAt, RowsAgree, PaidHasLanded, PaysClaim, Paying
<1>2. LoopAgrees'
  BY DEF LoopAgrees, OneHonestWorker
<1> QED
  BY <1>1, <1>2 DEF PayoutsInv

\* A row that c may have, as far as the chain and the network go.
Fits(c, r) ==
    /\ \A t \in pool : t.claim = c => r.status = "sending" /\ r.attempt = t
    /\ \A i \in DOMAIN mined :
           LET t == mined[i].attempt
           IN  t # NoTx /\ t.claim = c =>
                   /\ r.attempt = t
                   /\ r.status = "sending"
                      \/ r.status = (IF mined[i].ok THEN "paid" ELSE "failed")
    /\ r.status \in {"pending_payout", "pending_approval"} =>
           r.attempt = NoTx /\ r.attempts < MaxAttempts
    /\ r.status = "sending" => r.attempts > 0
    /\ r.attempt # NoTx => r.attempt.claim = c
    /\ r.status = "paid" => \E i \in DOMAIN mined : PaysClaim(i, c)

LEMMA RowMoves ==
  ASSUME PayoutsInv, NEW c \in Claims, NEW r \in RowType, Fits(c, r),
         row' = [row EXCEPT ![c] = r], UNCHANGED <<mined, pool, crashes>>,
         loop' \in [Processes -> LoopType], LoopAgrees'
  PROVE  PayoutsInv'
<1> USE DEF PayoutsInv, PayoutsTypes
<1>1. PayoutsTypes'
  OBVIOUS
<1>2. Live'
  BY DEF Live, Sending, Fits, Attempt
<1>3. Landed'
  <2> SUFFICES ASSUME NEW i \in DOMAIN mined, mined[i].attempt # NoTx
               PROVE  LandedAt(i, mined[i].attempt)'
    BY DEF Landed
  <2>1. mined[i] \in Transaction
    OBVIOUS
  <2>2. mined[i].attempt.claim \in Claims /\ LandedAt(i, mined[i].attempt)
    BY <2>1 DEF Landed, Transaction, Attempt
  <2> QED
    BY <2>2 DEF LandedAt, Fits
<1>4. RowsAgree'
  BY DEF RowsAgree, Fits
<1>5. PaidHasLanded'
  BY DEF PaidHasLanded, Fits, PaysClaim, Paying
<1> QED
  BY <1>1, <1>2, <1>3, <1>4, <1>5

LEMMA ApproveKeeps ==
  ASSUME PayoutsInv, NEW c \in Claims, approveClaims(c)
  PROVE  PayoutsInv'
<1> USE DEF PayoutsInv, PayoutsTypes
<1> DEFINE r == [row[c] EXCEPT !.status = "pending_payout", !.approved = TRUE]
<1>1. row' = [row EXCEPT ![c] = r] /\ UNCHANGED <<mined, pool, loop, crashes>>
  BY DEF approveClaims, RowType
<1>2. r \in RowType /\ r.status = "pending_payout" /\ r.attempt = NoTx
      /\ r.attempts < MaxAttempts
  BY DEF RowType, Statuses, RowsAgree, approveClaims
<1>3. row[c].status = "pending_approval" /\ row[c].attempt = NoTx
  BY DEF approveClaims, RowsAgree
<1>4. Fits(c, r)
  <2>1. \A t \in pool : t.claim # c
    BY <1>3 DEF Live, Sending
  <2>2. \A i \in DOMAIN mined : mined[i].attempt # NoTx => mined[i].attempt.claim # c
    BY <1>3 DEF Landed, LandedAt
  <2> HIDE DEF r
  <2> QED
    BY <1>2, <2>1, <2>2 DEF Fits
<1>5. LoopAgrees'
  BY <1>1, <1>3 DEF LoopAgrees, Agrees, Recovering, Looking, Sending, LoopType, RowsRead, Attempt
<1> HIDE DEF r
<1> QED
  BY <1>1, <1>2, <1>4, <1>5, RowMoves

\* Dropping a row leaves rows that were read.
LEMMA RowsLeft ==
  ASSUME NEW rows \in RowsRead, NEW c
  PROVE  /\ [d \in DOMAIN rows \ {c} |-> rows[d]] \in RowsRead
         /\ DOMAIN rows \subseteq Claims /\ \A d \in DOMAIN rows : rows[d] \in RowType
<1>1. PICK S \in SUBSET Claims : rows \in [S -> RowType]
  BY DEF RowsRead
<1>2. [d \in DOMAIN rows \ {c} |-> rows[d]] \in [S \ {c} -> RowType]
  BY <1>1
<1> QED
  BY <1>1, <1>2 DEF RowsRead

\* Done leaves the rows that are still to be handled.
Restart(p, place) ==
    /\ loop' \in [Processes -> LoopType]
    /\ loop'[p].at = place /\ loop'[p].claim = NoClaim /\ loop'[p].attempt = NoTx
Kept(p, c) ==
    /\ DOMAIN loop'[p].rows = DOMAIN loop[p].rows \ {c}
    /\ \A d \in DOMAIN loop'[p].rows : loop'[p].rows[d] = loop[p].rows[d]

LEMMA DoneLeaves ==
  ASSUME PayoutsTypes, NEW p \in Processes, NEW c, NEW place \in Places, Done(p, c, place)
  PROVE  Restart(p, place) /\ Kept(p, c)
<1> DEFINE left == [d \in DOMAIN loop[p].rows \ {c} |-> loop[p].rows[d]]
           l == [at |-> place, claim |-> NoClaim, attempt |-> NoTx, rows |-> left]
<1>1. loop[p].rows \in RowsRead /\ loop \in [Processes -> LoopType]
  BY DEF PayoutsTypes, LoopType
<1>2. left \in RowsRead
  BY <1>1, RowsLeft
<1>3. DOMAIN left = DOMAIN loop[p].rows \ {c}
      /\ \A d \in DOMAIN left : left[d] = loop[p].rows[d]
  OBVIOUS
<1>4. loop' = [loop EXCEPT ![p] = l]
  BY DEF Done
<1> HIDE DEF left
<1>5. l \in LoopType
  BY <1>2 DEF LoopType
<1>6. loop' \in [Processes -> LoopType] /\ loop'[p] = l
  BY <1>1, <1>4, <1>5
<1> QED
  BY <1>3, <1>6 DEF Restart, Kept

-----------------------------------------------------------------------------
\* What a claim's row may become

\* Nothing of the claim has landed or still may.
Untouched(c) ==
    /\ \A t \in pool : t.claim # c
    /\ \A i \in DOMAIN mined : mined[i].attempt # NoTx => mined[i].attempt.claim # c

LEMMA NothingSigned ==
  ASSUME PayoutsInv, NEW c \in Claims, row[c].attempt = NoTx
  PROVE  Untouched(c)
<1> QED
  BY PayoutsAssumption DEF PayoutsInv, PayoutsTypes, Untouched, Live, Sending, Landed, LandedAt

\* The nonce of the attempt is spent, and there is no receipt.
LEMMA NonceLost ==
  ASSUME PayoutsInv, NEW c \in Claims, row[c].attempt # NoTx,
         row[c].attempt.nonce <= Len(mined), Receipts(row[c].attempt) = {}
  PROVE  Untouched(c)
<1>1. ASSUME NEW t \in pool PROVE t.claim # c
  <2>1. t.nonce > Len(mined) /\ Sending(t.claim, t) /\ t.nonce \in Nat /\ Len(mined) \in Nat
    BY DEF PayoutsInv, PayoutsTypes, Live, Attempt
  <2> QED
    BY <2>1 DEF Sending
<1>2. ASSUME NEW i \in DOMAIN mined, mined[i].attempt # NoTx
      PROVE  mined[i].attempt.claim # c
  BY <1>2 DEF PayoutsInv, Landed, LandedAt, Receipts
<1> QED
  BY <1>1, <1>2 DEF Untouched

LEMMA UntouchedFits ==
  ASSUME NEW c, Untouched(c), NEW r, r.status \in Statuses \ {"paid"},
         r.status \in {"pending_payout", "pending_approval"} =>
             r.attempt = NoTx /\ r.attempts < MaxAttempts,
         r.status = "sending" => r.attempts > 0,
         r.attempt # NoTx => r.attempt.claim = c
  PROVE  Fits(c, r)
<1> QED
  BY DEF Untouched, Fits

\* A claim gets the status of the receipt of the attempt its row names.
LEMMA ReceiptFits ==
  ASSUME PayoutsInv, NEW c \in Claims, row[c].status = "sending",
         MarkBy(c, row[c].attempt)
  PROVE  \E r \in RowType : Fits(c, r) /\ row' = [row EXCEPT ![c] = r]
                            /\ r.status \in {"paid", "failed"}
<1> DEFINE t == row[c].attempt
<1>1. PICK i \in Receipts(t) : Mark(c, IF mined[i].ok THEN "paid" ELSE "failed")
  BY DEF MarkBy
<1> DEFINE r == [row[c] EXCEPT !.status = IF mined[i].ok THEN "paid" ELSE "failed"]
<1>2. row \in [Claims -> RowType] /\ mined \in Seq(Transaction) /\ pool \subseteq Attempt
  BY DEF PayoutsInv, PayoutsTypes
<1>3. r \in RowType /\ row' = [row EXCEPT ![c] = r]
      /\ r.status = (IF mined[i].ok THEN "paid" ELSE "failed") /\ r.attempt = t
  BY <1>1, <1>2 DEF Mark, RowType, Statuses
<1>4. i \in DOMAIN mined /\ mined[i].attempt = t /\ t # NoTx /\ t.claim = c
  BY <1>1 DEF Receipts, PayoutsInv, RowsAgree
<1>5. t.nonce = i /\ i <= Len(mined) /\ Len(mined) \in Nat /\ i \in Nat
  BY <1>2, <1>4 DEF PayoutsInv, Landed, LandedAt
<1> HIDE DEF r, t
<1>6. ASSUME NEW u \in pool PROVE u.claim # c
  <2>1. u.nonce > Len(mined) /\ Sending(u.claim, u)
    BY DEF PayoutsInv, Live
  <2> QED
    BY <1>5, <2>1 DEF Sending, t
<1>7. ASSUME NEW j \in DOMAIN mined, mined[j].attempt # NoTx, mined[j].attempt.claim = c
      PROVE  mined[j].attempt = t /\ j = i
  BY <1>5, <1>7 DEF PayoutsInv, Landed, LandedAt, t
<1>8. mined[i].ok => PaysClaim(i, c)
  BY <1>4 DEF PaysClaim, Paying
<1>9. Fits(c, r)
  BY <1>3, <1>4, <1>6, <1>7, <1>8 DEF Fits
<1> QED
  BY <1>3, <1>9

\* The catch block leaves a claim with a stored attempt, and queues or fails another.
LEMMA CaughtFits ==
  ASSUME PayoutsInv, NEW c \in Claims, row[c].status = "sending", row[c].attempt = NoTx,
         Caught(c)
  PROVE  \E r \in RowType : Fits(c, r) /\ row' = [row EXCEPT ![c] = r]
<1>1. row \in [Claims -> RowType] /\ Untouched(c)
  BY NothingSigned DEF PayoutsInv, PayoutsTypes
<1>2. PICK s \in {"failed", "pending_payout"} :
          Mark(c, s) /\ (s = "pending_payout" => ~(row[c].attempts >= MaxAttempts))
  BY DEF Caught
<1> DEFINE r == [row[c] EXCEPT !.status = s]
<1>3. r \in RowType /\ row' = [row EXCEPT ![c] = r] /\ r.status = s /\ r.attempt = NoTx
      /\ (s = "pending_payout" => r.attempts < MaxAttempts)
  BY <1>1, <1>2, PayoutsAssumption DEF Mark, RowType, Statuses
<1> HIDE DEF r
<1>4. Fits(c, r)
  BY <1>1, <1>3, UntouchedFits DEF Statuses
<1> QED
  BY <1>3, <1>4

LEMMA RequeueFits ==
  ASSUME PayoutsInv, NEW c \in Claims, row[c].status = "sending", Untouched(c),
         row[c].attempt # NoTx, Requeue(c, row[c])
  PROVE  \E r \in RowType : Fits(c, r) /\ row' = [row EXCEPT ![c] = r]
<1>1. row \in [Claims -> RowType] /\ row[c].attempt.claim = c
  BY DEF PayoutsInv, PayoutsTypes, RowsAgree
<1>2. CASE Mark(c, "failed")
  <2> DEFINE r == [row[c] EXCEPT !.status = "failed"]
  <2>1. r \in RowType /\ row' = [row EXCEPT ![c] = r] /\ r.status = "failed"
        /\ r.attempt = row[c].attempt
    BY <1>1, <1>2 DEF Mark, RowType, Statuses
  <2> HIDE DEF r
  <2>2. Fits(c, r)
    BY <1>1, <2>1, UntouchedFits DEF Statuses
  <2> QED
    BY <2>1, <2>2
<1>3. CASE /\ ~(row[c].attempts >= MaxAttempts)
           /\ row' = [row EXCEPT ![c].status = "pending_payout", ![c].attempt = NoTx]
  <2> DEFINE r == [row[c] EXCEPT !.status = "pending_payout", !.attempt = NoTx]
  <2>1. r \in RowType /\ row' = [row EXCEPT ![c] = r] /\ r.status = "pending_payout"
        /\ r.attempt = NoTx /\ r.attempts < MaxAttempts
    BY <1>1, <1>3, PayoutsAssumption DEF RowType, Statuses
  <2> HIDE DEF r
  <2>2. Fits(c, r)
    BY <2>1, UntouchedFits DEF Statuses
  <2> QED
    BY <2>1, <2>2
<1> QED
  BY <1>2, <1>3 DEF Requeue

-----------------------------------------------------------------------------
\* Recovery

\* In recovery a row is as it was read.
LEMMA RowsCurrent ==
  ASSUME PayoutsInv, NEW p \in Processes, loop[p].at \in {"recover", "nonce", "again"},
         NEW c \in DOMAIN loop[p].rows
  PROVE  c \in Claims /\ row[c] = loop[p].rows[c] /\ row[c].status = "sending"
<1>1. loop[p].rows \in RowsRead
  BY DEF PayoutsInv, PayoutsTypes, LoopType
<1> QED
  BY <1>1, RowsLeft DEF PayoutsInv, LoopAgrees, Agrees, Recovering

\* Handing back a row, written or not, recovery goes on with the others.
LEMMA RecoveryGoesOn ==
  ASSUME PayoutsInv, OneHonestWorker, NEW p \in Processes,
         loop[p].at \in {"recover", "nonce", "again"},
         NEW c \in DOMAIN loop[p].rows, Done(p, c, "recover"), UNCHANGED <<mined, pool, crashes>>,
         row' = row \/ \E r \in RowType : Fits(c, r) /\ row' = [row EXCEPT ![c] = r]
  PROVE  PayoutsInv'
<1>1. Restart(p, "recover") /\ Kept(p, c)
  BY DoneLeaves DEF PayoutsInv, Places
<1>2. row \in [Claims -> RowType] /\ \A d \in Claims : d # c => row'[d] = row[d]
  BY DEF PayoutsInv, PayoutsTypes
<1>3. Agrees(loop[p])'
  <2> SUFFICES ASSUME NEW d \in DOMAIN loop'[p].rows
               PROVE  row'[d] = loop'[p].rows[d] /\ row'[d].status = "sending"
    BY <1>1 DEF Agrees, Recovering, Restart
  <2> QED
    BY <1>1, <1>2, RowsCurrent DEF Kept
<1>4. LoopAgrees'
  BY <1>3 DEF LoopAgrees, OneHonestWorker
<1>5. CASE row' = row
  <2>1. Live' /\ pool' \subseteq Attempt /\ crashes' \in 0 .. MaxCrashes
    BY <1>5 DEF PayoutsInv, PayoutsTypes, Live, Sending
  <2> QED
    BY <1>1, <1>3, <1>5, <2>1, LoopMoves DEF Restart
<1>6. CASE \E r \in RowType : Fits(c, r) /\ row' = [row EXCEPT ![c] = r]
  BY <1>1, <1>4, <1>6, RowsCurrent, RowMoves DEF Restart
<1> QED
  BY <1>5, <1>6

LEMMA FindReceiptKeeps ==
  ASSUME PayoutsInv, OneHonestWorker, NEW p \in Processes, FindReceipt(p)
  PROVE  PayoutsInv'
<1>1. PICK c \in DOMAIN loop[p].rows :
          MarkBy(c, loop[p].rows[c].attempt) /\ Done(p, c, "recover")
  BY DEF FindReceipt
<1>2. loop[p].at = "recover" /\ UNCHANGED <<mined, pool, crashes>>
  BY DEF FindReceipt, At
<1>3. c \in Claims /\ row[c] = loop[p].rows[c] /\ row[c].status = "sending"
  BY <1>2, RowsCurrent
<1>4. \E r \in RowType : Fits(c, r) /\ row' = [row EXCEPT ![c] = r]
  BY <1>1, <1>3, ReceiptFits
<1> QED
  BY <1>1, <1>2, <1>4, RecoveryGoesOn

\* A step of the loop that writes nothing.
LEMMA LoopOnly ==
  ASSUME PayoutsInv, OneHonestWorker, NEW p \in Processes, UNCHANGED <<row, mined, pool>>,
         loop' \in [Processes -> LoopType], Agrees(loop[p])', crashes' \in 0 .. MaxCrashes
  PROVE  PayoutsInv'
<1>1. Live' /\ pool' \subseteq Attempt
  BY DEF PayoutsInv, PayoutsTypes, Live, Sending
<1> QED
  BY <1>1, LoopMoves

LEMMA FindNothingKeeps ==
  ASSUME PayoutsInv, OneHonestWorker, NEW p \in Processes, FindNothing(p)
  PROVE  PayoutsInv'
<1>1. loop[p].at = "recover" /\ UNCHANGED <<row, mined, pool, crashes>>
  BY DEF FindNothing, At
<1>2. PICK c \in DOMAIN loop[p].rows :
          \/ Done(p, c, "recover")
          \/ /\ loop[p].rows[c].attempt # NoTx
             /\ loop' = [loop EXCEPT ![p].at = "nonce", ![p].claim = c]
  BY DEF FindNothing
<1>3. CASE Done(p, c, "recover")
  BY <1>1, <1>3, RecoveryGoesOn
<1>4. CASE /\ loop[p].rows[c].attempt # NoTx
           /\ loop' = [loop EXCEPT ![p].at = "nonce", ![p].claim = c]
  <2>1. loop \in [Processes -> LoopType] /\ crashes \in 0 .. MaxCrashes
    BY DEF PayoutsInv, PayoutsTypes
  <2>2. c \in Claims
    BY <1>1, RowsCurrent
  <2>3. loop' \in [Processes -> LoopType]
    BY <1>4, <2>1, <2>2, ZenonT(30) DEF LoopType, Places
  <2>4. loop'[p].at = "nonce" /\ loop'[p].claim = c /\ loop'[p].rows = loop[p].rows
    BY <1>4, <2>1 DEF LoopType
  <2>5. Agrees(loop[p])'
    BY <1>1, <1>4, <2>4, ZenonT(30) DEF PayoutsInv, LoopAgrees, Agrees, Recovering, Looking
  <2> QED
    BY <1>1, <2>1, <2>3, <2>5, LoopOnly
<1> QED
  BY <1>2, <1>3, <1>4

LEMMA CheckNonceKeeps ==
  ASSUME PayoutsInv, OneHonestWorker, NEW p \in Processes, CheckNonce(p)
  PROVE  PayoutsInv'
<1>1. loop[p].at = "nonce" /\ UNCHANGED <<row, mined, pool, crashes>>
  BY DEF CheckNonce, At
<1>2. Looking(loop[p]) /\ Recovering(loop[p])
  BY <1>1 DEF PayoutsInv, LoopAgrees, Agrees
<1>3. CASE Len(mined) >= Saw(p).attempt.nonce /\ Goto(p, "again")
  <2>1. loop \in [Processes -> LoopType] /\ crashes \in 0 .. MaxCrashes
    BY DEF PayoutsInv, PayoutsTypes
  <2>2. loop' \in [Processes -> LoopType]
    BY <1>3, <2>1 DEF Goto, LoopType, Places
  <2>3. loop'[p].at = "again" /\ loop'[p].claim = loop[p].claim /\ loop'[p].rows = loop[p].rows
    BY <1>3, <2>1 DEF Goto, LoopType
  <2>4. Saw(p).attempt.nonce <= Len(mined)
    <3>1. Saw(p) = row[loop[p].claim] /\ loop[p].claim \in Claims
      BY <1>1, <1>2, RowsCurrent DEF Saw, Looking
    <3>2. Saw(p).attempt \in Attempt
      BY <1>2, <3>1 DEF Looking, Saw, PayoutsInv, PayoutsTypes, RowType
    <3> QED
      BY <1>3, <3>2 DEF Attempt, PayoutsInv, PayoutsTypes
  <2>5. Agrees(loop[p])'
    BY <1>1, <1>2, <2>3, <2>4 DEF Agrees, Recovering, Looking, Saw
  <2> QED
    BY <1>1, <2>1, <2>2, <2>5, LoopOnly
<1>4. CASE Done(p, loop[p].claim, "recover")
  BY <1>1, <1>2, <1>4, RecoveryGoesOn DEF Looking
<1> QED
  BY <1>3, <1>4 DEF CheckNonce

LEMMA LookAgainKeeps ==
  ASSUME PayoutsInv, OneHonestWorker, NEW p \in Processes, LookAgain(p)
  PROVE  PayoutsInv'
<1> DEFINE c == loop[p].claim
<1>1. loop[p].at = "again" /\ UNCHANGED <<mined, pool, crashes>> /\ Done(p, c, "recover")
  BY DEF LookAgain, At
<1>2. c \in DOMAIN loop[p].rows /\ Saw(p).attempt # NoTx
      /\ Saw(p).attempt.nonce <= Len(mined)
  BY <1>1 DEF PayoutsInv, LoopAgrees, Agrees, Looking, Saw
<1>3. c \in Claims /\ row[c] = Saw(p) /\ row[c].status = "sending"
  BY <1>1, <1>2, RowsCurrent DEF Saw
<1>4. MarkBy(c, Saw(p).attempt) \/ (NoReceipt(Saw(p).attempt) /\ Requeue(c, Saw(p)))
  BY DEF LookAgain
<1> HIDE DEF c
<1>5. CASE MarkBy(c, Saw(p).attempt)
  <2>1. \E r \in RowType : Fits(c, r) /\ row' = [row EXCEPT ![c] = r]
    BY <1>3, <1>5, ReceiptFits
  <2> QED
    BY <1>1, <1>2, <2>1, RecoveryGoesOn
<1>6. CASE NoReceipt(Saw(p).attempt) /\ Requeue(c, Saw(p))
  <2>1. Untouched(c)
    BY <1>2, <1>3, <1>6, NonceLost DEF NoReceipt, OneHonestWorker
  <2>2. \E r \in RowType : Fits(c, r) /\ row' = [row EXCEPT ![c] = r]
    BY <1>2, <1>3, <1>6, <2>1, RequeueFits
  <2> QED
    BY <1>1, <1>2, <2>2, RecoveryGoesOn
<1> QED
  BY <1>4, <1>5, <1>6

-----------------------------------------------------------------------------
\* Reading, resting and crashing

LEMMA ReadTypes ==
  ASSUME PayoutsInv, NEW p \in Processes, NEW place \in Places, NEW s, Read(p, place, WithStatus(s))
  PROVE  /\ loop' \in [Processes -> LoopType] /\ loop'[p].at = place
         /\ DOMAIN loop'[p].rows = WithStatus(s)
         /\ \A c \in WithStatus(s) : loop'[p].rows[c] = row[c]
<1> DEFINE read == [c \in WithStatus(s) |-> row[c]]
<1>1. read \in RowsRead
  <2>1. WithStatus(s) \in SUBSET Claims /\ read \in [WithStatus(s) -> RowType]
    BY DEF WithStatus, PayoutsInv, PayoutsTypes
  <2> QED
    BY <2>1 DEF RowsRead
<1>2. DOMAIN read = WithStatus(s) /\ \A c \in WithStatus(s) : read[c] = row[c]
  OBVIOUS
<1>3. loop' = [loop EXCEPT ![p].at = place, ![p].rows = read]
  BY DEF Read
<1>4. loop \in [Processes -> LoopType]
  BY DEF PayoutsInv, PayoutsTypes
<1> HIDE DEF read
<1> QED
  BY <1>1, <1>2, <1>3, <1>4 DEF LoopType

LEMMA ReadingKeeps ==
  ASSUME PayoutsInv, OneHonestWorker, NEW p \in Processes, BeginRecovery(p) \/ BeginBatch(p)
  PROVE  PayoutsInv'
<1>1. crashes \in 0 .. MaxCrashes /\ "recover" \in Places /\ "batch" \in Places
  BY DEF PayoutsInv, PayoutsTypes, Places
<1>2. CASE BeginRecovery(p)
  <2>1. Read(p, "recover", WithStatus("sending")) /\ UNCHANGED <<row, mined, pool, crashes>>
    BY <1>2 DEF BeginRecovery
  <2>2. loop'[p].at = "recover" /\ DOMAIN loop'[p].rows = WithStatus("sending")
        /\ \A c \in WithStatus("sending") : loop'[p].rows[c] = row[c]
    BY <1>1, <2>1, ReadTypes
  <2>3. \A c \in WithStatus("sending") : row[c].status = "sending"
    BY DEF WithStatus
  <2>4. Agrees(loop[p])'
    BY <2>1, <2>2, <2>3 DEF Agrees, Recovering
  <2> QED
    BY <1>1, <2>1, <2>4, ReadTypes, LoopOnly
<1>3. CASE BeginBatch(p)
  <2>1. Read(p, "batch", WithStatus("pending_payout")) /\ UNCHANGED <<row, mined, pool, crashes>>
    BY <1>3 DEF BeginBatch
  <2>2. Agrees(loop[p])'
    BY <1>1, <2>1, ReadTypes DEF Agrees
  <2> QED
    BY <1>1, <2>1, <2>2, ReadTypes, LoopOnly
<1> QED
  BY <1>2, <1>3

\* The process rests, at the end of a run or after a crash.
LEMMA RestingKeeps ==
  ASSUME PayoutsInv, OneHonestWorker, NEW p \in Processes, EndBatch(p) \/ Crash(p)
  PROVE  PayoutsInv'
<1>1. UNCHANGED <<row, mined, pool>> /\ loop' = [loop EXCEPT ![p] = Resting]
  BY DEF EndBatch, Crash
<1>2. crashes' \in 0 .. MaxCrashes
  BY PayoutsAssumption DEF EndBatch, Crash, PayoutsInv, PayoutsTypes
<1>3. Resting \in LoopType
  <2>1. [c \in {} |-> c] \in [{} -> RowType]
    OBVIOUS
  <2> QED
    BY <2>1 DEF Resting, LoopType, RowsRead, Places
<1>4. loop' \in [Processes -> LoopType] /\ loop'[p].at = "idle"
  BY <1>1, <1>3 DEF PayoutsInv, PayoutsTypes, Resting
<1>5. Agrees(loop[p])'
  BY <1>4 DEF Agrees
<1> QED
  BY <1>1, <1>2, <1>4, <1>5, LoopOnly

-----------------------------------------------------------------------------
\* Sending a payout

\* A claim is dealt with for now, and the batch goes on.
LEMMA BatchGoesOn ==
  ASSUME PayoutsInv, OneHonestWorker, NEW p \in Processes, NEW c, Done(p, c, "batch"),
         UNCHANGED <<mined, pool, crashes>>,
         row' = row \/ \E d \in Claims, r \in RowType : Fits(d, r) /\ row' = [row EXCEPT ![d] = r]
  PROVE  PayoutsInv'
<1>1. Restart(p, "batch")
  BY DoneLeaves DEF PayoutsInv, Places
<1>2. Agrees(loop[p])'
  BY <1>1 DEF Restart, Agrees
<1>3. LoopAgrees'
  BY <1>2 DEF LoopAgrees, OneHonestWorker
<1>4. crashes \in 0 .. MaxCrashes
  BY DEF PayoutsInv, PayoutsTypes
<1>5. CASE row' = row
  BY <1>1, <1>2, <1>4, <1>5, LoopOnly DEF Restart
<1>6. CASE \E d \in Claims, r \in RowType : Fits(d, r) /\ row' = [row EXCEPT ![d] = r]
  BY <1>1, <1>3, <1>6, RowMoves DEF Restart
<1> QED
  BY <1>5, <1>6

LEMMA ConsiderKeeps ==
  ASSUME PayoutsInv, OneHonestWorker, NEW p \in Processes, Consider(p)
  PROVE  PayoutsInv'
<1>1. UNCHANGED <<row, mined, pool, crashes>>
  BY DEF Consider
<1>2. PICK c \in DOMAIN loop[p].rows :
          Done(p, c, "batch") \/ loop' = [loop EXCEPT ![p].at = "take", ![p].claim = c]
  BY DEF Consider
<1>3. CASE loop' = [loop EXCEPT ![p].at = "take", ![p].claim = c]
  <2>1. loop \in [Processes -> LoopType] /\ crashes \in 0 .. MaxCrashes
    BY DEF PayoutsInv, PayoutsTypes
  <2>2. c \in Claims
    BY <2>1, RowsLeft DEF LoopType
  <2>3. loop' \in [Processes -> LoopType] /\ loop'[p].at = "take" /\ loop'[p].claim = c
    BY <1>3, <2>1, <2>2 DEF LoopType, Places
  <2>4. Agrees(loop[p])'
    BY <2>2, <2>3 DEF Agrees
  <2> QED
    BY <1>1, <2>1, <2>3, <2>4, LoopOnly
<1> QED
  BY <1>1, <1>2, <1>3, BatchGoesOn

LEMMA TakeKeeps ==
  ASSUME PayoutsInv, OneHonestWorker, NEW p \in Processes, Take(p)
  PROVE  PayoutsInv'
<1> DEFINE c == loop[p].claim
<1>1. UNCHANGED <<mined, pool, crashes>> /\ loop[p].at = "take"
  BY DEF Take, At
<1>2. c \in Claims
  BY <1>1 DEF PayoutsInv, LoopAgrees, Agrees
<1>3. CASE row' = row /\ Done(p, c, "batch")
  BY <1>1, <1>3, BatchGoesOn
<1>4. CASE /\ row[c].status = "pending_payout"
           /\ row' = [row EXCEPT ![c].status = "sending", ![c].attempts = @ + 1]
           /\ Goto(p, "sign")
  <2>1. row \in [Claims -> RowType] /\ loop \in [Processes -> LoopType]
    BY DEF PayoutsInv, PayoutsTypes
  <2>2. row[c].attempt = NoTx /\ row[c].attempts \in Nat /\ row[c].attempts < MaxAttempts
    BY <1>2, <1>4, <2>1 DEF PayoutsInv, RowsAgree, RowType
  <2>3. Untouched(c)
    BY <1>2, <2>2, NothingSigned
  <2> DEFINE r == [row[c] EXCEPT !.status = "sending", !.attempts = @ + 1]
  <2>4. r \in RowType /\ row' = [row EXCEPT ![c] = r] /\ r.status = "sending"
        /\ r.attempts > 0 /\ r.attempt = NoTx
    BY <1>2, <1>4, <2>1, <2>2, PayoutsAssumption DEF RowType, Statuses
  <2> HIDE DEF r
  <2>5. Fits(c, r)
    BY <2>3, <2>4, UntouchedFits DEF Statuses
  <2>6. loop' \in [Processes -> LoopType] /\ loop'[p].at = "sign" /\ loop'[p].claim = c
    BY <1>4, <2>1 DEF Goto, LoopType, Places
  <2>7. row'[c].status = "sending" /\ row'[c].attempt = NoTx
    BY <1>2, <2>1, <2>4
  <2>8. Agrees(loop[p])'
    BY <1>2, <2>6, <2>7 DEF Agrees, Sending
  <2>9. LoopAgrees'
    BY <2>8 DEF LoopAgrees, OneHonestWorker
  <2> QED
    BY <1>1, <1>2, <2>4, <2>5, <2>6, <2>9, RowMoves
<1> QED
  BY <1>3, <1>4 DEF Take

\* The attempt that is signed is the claim's own, with a nonce not used yet.
LEMMA SignKeeps ==
  ASSUME PayoutsInv, OneHonestWorker, NEW p \in Processes, Sign(p)
  PROVE  PayoutsInv'
<1> DEFINE c == loop[p].claim
<1>1. UNCHANGED <<mined, pool, crashes>> /\ loop[p].at = "sign"
  BY DEF Sign, At
<1>2. c \in Claims /\ row[c].status = "sending" /\ row[c].attempt = NoTx /\ row[c].attempts > 0
  BY <1>1 DEF PayoutsInv, LoopAgrees, Agrees, Sending, RowsAgree
<1>3. row \in [Claims -> RowType] /\ loop \in [Processes -> LoopType] /\ Len(mined) \in Nat
  BY DEF PayoutsInv, PayoutsTypes
<1>4. PICK n \in Nonces :
          LET t == [claim |-> c, try |-> row[c].attempts, nonce |-> n]
          IN  /\ row' = [row EXCEPT ![c].attempt = t]
              /\ loop' = [loop EXCEPT ![p].at = "send", ![p].attempt = t]
  BY DEF Sign, OneHonestWorker
<1> DEFINE t == [claim |-> c, try |-> row[c].attempts, nonce |-> n]
           r == [row[c] EXCEPT !.attempt = t]
<1>5. n \in Nat \ {0}
  BY <1>3 DEF Nonces
<1>6. t \in Attempt /\ t.claim = c
  BY <1>2, <1>3, <1>5, PayoutsAssumption DEF Attempt, RowType
<1>7. row' = [row EXCEPT ![c].attempt = t]
      /\ loop' = [loop EXCEPT ![p].at = "send", ![p].attempt = t]
  BY <1>4
<1> HIDE DEF t
<1>8. r \in RowType /\ row' = [row EXCEPT ![c] = r] /\ r.status = "sending"
      /\ r.attempts > 0 /\ r.attempt = t
  BY <1>2, <1>3, <1>6, <1>7 DEF RowType
<1> HIDE DEF r
<1>9. Fits(c, r)
  BY <1>2, <1>6, <1>8, NothingSigned, UntouchedFits DEF Statuses
<1>10. loop' \in [Processes -> LoopType] /\ loop'[p].at = "send" /\ loop'[p].attempt = t
  BY <1>3, <1>6, <1>7 DEF LoopType, Places
<1>11. row'[c].status = "sending" /\ row'[c].attempt = t
  BY <1>2, <1>3, <1>8
<1>12. Agrees(loop[p])'
  BY <1>6, <1>10, <1>11 DEF Agrees, Sending
<1>13. LoopAgrees'
  BY <1>12 DEF LoopAgrees, OneHonestWorker
<1> QED
  BY <1>1, <1>2, <1>8, <1>9, <1>10, <1>13, RowMoves

LEMMA SignFailsKeeps ==
  ASSUME PayoutsInv, OneHonestWorker, NEW p \in Processes, SignFails(p)
  PROVE  PayoutsInv'
<1>1. UNCHANGED <<mined, pool, crashes>> /\ loop[p].at = "sign" /\ Caught(loop[p].claim)
      /\ Done(p, loop[p].claim, "batch")
  BY DEF SignFails, At
<1>2. loop[p].claim \in Claims /\ Sending(loop[p].claim, NoTx)
  BY <1>1 DEF PayoutsInv, LoopAgrees, Agrees
<1>3. \E r \in RowType : Fits(loop[p].claim, r) /\ row' = [row EXCEPT ![loop[p].claim] = r]
  BY <1>1, <1>2, CaughtFits DEF Sending
<1> QED
  BY <1>1, <1>2, <1>3, BatchGoesOn

LEMMA SendKeeps ==
  ASSUME PayoutsInv, OneHonestWorker, NEW p \in Processes, Send(p)
  PROVE  PayoutsInv'
<1> DEFINE t == loop[p].attempt
<1>1. loop[p].at = "send" /\ UNCHANGED <<mined, crashes>> /\ t.nonce > Len(mined)
      /\ pool' = pool \cup {t}
  BY DEF Send, At
<1>2. t \in Attempt /\ Sending(t.claim, t)
  BY <1>1 DEF PayoutsInv, LoopAgrees, Agrees
<1>3. loop \in [Processes -> LoopType] /\ crashes \in 0 .. MaxCrashes /\ pool \subseteq Attempt
  BY DEF PayoutsInv, PayoutsTypes
<1>4. /\ row' = row
      /\ Goto(p, "wait") \/ Done(p, t.claim, "batch")
  BY <1>2, PayoutsAssumption DEF Send, Caught, Sending
<1> HIDE DEF t
<1>5. Live' /\ pool' \subseteq Attempt
  BY <1>1, <1>2, <1>3, <1>4 DEF PayoutsInv, Live, Sending
<1>6. CASE Goto(p, "wait")
  <2>1. loop' \in [Processes -> LoopType] /\ loop'[p].at = "wait" /\ loop'[p].attempt = t
    BY <1>3, <1>6 DEF Goto, LoopType, Places, t
  <2>2. Agrees(loop[p])'
    BY <1>2, <1>4, <2>1 DEF Agrees, Sending
  <2> QED
    BY <1>1, <1>3, <1>4, <1>5, <2>1, <2>2, LoopMoves
<1>7. CASE Done(p, t.claim, "batch")
  <2>1. Restart(p, "batch")
    BY <1>7, DoneLeaves DEF PayoutsInv, Places
  <2>2. Agrees(loop[p])'
    BY <2>1 DEF Agrees, Restart
  <2> QED
    BY <1>1, <1>3, <1>4, <1>5, <2>1, <2>2, LoopMoves DEF Restart
<1> QED
  BY <1>4, <1>6, <1>7

LEMMA AnsweredKeeps ==
  ASSUME PayoutsInv, OneHonestWorker, NEW p \in Processes, SendRejected(p) \/ Receive(p)
  PROVE  PayoutsInv'
<1> DEFINE t == loop[p].attempt
<1>1. loop[p].at \in {"send", "wait"} /\ UNCHANGED <<mined, pool, crashes>>
      /\ Done(p, t.claim, "batch")
  BY DEF SendRejected, Receive, At
<1>2. t \in Attempt /\ Sending(t.claim, t)
  BY <1>1 DEF PayoutsInv, LoopAgrees, Agrees
<1>3. row' = row \/ MarkBy(t.claim, t)
  BY <1>2, PayoutsAssumption DEF SendRejected, Receive, Caught, Sending
<1> HIDE DEF t
<1>4. MarkBy(t.claim, t) =>
          \E r \in RowType : Fits(t.claim, r) /\ row' = [row EXCEPT ![t.claim] = r]
  BY <1>2, ReceiptFits DEF Sending, Attempt
<1>5. t.claim \in Claims
  BY <1>2 DEF Attempt
<1> QED
  BY <1>1, <1>3, <1>4, <1>5, BatchGoesOn

-----------------------------------------------------------------------------
\* The theorems

LEMMA StepsKeep ==
  ASSUME OneHonestWorker
  PROVE  PayoutsInv /\ [PayoutsNext]_payoutVars => PayoutsInv'
<1> SUFFICES ASSUME PayoutsInv, [PayoutsNext]_payoutVars PROVE PayoutsInv'
  OBVIOUS
<1>1. CASE Mine
  BY <1>1, MineKeeps
<1>2. CASE OwnerSends
  BY <1>2, OwnerKeeps
<1>3. ASSUME NEW c \in Claims, approveClaims(c) PROVE PayoutsInv'
  BY <1>3, ApproveKeeps
<1>4. ASSUME NEW p \in Processes, LoopStep(p) \/ Crash(p) PROVE PayoutsInv'
  BY <1>4, ReadingKeeps, RestingKeeps, FindReceiptKeeps, FindNothingKeeps, CheckNonceKeeps,
     LookAgainKeeps, ConsiderKeeps, TakeKeeps, SignKeeps, SignFailsKeeps, SendKeeps,
     AnsweredKeeps DEF LoopStep
<1>5. CASE UNCHANGED payoutVars
  BY <1>5 DEF payoutVars, PayoutsInv, PayoutsTypes, Live, Sending, Landed, LandedAt, RowsAgree,
     PaidHasLanded, PaysClaim, Paying, LoopAgrees, Agrees, Recovering, Looking
<1> QED
  BY <1>1, <1>2, <1>3, <1>4, <1>5 DEF PayoutsNext

LEMMA InvAlways ==
  ASSUME OneHonestWorker
  PROVE  PayoutsSpec => []PayoutsInv
<1>1. PayoutsInv /\ [PayoutsNext]_payoutVars => PayoutsInv'
  BY StepsKeep
<1> QED
  BY <1>1, StartsRight, PTL DEF PayoutsSpec

LEMMA TransfersOnce == PayoutsInv => TransferredOnce
<1> SUFFICES ASSUME PayoutsInv, NEW c \in Claims PROVE Cardinality(Transferred(c)) <= 1
  BY DEF TransferredOnce
<1>1. Transferred(c) \subseteq {row[c].attempt.nonce}
  BY DEF Transferred, Paying, PayoutsInv, Landed, LandedAt
<1>2. IsFiniteSet({row[c].attempt.nonce}) /\ Cardinality({row[c].attempt.nonce}) = 1
  BY FS_Singleton
<1>3. IsFiniteSet(Transferred(c)) /\ Cardinality(Transferred(c)) <= 1
  BY <1>1, <1>2, FS_Subset
<1> QED
  BY <1>3

LEMMA BooksMatch == PayoutsInv => BooksMatchChain
<1> SUFFICES ASSUME PayoutsInv, NEW c \in Claims
             PROVE  /\ row[c].status = "paid" => Transferred(c) # {}
                    /\ Transferred(c) # {} => row[c].status \in {"sending", "paid"}
  BY DEF BooksMatchChain
<1>1. row[c].status = "paid" => Transferred(c) # {}
  BY DEF PayoutsInv, PaidHasLanded, PaysClaim, Transferred
<1>2. Transferred(c) # {} => row[c].status \in {"sending", "paid"}
  BY DEF PayoutsInv, Landed, LandedAt, Transferred, Paying
<1> QED
  BY <1>1, <1>2

LEMMA TypesHold == PayoutsInv => PayoutsTypeOK
<1> SUFFICES ASSUME PayoutsInv PROVE PayoutsTypeOK
  OBVIOUS
<1>1. \A p \in Processes : DOMAIN loop[p].rows \subseteq Claims
  BY RowsLeft DEF PayoutsInv, PayoutsTypes, LoopType
<1> QED
  BY <1>1 DEF PayoutsInv, PayoutsTypes, PayoutsTypeOK, LoopType, Transaction

\* sweepCampaign.ts, processPayouts: rows, transactions and the loop have their types.
THEOREM PayoutsTypeCorrect ==
  ASSUME OneHonestWorker
  PROVE  PayoutsSpec => []PayoutsTypeOK
  BY InvAlways, TypesHold, PTL

\* sendClaimPayout and recoverSendingClaims: wherever the process dies, whatever answer
\* of the network is lost and whichever nonce goes to the owner, a claim is paid once.
THEOREM PaidOnlyOnce ==
  ASSUME OneHonestWorker
  PROVE  PayoutsSpec => []TransferredOnce
  BY InvAlways, TransfersOnce, PTL

\* The status of a claim is what the chain says of it.
THEOREM BooksAlwaysMatch ==
  ASSUME OneHonestWorker
  PROVE  PayoutsSpec => []BooksMatchChain
  BY InvAlways, BooksMatch, PTL

-----------------------------------------------------------------------------
\* The daily cap

\* An approval that was read stands, and what is about to be taken has room.
ApprovalsStand ==
    \A p \in Processes : \A c \in DOMAIN loop[p].rows :
        loop[p].rows[c].approved => row[c].approved
RoomFor(c) == row[c].approved \/ Sum(Today) + Amount[c] <= DailyCap
RoomLeft == \A p \in Processes : At(p, "take") => RoomFor(loop[p].claim)
CapInv == ApprovalsStand /\ RoomLeft /\ WithinDailyCap

LEMMA SumWithin ==
  ASSUME NEW T \in SUBSET Claims, NEW S \in SUBSET T
  PROVE  Sum(S) \in Nat /\ Sum(T) \in Nat /\ Sum(S) <= Sum(T)
<1> DEFINE f == [c \in S |-> Amount[c]]
           g == [c \in T |-> Amount[c]]
<1>1. f \in [S -> Nat] /\ g \in [T -> Nat] /\ \A c \in S : f[c] = g[c]
  BY PayoutsAssumption
<1>2. IsFiniteSet(T)
  BY PayoutsAssumption, FS_Subset
<1> HIDE DEF f, g
<1>3. Total(f) \in Nat /\ Total(g) \in Nat /\ Total(f) <= Total(g)
  BY <1>1, <1>2, TotalWithin
<1> QED
  BY <1>3 DEF Sum, f, g

LEMMA SumGrows ==
  ASSUME NEW S \in SUBSET Claims, NEW c \in Claims
  PROVE  Sum(S \cup {c}) <= Sum(S) + Amount[c]
<1> DEFINE f == [d \in S |-> Amount[d]]
           g == [d \in S \cup {c} |-> Amount[d]]
<1>1. Sum(S) \in Nat /\ Amount[c] \in Nat /\ IsFiniteSet(S)
  BY PayoutsAssumption, SumWithin, FS_Subset
<1>2. CASE c \in S
  <2>1. S \cup {c} = S
    BY <1>2
  <2> QED
    BY <1>1, <2>1
<1>3. CASE c \notin S
  <2>1. f \in [S -> Nat] /\ g \in [S \cup {c} -> Nat] /\ g[c] = Amount[c]
        /\ \A d \in S : g[d] = f[d]
    BY PayoutsAssumption
  <2> HIDE DEF f, g
  <2>2. Total(g) = Total(f) + Amount[c]
    BY <1>1, <1>3, <2>1, TotalInsert
  <2> QED
    BY <1>1, <2>2 DEF Sum, f, g
<1> QED
  BY <1>2, <1>3

\* A step that takes nothing: approvals stay, and nothing more is counted.
Modest == (\A c \in Claims : row[c].approved => row'[c].approved) /\ Today' \subseteq Today

LEMMA ModestKeeps ==
  ASSUME WithinDailyCap, Modest
  PROVE  WithinDailyCap' /\ \A c \in Claims : RoomFor(c) => RoomFor(c)'
<1>1. Today \in SUBSET Claims /\ Today' \in SUBSET Today
  BY DEF Modest, Today
<1> DEFINE before == Today
           after == Today'
<1> HIDE DEF before, after
<1>2. after \in SUBSET before /\ before \in SUBSET Claims
  BY <1>1 DEF before, after
<1>3. Sum(after) \in Nat /\ Sum(before) \in Nat /\ Sum(after) <= Sum(before)
  BY <1>2, SumWithin
<1>4. Sum(Today)' = Sum(after) /\ Sum(Today) = Sum(before)
  BY DEF Sum, before, after
<1>5. WithinDailyCap'
  BY <1>3, <1>4, PayoutsAssumption DEF WithinDailyCap
<1>6. ASSUME NEW c \in Claims, RoomFor(c) PROVE RoomFor(c)'
  BY <1>3, <1>4, <1>6, PayoutsAssumption DEF RoomFor, Modest
<1> QED
  BY <1>5, <1>6

LEMMA MarkModest ==
  ASSUME row \in [Claims -> RowType], NEW c \in Claims, NEW s \in Statuses, Mark(c, s),
         s \in {"sending", "paid"} => row[c].status = "sending"
  PROVE  Modest
  BY DEF Mark, Modest, Today, RowType

LEMMA ReceiptModest ==
  ASSUME row \in [Claims -> RowType], NEW c \in Claims, NEW t, MarkBy(c, t),
         row[c].status = "sending"
  PROVE  Modest
<1>1. PICK s \in {"paid", "failed"} : Mark(c, s)
  BY DEF MarkBy
<1> QED
  BY <1>1, MarkModest DEF Statuses

LEMMA BackModest ==
  ASSUME row \in [Claims -> RowType], NEW c \in Claims, NEW seen, Caught(c) \/ Requeue(c, seen)
  PROVE  Modest
<1>1. CASE row' = row
  BY <1>1 DEF Modest, Today
<1>2. CASE \E s \in {"failed", "pending_payout"} : Mark(c, s)
  BY <1>2, MarkModest DEF Statuses
<1>3. CASE row' = [row EXCEPT ![c].status = "pending_payout", ![c].attempt = NoTx]
  BY <1>3 DEF Modest, Today, RowType
<1> QED
  BY <1>1, <1>2, <1>3 DEF Caught, Requeue

\* A loop that leaves its place with rows that it had, or has just read.
LeavesPlace(p) ==
    /\ loop'[p].at # "take"
    /\ \A c \in DOMAIN loop'[p].rows :
           /\ c \in Claims
           /\ \/ c \in DOMAIN loop[p].rows /\ loop'[p].rows[c] = loop[p].rows[c]
              \/ loop'[p].rows[c] = row[c]

LEMMA LeavingKeeps ==
  ASSUME OneHonestWorker, CapInv, Modest, NEW p \in Processes, LeavesPlace(p)
  PROVE  CapInv'
<1>1. WithinDailyCap'
  BY ModestKeeps DEF CapInv
<1>2. RoomLeft'
  BY DEF RoomLeft, At, LeavesPlace, OneHonestWorker
<1>3. ApprovalsStand'
  <2> SUFFICES ASSUME NEW c \in DOMAIN loop'[p].rows, loop'[p].rows[c].approved
               PROVE  row'[c].approved
    BY DEF ApprovalsStand, OneHonestWorker
  <2>1. row[c].approved
    BY DEF LeavesPlace, CapInv, ApprovalsStand
  <2> QED
    BY <2>1 DEF LeavesPlace, Modest
<1> QED
  BY <1>1, <1>2, <1>3 DEF CapInv

LEMMA StayingKeeps ==
  ASSUME PayoutsInv, CapInv, Modest, loop' = loop
  PROVE  CapInv'
<1>1. WithinDailyCap' /\ \A c \in Claims : RoomFor(c) => RoomFor(c)'
  BY ModestKeeps DEF CapInv
<1>2. \A p \in Processes : DOMAIN loop[p].rows \subseteq Claims
                           /\ (At(p, "take") => loop[p].claim \in Claims)
  BY RowsLeft DEF PayoutsInv, PayoutsTypes, LoopType, LoopAgrees, Agrees, At
<1>3. RoomLeft' /\ ApprovalsStand'
  BY <1>1, <1>2 DEF CapInv, RoomLeft, ApprovalsStand, At, Modest
<1> QED
  BY <1>1, <1>3 DEF CapInv

LEMMA DoneLeavesPlace ==
  ASSUME PayoutsInv, NEW p \in Processes, NEW c, NEW place \in {"recover", "batch"}, Done(p, c, place)
  PROVE  LeavesPlace(p)
<1>1. Restart(p, place) /\ Kept(p, c)
  BY DoneLeaves DEF PayoutsInv, Places
<1>2. DOMAIN loop[p].rows \subseteq Claims
  BY RowsLeft DEF PayoutsInv, PayoutsTypes, LoopType
<1> QED
  BY <1>1, <1>2 DEF LeavesPlace, Restart, Kept

LEMMA OtherPlaces ==
  ASSUME PayoutsInv, NEW p \in Processes, loop'[p].at # "take", loop'[p].rows = loop[p].rows
  PROVE  LeavesPlace(p)
  BY RowsLeft DEF LeavesPlace, PayoutsInv, PayoutsTypes, LoopType

\* Recovery, and the answers to a payout that was sent.
LEMMA RecoveryCapped ==
  ASSUME PayoutsInv, OneHonestWorker, CapInv, NEW p \in Processes,
         BeginRecovery(p) \/ BeginBatch(p) \/ EndBatch(p) \/ Crash(p)
         \/ FindReceipt(p) \/ FindNothing(p) \/ CheckNonce(p) \/ LookAgain(p)
  PROVE  CapInv'
<1>1. row \in [Claims -> RowType] /\ loop \in [Processes -> LoopType]
  BY DEF PayoutsInv, PayoutsTypes
<1>2. row' = row => Modest
  BY DEF Modest, Today
<1>3. CASE BeginRecovery(p) \/ BeginBatch(p)
  <2>1. PICK s \in Statuses, place \in {"recover", "batch"} : Read(p, place, WithStatus(s)) /\ row' = row
    BY <1>3 DEF BeginRecovery, BeginBatch, Statuses
  <2>2. loop'[p].at = place /\ DOMAIN loop'[p].rows = WithStatus(s)
        /\ \A c \in WithStatus(s) : loop'[p].rows[c] = row[c]
    BY <2>1, ReadTypes DEF Places
  <2>3. LeavesPlace(p)
    BY <2>2 DEF LeavesPlace, WithStatus
  <2> QED
    BY <1>2, <2>1, <2>3, LeavingKeeps
<1>4. CASE EndBatch(p) \/ Crash(p)
  <2>1. row' = row /\ loop' = [loop EXCEPT ![p] = Resting]
    BY <1>4 DEF EndBatch, Crash
  <2>2. LeavesPlace(p)
    BY <1>1, <2>1 DEF LeavesPlace, Resting
  <2> QED
    BY <1>2, <2>1, <2>2, LeavingKeeps
<1>5. CASE FindReceipt(p)
  <2>1. PICK c \in DOMAIN loop[p].rows :
            MarkBy(c, loop[p].rows[c].attempt) /\ Done(p, c, "recover")
    BY <1>5 DEF FindReceipt
  <2>2. c \in Claims /\ row[c].status = "sending"
    BY <1>5, RowsCurrent DEF FindReceipt, At
  <2> QED
    BY <1>1, <2>1, <2>2, ReceiptModest, DoneLeavesPlace, LeavingKeeps
<1>6. CASE FindNothing(p) \/ CheckNonce(p)
  <2>1. row' = row
        /\ \/ \E c : Done(p, c, "recover")
           \/ \E c : loop' = [loop EXCEPT ![p].at = "nonce", ![p].claim = c]
           \/ loop' = [loop EXCEPT ![p].at = "again"]
    BY <1>6 DEF FindNothing, CheckNonce, Goto
  <2>2. LeavesPlace(p)
    <3>1. CASE \E c : Done(p, c, "recover")
      BY <3>1, DoneLeavesPlace
    <3>2. CASE loop' = [loop EXCEPT ![p].at = "again"]
               \/ \E c : loop' = [loop EXCEPT ![p].at = "nonce", ![p].claim = c]
      BY <1>1, <3>2, OtherPlaces DEF LoopType
    <3> QED
      BY <2>1, <3>1, <3>2
  <2> QED
    BY <1>2, <2>1, <2>2, LeavingKeeps
<1>7. CASE LookAgain(p)
  <2> DEFINE c == loop[p].claim
  <2>1. /\ loop[p].at = "again" /\ Done(p, c, "recover")
        /\ MarkBy(c, Saw(p).attempt) \/ Requeue(c, Saw(p))
    BY <1>7 DEF LookAgain, At
  <2>2. c \in Claims /\ row[c].status = "sending"
    BY <2>1, RowsCurrent DEF PayoutsInv, LoopAgrees, Agrees, Looking
  <2> QED
    BY <1>1, <2>1, <2>2, ReceiptModest, BackModest, DoneLeavesPlace, LeavingKeeps
<1> QED
  BY <1>3, <1>4, <1>5, <1>6, <1>7

LEMMA SendingCapped ==
  ASSUME PayoutsInv, OneHonestWorker, CapInv, NEW p \in Processes,
         Sign(p) \/ SignFails(p) \/ Send(p) \/ SendRejected(p) \/ Receive(p)
  PROVE  CapInv'
<1>1. row \in [Claims -> RowType] /\ loop \in [Processes -> LoopType]
  BY DEF PayoutsInv, PayoutsTypes
<1>2. row' = row => Modest
  BY DEF Modest, Today
<1>3. CASE Sign(p)
  <2>1. PICK t : /\ row' = row \/ row' = [row EXCEPT ![loop[p].claim].attempt = t]
                 /\ loop' = [loop EXCEPT ![p].at = "send", ![p].attempt = t]
    BY <1>3 DEF Sign
  <2>2. Modest
    BY <1>1, <2>1 DEF Modest, Today, RowType
  <2>3. LeavesPlace(p)
    BY <1>1, <2>1, OtherPlaces, SMTT(30) DEF LoopType
  <2> QED
    BY <2>2, <2>3, LeavingKeeps, SMTT(30)
<1>4. CASE SignFails(p)
  <2>1. loop[p].claim \in Claims /\ Caught(loop[p].claim) /\ Done(p, loop[p].claim, "batch")
    BY <1>4 DEF SignFails, At, PayoutsInv, LoopAgrees, Agrees
  <2> QED
    BY <1>1, <2>1, BackModest, DoneLeavesPlace, LeavingKeeps
<1>5. CASE Send(p) \/ SendRejected(p) \/ Receive(p)
  <2> DEFINE t == loop[p].attempt
  <2>1. t \in Attempt /\ Sending(t.claim, t)
    BY <1>5 DEF Send, SendRejected, Receive, At, PayoutsInv, LoopAgrees, Agrees
  <2>2. /\ row' = row \/ Caught(t.claim) \/ MarkBy(t.claim, t)
        /\ Goto(p, "wait") \/ Done(p, t.claim, "batch")
    BY <1>5 DEF Send, SendRejected, Receive
  <2> HIDE DEF t
  <2>3. Modest
    BY <1>1, <1>2, <2>1, <2>2, BackModest, ReceiptModest DEF Attempt, Sending
  <2>4. LeavesPlace(p)
    BY <1>1, <2>2, DoneLeavesPlace, OtherPlaces DEF Goto, LoopType
  <2> QED
    BY <2>3, <2>4, LeavingKeeps
<1> QED
  BY <1>3, <1>4, <1>5

\* What is considered has room when it is about to be taken.
LEMMA ConsiderCapped ==
  ASSUME PayoutsInv, OneHonestWorker, CapInv, NEW p \in Processes, Consider(p)
  PROVE  CapInv'
<1>1. row' = row /\ Modest /\ loop \in [Processes -> LoopType]
  BY DEF Consider, Modest, Today, PayoutsInv, PayoutsTypes
<1>2. PICK c \in DOMAIN loop[p].rows :
          IF Payable(c, loop[p].rows[c])
          THEN loop' = [loop EXCEPT ![p].at = "take", ![p].claim = c]
          ELSE Done(p, c, "batch")
  BY DEF Consider
<1>3. CASE Done(p, c, "batch")
  BY <1>1, <1>3, DoneLeavesPlace, LeavingKeeps
<1>4. CASE /\ Payable(c, loop[p].rows[c])
           /\ loop' = [loop EXCEPT ![p].at = "take", ![p].claim = c]
  <2>1. loop'[p].rows = loop[p].rows /\ loop'[p].claim = c
    BY <1>1, <1>4 DEF LoopType
  <2>2. RoomFor(c) /\ ApprovalsStand
    BY <1>4 DEF Payable, RoomFor, CapInv, ApprovalsStand
  <2>3. RoomFor(c)' /\ WithinDailyCap'
    BY <1>1, <2>2 DEF RoomFor, Sum, Today, CapInv, WithinDailyCap
  <2>4. RoomLeft' /\ ApprovalsStand'
    BY <1>1, <2>1, <2>2, <2>3 DEF RoomLeft, ApprovalsStand, OneHonestWorker, At
  <2> QED
    BY <2>3, <2>4 DEF CapInv
<1> QED
  BY <1>2, <1>3, <1>4

LEMMA TakeCapped ==
  ASSUME PayoutsInv, OneHonestWorker, CapInv, NEW p \in Processes, Take(p)
  PROVE  CapInv'
<1> DEFINE c == loop[p].claim
<1>1. row \in [Claims -> RowType] /\ loop \in [Processes -> LoopType] /\ At(p, "take")
      /\ c \in Claims /\ RoomFor(c)
  BY DEF Take, At, PayoutsInv, PayoutsTypes, LoopAgrees, Agrees, CapInv, RoomLeft
<1>2. CASE row' = row /\ Done(p, c, "batch")
  BY <1>2, DoneLeavesPlace, LeavingKeeps DEF Modest, Today
<1>3. CASE /\ row[c].status = "pending_payout"
           /\ row' = [row EXCEPT ![c].status = "sending", ![c].attempts = @ + 1]
           /\ Goto(p, "sign")
  <2>1. LeavesPlace(p)
    BY <1>1, <1>3, OtherPlaces DEF Goto, LoopType
  <2>2. \A d \in Claims : row'[d].approved = row[d].approved
    BY <1>1, <1>3 DEF RowType
  <2>3. CASE row[c].approved
    <3>1. Modest
      BY <1>1, <1>3, <2>2, <2>3 DEF Modest, Today, RowType
    <3> QED
      BY <2>1, <3>1, LeavingKeeps
  <2>4. CASE ~row[c].approved
    <3>1. Today' \subseteq Today \cup {c} /\ Today \in SUBSET Claims
      BY <1>1, <1>3, <2>2 DEF Today, RowType
    <3> DEFINE before == Today
               after == Today'
    <3> HIDE DEF before, after, c
    <3>2. after \in SUBSET (before \cup {c}) /\ before \in SUBSET Claims
      BY <3>1 DEF before, after
    <3>3. Sum(after) <= Sum(before) + Amount[c]
      <4>1. Sum(after) \in Nat /\ Sum(before \cup {c}) \in Nat
            /\ Sum(after) <= Sum(before \cup {c})
        BY <1>1, <3>2, SumWithin
      <4>2. Sum(before \cup {c}) <= Sum(before) + Amount[c] /\ Sum(before) \in Nat
        BY <1>1, <3>2, SumGrows, SumWithin
      <4> QED
        BY <1>1, <4>1, <4>2, PayoutsAssumption
    <3>4. Sum(before) + Amount[c] <= DailyCap
      BY <1>1, <2>4 DEF RoomFor, before
    <3>5. Sum(after) \in Nat /\ Sum(before) \in Nat
      BY <1>1, <3>2, SumWithin
    <3>6. WithinDailyCap'
      <4>1. Sum(after) <= DailyCap
        BY <1>1, <3>3, <3>4, <3>5, PayoutsAssumption
      <4> QED
        BY <4>1 DEF WithinDailyCap, Sum, after
    <3>7. RoomLeft' /\ ApprovalsStand'
      <4>1. RoomLeft'
        BY <2>1 DEF RoomLeft, At, LeavesPlace, OneHonestWorker
      <4>2. \A d \in DOMAIN loop'[p].rows : loop'[p].rows[d].approved => row'[d].approved
        BY <2>1, <2>2 DEF LeavesPlace, CapInv, ApprovalsStand
      <4> QED
        BY <4>1, <4>2 DEF ApprovalsStand, OneHonestWorker
    <3> QED
      BY <3>6, <3>7 DEF CapInv
  <2> QED
    BY <2>3, <2>4
<1> QED
  BY <1>2, <1>3 DEF Take

LEMMA StepsCapped ==
  ASSUME OneHonestWorker
  PROVE  PayoutsInv /\ CapInv /\ [PayoutsNext]_payoutVars => CapInv'
<1> SUFFICES ASSUME PayoutsInv, CapInv, [PayoutsNext]_payoutVars PROVE CapInv'
  OBVIOUS
<1>1. CASE UNCHANGED <<row, loop>>
  BY <1>1, StayingKeeps DEF Modest, Today
<1>2. ASSUME NEW c \in Claims, approveClaims(c) PROVE CapInv'
  <2>1. row \in [Claims -> RowType]
    BY DEF PayoutsInv, PayoutsTypes
  <2>2. Modest
    BY <1>2, <2>1 DEF approveClaims, Modest, Today, RowType
  <2> QED
    BY <1>2, <2>2, StayingKeeps DEF approveClaims
<1>3. ASSUME NEW p \in Processes, LoopStep(p) \/ Crash(p) PROVE CapInv'
  BY <1>3, RecoveryCapped, SendingCapped, ConsiderCapped, TakeCapped DEF LoopStep
<1> QED
  BY <1>1, <1>2, <1>3 DEF PayoutsNext, Mine, OwnerSends, payoutVars

LEMMA StartsCapped == PayoutsInit => CapInv
<1> SUFFICES ASSUME PayoutsInit PROVE CapInv
  OBVIOUS
<1>1. Today = {}
  BY DEF PayoutsInit, Today, Claimed
<1>2. Sum({}) = 0
  <2>1. [d \in {} |-> Amount[d]] \in [{} -> Nat]
    OBVIOUS
  <2> QED
    BY <2>1, TotalZero DEF Sum
<1>3. WithinDailyCap
  BY <1>1, <1>2, PayoutsAssumption DEF WithinDailyCap
<1> QED
  BY <1>3 DEF PayoutsInit, CapInv, RoomLeft, ApprovalsStand, At, Resting

\* sendClaimPayout: however the worker is interrupted and whatever the admin approves
\* meanwhile, what it pays on its own in a day stays within the cap.
THEOREM SpendingCapped ==
  ASSUME OneHonestWorker
  PROVE  PayoutsSpec => []WithinDailyCap
<1>1. PayoutsInit => CapInv
  BY StartsCapped
<1>2. PayoutsInv /\ CapInv /\ [PayoutsNext]_payoutVars => CapInv'
  BY StepsCapped
<1>3. CapInv => WithinDailyCap
  BY DEF CapInv
<1> QED
  BY <1>1, <1>2, <1>3, InvAlways, PTL DEF PayoutsSpec

-----------------------------------------------------------------------------
(***************************************************************************)
(* QuestRewards for any quests, requests and target: where two syncs of    *)
(* one wallet do not overlap, a quest is rewarded again only after a       *)
(* reward that threw when it was given already, and only for what was done.*)
(*                                                                         *)
(* The reason is that a row is written back only by a request that still   *)
(* knows it (ReadNow), or with its reward set (Mending), and that whoever  *)
(* took the reward is the only one who can give it back (OneHolder).       *)
(***************************************************************************)

SyncsTakeTurns == Quests!QuestsAssumption /\ ~SyncsOverlap

-----------------------------------------------------------------------------
\* The inductive invariant

Service == [at : Quests!Places, quest : Quests!Quests \cup {NoQuest}, seen : Quests!Row,
            volume : Nat]

Keeping == {"award", "commission", "release"}
Holding(r) == serving[r].at \in Keeping
Finishing == {"load", "mend", "claim", "award", "commission", "release"}

\* What has been given for a quest, and how much of it threw afterwards.
Pay == [q \in Quests!Quests |-> [given |-> awarded[q], thrown |-> thrown[q]]]
Tally == [given : Nat, thrown : Nat]
PayTyped == awarded \in [Quests!Quests -> Nat] /\ thrown \in [Quests!Quests -> Nat]
Owed(a) == a.given = a.thrown
Standing(a) == a.given = a.thrown + 1

\* The reward that a request has claimed: given or not.
Held(place, a) == IF place = "commission" THEN Standing(a) ELSE Owed(a)

\* Where the requests of a quest may be.
InPlace ==
    \A r \in Requests :
        /\ Quests!At(r, "idle") <=> Quests!Quest(r) = NoQuest
        /\ serving[r].at \in {"existing", "save"} => Quests!Syncing(r)
        /\ Quests!At(r, "open") => Quests!Quest(r) \in DelayQuests
           /\ ~progress[Quests!Quest(r)].opened

OneSync == \A r, s \in Requests : Quests!Syncing(r) /\ Quests!Syncing(s) => r = s
OneHolder ==
    \A r, s \in Requests : Holding(r) /\ Holding(s) /\ Quests!Quest(r) = Quests!Quest(s) =>
       r = s
OpensAlone ==
    \A r, s \in Requests : Quests!At(r, "open") /\ Quests!Quest(r) = Quests!Quest(s) => r = s

ReadNow ==
    \A r \in Requests : serving[r].at \in {"save", "open"} =>
       Quests!Seen(r) = progress[Quests!Quest(r)]
Mending ==
    \A r \in Requests : Quests!At(r, "mend") =>
        Quests!Seen(r).rewarded /\ (Quests!Quest(r) \in DelayQuests => Quests!Seen(r).opened)

\* Whoever has claimed a reward has not given it, or is about to end with it.
HoldersOwe ==
    \A r \in Requests : Holding(r) =>
        progress[Quests!Quest(r)].rewarded /\ Held(serving[r].at, Pay[Quests!Quest(r)])
AwardsMarked ==
    \A q \in Quests!Quests : Owed(Pay[q]) \/ (Standing(Pay[q]) /\ progress[q].rewarded)

\* Nothing happens to a quest before it is opened.
Unopened ==
    \A q \in DelayQuests : ~progress[q].opened =>
        /\ ~progress[q].rewarded /\ Pay[q].given = 0
        /\ \A r \in Requests : Quests!Quest(r) = q => Quests!At(r, "open")

WorkDone ==
    /\ \A r \in Requests : /\ serving[r].volume <= swept
                           /\ Quests!Syncing(r) /\ serving[r].at \in Finishing =>
                              swept >= Target
    /\ \A q \in OnchainQuests : Pay[q].given > 0 => swept >= Target

QuestsInv ==
    /\ Quests!QuestsTypeOK /\ InPlace /\ OneSync /\ OneHolder /\ OpensAlone
    /\ ReadNow /\ Mending /\ HoldersOwe /\ AwardsMarked /\ Unopened /\ WorkDone

-----------------------------------------------------------------------------
\* A step of one request about one quest

\* Request r comes to be n, and quest q to have row w and tally a.
Step(r, q, n, w, a) ==
    /\ serving' = [serving EXCEPT ![r] = n]
    /\ progress' = [progress EXCEPT ![q] = w]
    /\ Pay' = [Pay EXCEPT ![q] = a]
    /\ PayTyped'
    /\ swept' = swept /\ trouble' \in 0 .. MaxTrouble

\* The row and the awards agree.
RowRight(q, w, a) ==
    /\ Owed(a) \/ (Standing(a) /\ w.rewarded)
    /\ q \in DelayQuests /\ ~w.opened => ~w.rewarded /\ a.given = 0
    /\ q \in OnchainQuests /\ a.given > 0 => swept >= Target

\* The request is where it may be.
RequestRight(q, n, w, a) ==
    /\ n.quest \in {q, NoQuest} /\ (n.at = "idle" <=> n.quest = NoQuest)
    /\ n.at \in {"existing", "save"} => q \in OnchainQuests
    /\ n.at = "open" => q \in DelayQuests /\ ~w.opened
    /\ n.at \in {"save", "open"} => n.seen = w
    /\ n.at = "mend" => n.seen.rewarded /\ (q \in DelayQuests => n.seen.opened)
    /\ n.at \in Keeping => w.rewarded /\ Held(n.at, a)
    /\ n.quest = q /\ q \in DelayQuests /\ ~w.opened => n.at = "open"
    /\ n.volume <= swept
    /\ n.quest \in OnchainQuests /\ n.at \in Finishing => swept >= Target

\* The other requests about the quest are not disturbed.
OthersRight(r, q, n, w, a) ==
    /\ serving[r].quest \in {q, NoQuest}
    /\ \A s \in Requests \ {r} :
           /\ n.quest \in OnchainQuests => ~Quests!Syncing(s)
           /\ Quests!Quest(s) = q =>
                  /\ n.at # "open" /\ (Quests!At(s, "open") => n.quest # q)
                  /\ serving[s].at \in {"save", "open"} => w = progress[q]
                  /\ Holding(s) => w.rewarded /\ Held(serving[s].at, a) /\ n.at \notin Keeping
                  /\ q \in DelayQuests /\ ~w.opened => Quests!At(s, "open")

LEMMA StepKeeps ==
  ASSUME SyncsTakeTurns, QuestsInv,
         NEW r \in Requests, NEW q \in Quests!Quests, NEW n \in Service, NEW w \in Quests!Row,
         NEW a \in Tally,
         Step(r, q, n, w, a), RowRight(q, w, a), RequestRight(q, n, w, a),
         OthersRight(r, q, n, w, a)
  PROVE  QuestsInv'
<1> USE DEF Step
<1>1. /\ serving \in [Requests -> Service] /\ progress \in [Quests!Quests -> Quests!Row]
      /\ PayTyped /\ Pay \in [Quests!Quests -> Tally] /\ swept \in Nat /\ Target \in Nat
      /\ NoQuest \notin Quests!Quests /\ OnchainQuests \subseteq Quests!Quests
         /\ DelayQuests \subseteq Quests!Quests
  BY DEF QuestsInv, Quests!QuestsTypeOK, SyncsTakeTurns, Quests!QuestsAssumption, Service,
     Quests!Quests, Pay, PayTyped, Tally
<1>2. /\ serving'[r] = n /\ \A s \in Requests : s # r => serving'[s] = serving[s]
      /\ progress'[q] = w /\ \A p \in Quests!Quests : p # q => progress'[p] = progress[p]
      /\ Pay'[q] = a /\ \A p \in Quests!Quests : p # q => Pay'[p] = Pay[p]
  BY <1>1
<1>3. Quests!QuestsTypeOK'
  BY <1>1 DEF QuestsInv, Quests!QuestsTypeOK, Service, PayTyped
<1>4. InPlace'
  BY <1>1, <1>2 DEF QuestsInv, InPlace, Quests!At, Quests!Quest, Quests!Syncing, RequestRight,
     OthersRight
<1>5. OneSync'
  BY <1>1, <1>2 DEF QuestsInv, OneSync, Quests!Syncing, Quests!Quest, OthersRight
<1>6. OneHolder'
  BY <1>1, <1>2 DEF QuestsInv, OneHolder, Holding, Keeping, Quests!Quest, RequestRight, OthersRight
<1>7. OpensAlone'
  BY <1>1, <1>2 DEF QuestsInv, OpensAlone, InPlace, Quests!At, Quests!Quest, RequestRight,
     OthersRight
<1>8. ReadNow'
  BY <1>1, <1>2 DEF QuestsInv, ReadNow, InPlace, Quests!At, Quests!Seen, Quests!Quest,
     Quests!Syncing, RequestRight, OthersRight
<1>9. Mending'
  BY <1>1, <1>2 DEF QuestsInv, Mending, Quests!At, Quests!Seen, Quests!Quest, RequestRight,
     OthersRight
<1>10. HoldersOwe'
  BY <1>1, <1>2 DEF QuestsInv, HoldersOwe, Holding, Keeping, InPlace, Quests!At, Quests!Quest,
     RequestRight, OthersRight
<1>11. AwardsMarked'
  BY <1>1, <1>2 DEF QuestsInv, AwardsMarked, RowRight
<1>12. Unopened'
  BY <1>1, <1>2 DEF QuestsInv, Unopened, Quests!At, Quests!Quest, RowRight, RequestRight,
     OthersRight
<1>13. WorkDone'
  BY <1>1, <1>2 DEF QuestsInv, WorkDone, Quests!Syncing, Quests!Quest, RowRight, RequestRight
<1> QED
  BY <1>3, <1>4, <1>5, <1>6, <1>7, <1>8, <1>9, <1>10, <1>11, <1>12, <1>13 DEF QuestsInv

LEMMA QuestsStartRight ==
  ASSUME SyncsTakeTurns
  PROVE  Quests!QuestsInit => QuestsInv
<1> SUFFICES ASSUME Quests!QuestsInit PROVE QuestsInv
  OBVIOUS
<1> USE DEF Quests!QuestsInit, Quests!Idle, Quests!NoRow, SyncsTakeTurns,
    Quests!QuestsAssumption
<1>1. Quests!QuestsTypeOK
  BY DEF Quests!QuestsTypeOK, Quests!Row, Quests!Places
<1>2. \A r \in Requests : Quests!At(r, "idle") /\ Quests!Quest(r) = NoQuest
      /\ ~Quests!Syncing(r) /\ ~Holding(r)
  BY DEF Quests!At, Quests!Quest, Quests!Syncing, Holding, Keeping, Quests!Quests
<1> DEFINE none == [given |-> 0, thrown |-> 0]
<1>7. \A q \in Quests!Quests : Pay[q] = none /\ Owed(Pay[q]) /\ Pay[q].given = 0
  BY DEF Pay, Owed, Quests!Quests
<1>3. InPlace /\ ReadNow /\ Mending /\ HoldersOwe
  BY <1>2 DEF InPlace, ReadNow, Mending, HoldersOwe, Quests!At
<1>4. OneSync /\ OneHolder /\ OpensAlone
  BY <1>2 DEF OneSync, OneHolder, OpensAlone, Quests!At
<1>5. AwardsMarked /\ Unopened
  BY <1>2, <1>7 DEF AwardsMarked, Unopened, Quests!Quests
<1>6. WorkDone
  BY <1>2, <1>7 DEF WorkDone, Quests!Quests
<1> QED
  BY <1>1, <1>3, <1>4, <1>5, <1>6 DEF QuestsInv

LEMMA SweepKeeps ==
  ASSUME SyncsTakeTurns
  PROVE  QuestsInv /\ Quests!RecordSweep => QuestsInv'
<1> SUFFICES ASSUME QuestsInv, Quests!RecordSweep PROVE QuestsInv'
  OBVIOUS
<1> USE DEF Quests!RecordSweep, QuestsInv
<1>1. Quests!QuestsTypeOK'
  BY DEF Quests!QuestsTypeOK, SyncsTakeTurns, Quests!QuestsAssumption
<1>2. InPlace' /\ OneSync' /\ OneHolder' /\ OpensAlone' /\ ReadNow' /\ Mending'
  BY DEF InPlace, OneSync, OneHolder, OpensAlone, ReadNow, Mending, Quests!At, Quests!Quest,
     Quests!Seen, Quests!Syncing, Holding
<1>3. HoldersOwe' /\ AwardsMarked' /\ Unopened'
  BY DEF HoldersOwe, AwardsMarked, Unopened, Quests!At, Quests!Quest, Holding, Pay
<1>4. WorkDone'
  <2>1. Pay' = Pay
    BY DEF Pay
  <2> QED
    BY <2>1 DEF WorkDone, Quests!Syncing, Quests!Quest, Quests!QuestsTypeOK, SyncsTakeTurns,
       Quests!QuestsAssumption
<1> QED
  BY <1>1, <1>2, <1>3, <1>4

\* What holds before any step of a request.
Before(r) ==
    /\ serving \in [Requests -> Service] /\ progress \in [Quests!Quests -> Quests!Row]
    /\ PayTyped /\ Pay \in [Quests!Quests -> Tally] /\ swept \in Nat /\ Target \in Nat
    /\ trouble \in 0 .. MaxTrouble /\ MaxTrouble \in Nat
    /\ Quests!Quests = OnchainQuests \cup DelayQuests /\ OnchainQuests \cap DelayQuests = {}
    /\ NoQuest \notin Quests!Quests
    /\ serving[r] \in Service
    /\ ~Quests!At(r, "idle") => Quests!Quest(r) \in Quests!Quests

LEMMA BeforeHolds ==
  ASSUME SyncsTakeTurns, QuestsInv, NEW r \in Requests
  PROVE  Before(r) /\ \A q \in Quests!Quests : RowRight(q, progress[q], Pay[q])
<1>1. Before(r)
  <2>1. PayTyped /\ Pay \in [Quests!Quests -> Tally]
    BY DEF QuestsInv, Quests!QuestsTypeOK, PayTyped, Pay, Tally
  <2> QED
    BY <2>1 DEF Before, QuestsInv, Quests!QuestsTypeOK, InPlace, SyncsTakeTurns,
       Quests!QuestsAssumption, Service, Quests!Quests, Quests!At, Quests!Quest
<1>2. \A q \in Quests!Quests : RowRight(q, progress[q], Pay[q])
  BY <1>1 DEF Before, RowRight, QuestsInv, AwardsMarked, Unopened, WorkDone
<1> QED
  BY <1>1, <1>2

LEMMA PayStays == ASSUME PayTyped, UNCHANGED <<awarded, thrown>> PROVE Pay' = Pay /\ PayTyped'
  BY DEF Pay, PayTyped

LEMMA PayGrows ==
  ASSUME PayTyped, NEW q \in Quests!Quests, NEW g \in {0, 1}, NEW t \in {0, 1},
         awarded' = [awarded EXCEPT ![q] = @ + g] \/ (g = 0 /\ awarded' = awarded),
         thrown' = [thrown EXCEPT ![q] = @ + t] \/ (t = 0 /\ thrown' = thrown)
  PROVE  /\ Pay' = [Pay EXCEPT ![q] = [given |-> awarded[q] + g, thrown |-> thrown[q] + t]]
         /\ PayTyped'
<1>1. PayTyped' /\ awarded'[q] = awarded[q] + g /\ thrown'[q] = thrown[q] + t
      /\ \A p \in Quests!Quests : p # q => awarded'[p] = awarded[p] /\ thrown'[p] = thrown[p]
  BY DEF PayTyped
<1> QED
  BY <1>1 DEF Pay

\* A step that writes neither the row nor the awards.
LEMMA QuietKeeps ==
  ASSUME SyncsTakeTurns, QuestsInv, NEW r \in Requests, NEW q \in Quests!Quests,
     NEW n \in Service,
         serving' = [serving EXCEPT ![r] = n], UNCHANGED <<swept, progress, awarded, thrown>>,
         trouble' \in 0 .. MaxTrouble,
         RequestRight(q, n, progress[q], Pay[q]),
         OthersRight(r, q, n, progress[q], Pay[q])
  PROVE  QuestsInv'
<1>1. /\ progress \in [Quests!Quests -> Quests!Row] /\ Pay \in [Quests!Quests -> Tally]
      /\ PayTyped /\ RowRight(q, progress[q], Pay[q])
  BY BeforeHolds DEF Before
<1>2. Step(r, q, n, progress[q], Pay[q])
  BY <1>1, PayStays DEF Step
<1> QED
  BY <1>1, <1>2, StepKeeps

\* What the others may assume of a row that nobody has written.
LEMMA OthersUndisturbed ==
  ASSUME SyncsTakeTurns, QuestsInv, NEW r \in Requests, NEW q \in Quests!Quests,
     NEW n \in Service,
         Quests!Quest(r) \in {q, NoQuest}, n.quest \in {Quests!Quest(r), NoQuest},
         n.at # "open", n.at \in Keeping => Holding(r)
  PROVE  OthersRight(r, q, n, progress[q], Pay[q])
<1>1. Before(r)
  BY BeforeHolds
<1>2. ASSUME NEW s \in Requests \ {r}, n.quest \in OnchainQuests PROVE ~Quests!Syncing(s)
  BY <1>1, <1>2 DEF Before, QuestsInv, OneSync, Quests!Syncing
<1>3. ASSUME NEW s \in Requests \ {r}, Quests!Quest(s) = q
      PROVE  /\ Quests!At(s, "open") => n.quest # q
             /\ Holding(s) => progress[q].rewarded /\ Held(serving[s].at, Pay[q])
                              /\ n.at \notin Keeping
             /\ q \in DelayQuests /\ ~progress[q].opened => Quests!At(s, "open")
  <2>1. Quests!At(s, "open") => n.quest # q
    BY <1>1, <1>3 DEF Before, QuestsInv, OpensAlone
  <2>2. Holding(s) => progress[q].rewarded /\ Held(serving[s].at, Pay[q])
    BY <1>3 DEF QuestsInv, HoldersOwe
  <2>3. Holding(s) => n.at \notin Keeping
    <3> SUFFICES ASSUME Holding(s), Holding(r) PROVE FALSE
      OBVIOUS
    <3>1. Quests!Quest(r) = q
      BY <1>1 DEF Before, Holding, Keeping, Quests!At, QuestsInv, InPlace
    <3> QED
      BY <1>3, <3>1 DEF QuestsInv, OneHolder
  <2>4. q \in DelayQuests /\ ~progress[q].opened => Quests!At(s, "open")
    BY <1>3 DEF QuestsInv, Unopened
  <2> QED
    BY <2>1, <2>2, <2>3, <2>4
<1> QED
  BY <1>2, <1>3 DEF OthersRight, Quests!Quest

\* Who else may be about a quest that a request is past opening.
LEMMA Company ==
  ASSUME SyncsTakeTurns, QuestsInv, NEW r \in Requests, ~Quests!At(r, "idle"),
     ~Quests!At(r, "open")
  PROVE  /\ Quests!Quest(r) \in Quests!Quests
         /\ Quests!Quest(r) \in DelayQuests => progress[Quests!Quest(r)].opened
         /\ \A s \in Requests \ {r} :
                /\ Quests!Quest(r) \in OnchainQuests => ~Quests!Syncing(s)
                /\ Quests!Quest(s) = Quests!Quest(r) => serving[s].at \notin {"save", "open"}
<1>1. Before(r)
  BY BeforeHolds
<1>2. Quests!Quest(r) \in Quests!Quests
      /\ (Quests!Quest(r) \in DelayQuests => progress[Quests!Quest(r)].opened)
  BY <1>1 DEF Before, QuestsInv, Unopened
<1>3. ASSUME NEW s \in Requests \ {r} PROVE Quests!Quest(r) \in OnchainQuests =>
      ~Quests!Syncing(s)
  BY DEF QuestsInv, OneSync, Quests!Syncing
<1>4. ASSUME NEW s \in Requests \ {r}, Quests!Quest(s) = Quests!Quest(r)
      PROVE  serving[s].at \notin {"save", "open"}
  BY <1>1, <1>2, <1>3, <1>4 DEF QuestsInv, InPlace, Before, Quests!Syncing, Quests!At
<1> QED
  BY <1>2, <1>3, <1>4

-----------------------------------------------------------------------------
\* The requests begin, and end early

LEMMA BeginKeeps ==
  ASSUME SyncsTakeTurns, QuestsInv, NEW r \in Requests,
         Quests!BeginSync(r) \/ Quests!BeginStart(r) \/ Quests!BeginVerify(r)
  PROVE  QuestsInv'
<1>1. Before(r) /\ Quests!NoRow \in Quests!Row
  BY BeforeHolds DEF Quests!NoRow, Quests!Row
<1>2. PICK q \in Quests!Quests, place \in {"existing", "open", "load"}, seen \in Quests!Row :
          /\ Quests!Begin(r, q, place, seen) /\ UNCHANGED <<swept, progress, awarded, thrown, trouble>>
          /\ place = "existing" => q \in OnchainQuests /\ \A s \in Requests : ~Quests!Syncing(s)
          /\ place = "open" => /\ q \in DelayQuests /\ ~progress[q].opened /\ seen = progress[q]
                               /\ \A s \in Requests : ~(Quests!Quest(s) = q /\ Quests!At(s, "open"))
          /\ place = "load" => q \in DelayQuests /\ progress[q].opened
  <2>1. CASE Quests!BeginSync(r)
    BY <1>1, <2>1 DEF Quests!BeginSync, Before, SyncsTakeTurns
  <2>2. CASE Quests!BeginStart(r)
    BY <1>1, <2>2 DEF Quests!BeginStart, Before
  <2>3. CASE Quests!BeginVerify(r)
    BY <1>1, <2>3 DEF Quests!BeginVerify, Before
  <2> QED
    BY <2>1, <2>2, <2>3
<1> DEFINE n == [at |-> place, quest |-> q, seen |-> seen, volume |-> swept]
<1>3. n \in Service /\ serving' = [serving EXCEPT ![r] = n] /\ trouble' \in 0 .. MaxTrouble
      /\ n.at = place /\ n.quest = q /\ n.seen = seen /\ n.volume = swept
  BY <1>1, <1>2 DEF Quests!Begin, Before, Service, Quests!Places
<1>4. Quests!Quest(r) = NoQuest
  BY <1>1, <1>2 DEF Quests!Begin, QuestsInv, InPlace
<1> HIDE DEF n
<1>5. RequestRight(q, n, progress[q], Pay[q])
  BY <1>1, <1>2, <1>3 DEF RequestRight, Before, Finishing, Keeping
<1>6. OthersRight(r, q, n, progress[q], Pay[q])
  <2>1. ASSUME NEW s \in Requests \ {r}, n.quest \in OnchainQuests PROVE ~Quests!Syncing(s)
    BY <1>1, <1>2, <1>3, <2>1 DEF Before
  <2>2. ASSUME NEW s \in Requests \ {r}, Quests!Quest(s) = q
        PROVE  /\ n.at # "open" /\ (Quests!At(s, "open") => n.quest # q)
               /\ Holding(s) => progress[q].rewarded /\ Held(serving[s].at, Pay[q])
               /\ q \in DelayQuests /\ ~progress[q].opened => Quests!At(s, "open")
    <3>1. q \in DelayQuests /\ place \in {"open", "load"}
      BY <1>1, <1>2, <2>2 DEF Before, Quests!Syncing
    <3>2. progress[q].opened
      BY <1>2, <2>2, <3>1 DEF QuestsInv, Unopened
    <3> QED
      BY <1>2, <1>3, <2>2, <3>1, <3>2 DEF QuestsInv, InPlace, HoldersOwe
  <2> QED
    BY <1>2, <1>3, <1>4, <2>1, <2>2 DEF OthersRight, Quests!Quest, Keeping
<1> QED
  BY <1>2, <1>3, <1>5, <1>6, QuietKeeps

\* A request ends without a write: Return of a read, and Abandon.
LEMMA ReturnKeeps ==
  ASSUME SyncsTakeTurns, QuestsInv, NEW r \in Requests, ~Quests!At(r, "idle"), Quests!Return(r),
         UNCHANGED <<swept, progress, awarded, thrown>>, trouble' \in 0 .. MaxTrouble
  PROVE  QuestsInv'
<1>1. Before(r)
  BY BeforeHolds
<1> DEFINE q == Quests!Quest(r)
<1>2. q \in Quests!Quests /\ Quests!Idle \in Service /\ Quests!Idle.quest = NoQuest
      /\ Quests!Idle.at = "idle"
      /\ Quests!Idle.volume = 0
  BY <1>1 DEF Before, Quests!Idle, Service, Quests!Places, Quests!NoRow, Quests!Row
<1>3. serving' = [serving EXCEPT ![r] = Quests!Idle]
  BY DEF Quests!Return
<1>4. RequestRight(q, Quests!Idle, progress[q], Pay[q])
  BY <1>1, <1>2 DEF RequestRight, Before, Keeping
<1>5. OthersRight(r, q, Quests!Idle, progress[q], Pay[q])
  BY <1>2, OthersUndisturbed DEF Keeping
<1> QED
  BY <1>2, <1>3, <1>4, <1>5, QuietKeeps

LEMMA AbandonKeeps ==
  ASSUME SyncsTakeTurns, QuestsInv, NEW r \in Requests, Quests!Abandon(r)
  PROVE  QuestsInv'
<1>1. trouble' \in 0 .. MaxTrouble
  BY BeforeHolds DEF Before, Quests!Abandon
<1> QED
  BY <1>1, ReturnKeeps DEF Quests!Abandon

\* A request moves on with what it read or knew.
LEMMA MoveKeeps ==
  ASSUME SyncsTakeTurns, QuestsInv, NEW r \in Requests, ~Quests!At(r, "idle"),
     ~Quests!At(r, "open"),
         NEW place \in {"save", "mend", "claim", "release"}, NEW seen \in Quests!Row,
         serving' = [serving EXCEPT ![r].at = place, ![r].seen = seen],
         UNCHANGED <<swept, progress, awarded, thrown>>, trouble' \in 0 .. MaxTrouble,
         place = "save" => Quests!Syncing(r) /\ seen = progress[Quests!Quest(r)],
         place = "mend" => seen = progress[Quests!Quest(r)] /\ seen.rewarded,
         place = "release" => Quests!At(r, "award"),
         place # "save" => serving[r].at \in Finishing
  PROVE  QuestsInv'
<1>1. Before(r)
  BY BeforeHolds
<1> DEFINE q == Quests!Quest(r)
           n == [serving[r] EXCEPT !.at = place, !.seen = seen]
<1>2. /\ n \in Service /\ serving' = [serving EXCEPT ![r] = n]
      /\ n.at = place /\ n.seen = seen /\ n.quest = q /\ n.volume = serving[r].volume
  BY <1>1 DEF Before, Service, Quests!Places, Quests!Quest
<1>3. q \in Quests!Quests /\ (q \in DelayQuests => progress[q].opened)
  BY Company
<1> HIDE DEF n
<1>4. /\ Quests!Quest(r) = q /\ n.at # "open" /\ n.at # "idle" /\ q # NoQuest
      /\ n.at \in Keeping => Holding(r) /\ n.at = "release" /\ Quests!At(r, "award")
  BY <1>1, <1>2, <1>3 DEF Before, Holding, Keeping, Quests!At
<1>5. n.at \in Keeping => progress[q].rewarded /\ Held(n.at, Pay[q])
  BY <1>4 DEF QuestsInv, HoldersOwe, Held, Quests!At
<1>6. n.volume <= swept
  BY <1>2 DEF QuestsInv, WorkDone
<1>7. n.quest \in OnchainQuests /\ n.at \in Finishing => swept >= Target
  BY <1>2, <1>4 DEF QuestsInv, WorkDone, Quests!Syncing, Finishing
<1>8. n.at \in {"existing", "save"} => q \in OnchainQuests
  BY <1>2 DEF Quests!Syncing
<1> HIDE DEF q
<1>9. RequestRight(q, n, progress[q], Pay[q])
  BY <1>2, <1>3, <1>4, <1>5, <1>6, <1>7, <1>8 DEF RequestRight
<1>10. OthersRight(r, q, n, progress[q], Pay[q])
  BY <1>2, <1>3, <1>4, OthersUndisturbed
<1> QED
  BY <1>2, <1>3, <1>9, <1>10, QuietKeeps

LEMMA QuestReadingKeeps ==
  ASSUME SyncsTakeTurns, QuestsInv, NEW r \in Requests,
         Quests!ReadExisting(r) \/ Quests!LoadProgress(r) \/ Quests!AwardFails(r)
           \/ Quests!CommissionDone(r)
  PROVE  QuestsInv'
<1>1. Before(r) /\ progress[Quests!Quest(r)] \in Quests!Row
  BY BeforeHolds DEF Before, Quests!ReadExisting, Quests!LoadProgress, Quests!AwardFails,
     Quests!CommissionDone, Quests!At
<1>2. CASE Quests!ReadExisting(r)
  BY <1>1, <1>2, MoveKeeps DEF Quests!ReadExisting, Quests!Remember, Quests!At, QuestsInv,
     InPlace, Before
<1>3. CASE Quests!LoadProgress(r)
  <2>1. Quests!At(r, "load") /\ UNCHANGED <<swept, progress, awarded, thrown, trouble>>
    BY <1>3 DEF Quests!LoadProgress
  <2>2. CASE Quests!Remember(r, "claim")
    BY <1>1, <2>1, <2>2, MoveKeeps DEF Quests!Remember, Quests!At, Before, Finishing
  <2>3. CASE progress[Quests!Quest(r)].rewarded /\ Quests!Remember(r, "mend")
    BY <1>1, <2>1, <2>3, MoveKeeps DEF Quests!Remember, Quests!At, Before, Finishing
  <2>4. CASE Quests!Return(r)
    BY <1>1, <2>1, <2>4, ReturnKeeps DEF Quests!At, Before
  <2> QED
    BY <1>3, <2>2, <2>3, <2>4 DEF Quests!LoadProgress
<1>4. CASE Quests!AwardFails(r)
  <2>1. Quests!At(r, "award") /\ UNCHANGED <<swept, progress, awarded, thrown>>
        /\ trouble' \in 0 .. MaxTrouble
    BY <1>1, <1>4 DEF Quests!AwardFails, Before
  <2>2. serving' = [serving EXCEPT ![r].at = "release", ![r].seen = Quests!Seen(r)]
    BY <1>1, <1>4 DEF Quests!AwardFails, Quests!Goto, Before, Service, Quests!Seen
  <2>3. Quests!Seen(r) \in Quests!Row
    BY <1>1 DEF Before, Service, Quests!Seen
  <2> QED
    BY <2>1, <2>2, <2>3, MoveKeeps DEF Quests!At, Finishing, Keeping
<1>5. CASE Quests!CommissionDone(r)
  BY <1>1, <1>5, ReturnKeeps DEF Quests!CommissionDone, Quests!At, Before
<1> QED
  BY <1>2, <1>3, <1>4, <1>5

-----------------------------------------------------------------------------
\* The requests write

\* A request that is past opening writes the row or awards, and ends or goes on.
LEMMA WriteKeeps ==
  ASSUME SyncsTakeTurns, QuestsInv, NEW r \in Requests, ~Quests!At(r, "idle"),
     ~Quests!At(r, "open"),
         NEW q \in Quests!Quests, q = Quests!Quest(r), NEW n \in Service, NEW w \in Quests!Row,
         NEW a \in Tally,
         Step(r, q, n, w, a), RowRight(q, w, a), RequestRight(q, n, w, a),
         n.quest \in {q, NoQuest}, n.at # "open", q \in DelayQuests => w.opened,
         \A s \in Requests \ {r} : Quests!Quest(s) = q /\ Holding(s) =>
             w.rewarded /\ Held(serving[s].at, a) /\ n.at \notin Keeping
  PROVE  QuestsInv'
<1>1. ASSUME NEW s \in Requests \ {r}
      PROVE  /\ q \in OnchainQuests => ~Quests!Syncing(s)
             /\ Quests!Quest(s) = q => serving[s].at \notin {"save", "open"}
  BY Company
<1>2. NoQuest \notin OnchainQuests
  BY DEF SyncsTakeTurns, Quests!QuestsAssumption, Quests!Quests
<1>3. OthersRight(r, q, n, w, a)
  BY <1>1, <1>2 DEF OthersRight, Quests!At, Quests!Quest
<1> QED
  BY <1>3, StepKeeps

LEMMA IdleRight ==
  ASSUME SyncsTakeTurns, QuestsInv, NEW q \in Quests!Quests, NEW w, NEW a
  PROVE  Quests!Idle \in Service /\ RequestRight(q, Quests!Idle, w, a)
     /\ Quests!Idle.quest = NoQuest
         /\ Quests!Idle.at = "idle"
<1>1. Quests!Idle \in Service /\ Quests!Idle.quest = NoQuest /\ Quests!Idle.at = "idle"
      /\ Quests!Idle.volume = 0
  BY DEF Quests!Idle, Service, Quests!Places, Quests!NoRow, Quests!Row
<1>2. 0 <= swept /\ NoQuest \notin OnchainQuests /\ q # NoQuest
  BY DEF SyncsTakeTurns, Quests!QuestsAssumption, QuestsInv, Quests!QuestsTypeOK, Quests!Quests
<1> QED
  BY <1>1, <1>2 DEF RequestRight, Keeping

LEMMA SaveKeeps ==
  ASSUME SyncsTakeTurns, QuestsInv, NEW r \in Requests, Quests!SaveProgress(r)
  PROVE  QuestsInv'
<1> DEFINE q == Quests!Quest(r)
           done == serving[r].volume >= Target
           w == [progress[q] EXCEPT !.completed = done, !.exists = TRUE]
<1>1. Before(r) /\ q \in OnchainQuests /\ Quests!At(r, "save") /\ Quests!Seen(r) = progress[q]
      /\ RowRight(q, progress[q], Pay[q])
  BY BeforeHolds DEF Quests!SaveProgress, Quests!At, QuestsInv, InPlace, Quests!Syncing,
     ReadNow, Before
<1>2. w \in Quests!Row /\ w.rewarded = progress[q].rewarded /\ w.opened = progress[q].opened
  <2>1. done \in BOOLEAN
    OBVIOUS
  <2>2. progress[q] \in Quests!Row
    BY <1>1 DEF Before
  <2> HIDE DEF done
  <2> QED
    BY <2>1, <2>2 DEF Quests!Row
<1>3. progress' = [progress EXCEPT ![q] = w]
  BY <1>1 DEF Quests!SaveProgress, Quests!Saved, Before, Quests!Row
<1>4. Pay' = [Pay EXCEPT ![q] = Pay[q]] /\ PayTyped' /\ swept' = swept
      /\ trouble' \in 0 .. MaxTrouble
      /\ Pay[q] \in Tally /\ q \in Quests!Quests
  BY <1>1, PayStays DEF Quests!SaveProgress, Before
<1>5. RowRight(q, w, Pay[q])
  BY <1>1, <1>2 DEF RowRight
<1>6. \A s \in Requests \ {r} : Quests!Quest(s) # q
  BY <1>1, Company DEF Quests!At, Quests!Syncing
<1> HIDE DEF w
<1>7. CASE done /\ Quests!Goto(r, "load")
  <2> DEFINE n == [serving[r] EXCEPT !.at = "load"]
  <2>1. n \in Service /\ serving' = [serving EXCEPT ![r] = n] /\ n.at = "load" /\ n.quest = q
        /\ n.volume = serving[r].volume
    BY <1>1, <1>7 DEF Quests!Goto, Before, Service, Quests!Places, Quests!Quest
  <2>2. n.volume <= swept /\ swept >= Target
    <3>1. serving[r].volume \in Nat /\ swept \in Nat /\ Target \in Nat
      BY <1>1 DEF Before, Service
    <3> QED
      BY <1>7, <2>1, <3>1 DEF QuestsInv, WorkDone
  <2> HIDE DEF n
  <2>3. RequestRight(q, n, w, Pay[q])
    BY <1>1, <2>1, <2>2 DEF RequestRight, Before, Keeping
  <2>4. Step(r, q, n, w, Pay[q])
    BY <1>3, <1>4, <2>1 DEF Step
  <2> QED
    BY <1>1, <1>2, <1>4, <1>5, <1>6, <2>1, <2>3, <2>4, WriteKeeps DEF Quests!At, Before, Keeping
<1>8. CASE Quests!Return(r)
  <2>1. Step(r, q, Quests!Idle, w, Pay[q])
    BY <1>3, <1>4, <1>8 DEF Step, Quests!Return
  <2> QED
    BY <1>1, <1>2, <1>4, <1>5, <1>6, <2>1, IdleRight, WriteKeeps DEF Quests!At, Before, Keeping
<1> QED
  BY <1>7, <1>8 DEF Quests!SaveProgress

LEMMA MendKeeps ==
  ASSUME SyncsTakeTurns, QuestsInv, NEW r \in Requests, Quests!WriteBack(r),
     Quests!At(r, "mend")
  PROVE  QuestsInv'
<1> DEFINE q == Quests!Quest(r)
           w == [Quests!Seen(r) EXCEPT !.completed = TRUE, !.exists = TRUE]
<1>1. Before(r) /\ q \in Quests!Quests /\ Quests!Seen(r) \in Quests!Row
      /\ Quests!Seen(r).rewarded
      /\ (q \in DelayQuests => Quests!Seen(r).opened)
      /\ RowRight(q, progress[q], Pay[q])
  BY BeforeHolds DEF Quests!At, QuestsInv, Mending, Before, Service, Quests!Seen
<1>2. w \in Quests!Row /\ w.rewarded /\ (q \in DelayQuests => w.opened)
  BY <1>1 DEF Quests!Row
<1>3. progress' = [progress EXCEPT ![q] = w]
  BY <1>1 DEF Quests!WriteBack, Quests!Saved, Before, Quests!Row, Quests!At
<1>4. Pay' = [Pay EXCEPT ![q] = Pay[q]] /\ PayTyped' /\ swept' = swept
      /\ trouble' \in 0 .. MaxTrouble
      /\ Pay[q] \in Tally /\ serving' = [serving EXCEPT ![r] = Quests!Idle]
  BY <1>1, PayStays DEF Quests!WriteBack, Before, Quests!Return
<1> HIDE DEF w
<1>5. RowRight(q, w, Pay[q])
  BY <1>1, <1>2 DEF RowRight
<1>6. Step(r, q, Quests!Idle, w, Pay[q])
  BY <1>3, <1>4 DEF Step
<1>7. \A s \in Requests \ {r} : Quests!Quest(s) = q /\ Holding(s) => Held(serving[s].at, Pay[q])
  BY DEF QuestsInv, HoldersOwe
<1> QED
  BY <1>1, <1>2, <1>4, <1>5, <1>6, <1>7, IdleRight, WriteKeeps DEF Quests!At, Keeping

LEMMA OpenKeeps ==
  ASSUME SyncsTakeTurns, QuestsInv, NEW r \in Requests, Quests!WriteBack(r),
     Quests!At(r, "open")
  PROVE  QuestsInv'
<1> DEFINE q == Quests!Quest(r)
           w == [progress[q] EXCEPT !.opened = TRUE, !.exists = TRUE]
<1>1. Before(r) /\ q \in Quests!Quests /\ Quests!Seen(r) = progress[q] /\ q \in DelayQuests
      /\ ~progress[q].opened
  BY BeforeHolds DEF Quests!At, QuestsInv, InPlace, ReadNow, Before
<1>2. w \in Quests!Row /\ w.rewarded = progress[q].rewarded /\ w.opened
  BY <1>1 DEF Before, Quests!Row
<1>3. progress' = [progress EXCEPT ![q] = w]
  BY <1>1 DEF Quests!WriteBack, Quests!Saved, Before, Quests!Row
<1>4. Pay' = [Pay EXCEPT ![q] = Pay[q]] /\ PayTyped' /\ swept' = swept
      /\ trouble' \in 0 .. MaxTrouble
      /\ Pay[q] \in Tally /\ serving' = [serving EXCEPT ![r] = Quests!Idle]
  BY <1>1, PayStays DEF Quests!WriteBack, Before, Quests!Return
<1> HIDE DEF w
<1>5. RowRight(q, w, Pay[q])
  BY <1>1, <1>2, BeforeHolds DEF RowRight, Before
<1>6. Step(r, q, Quests!Idle, w, Pay[q])
  BY <1>3, <1>4 DEF Step
<1>7. \A s \in Requests \ {r} : Quests!Quest(s) # q
  BY DEF QuestsInv, OpensAlone
<1>8. OthersRight(r, q, Quests!Idle, w, Pay[q])
  BY <1>1, <1>7, IdleRight DEF OthersRight, Quests!Quest, Before
<1> QED
  BY <1>1, <1>2, <1>4, <1>5, <1>6, <1>8, IdleRight, StepKeeps

LEMMA ClaimKeeps ==
  ASSUME SyncsTakeTurns, QuestsInv, NEW r \in Requests, Quests!ClaimReward(r)
  PROVE  QuestsInv'
<1> DEFINE q == Quests!Quest(r)
           w == [progress[q] EXCEPT !.completed = TRUE, !.rewarded = TRUE]
           n == [serving[r] EXCEPT !.at = "award"]
<1>1. Before(r) /\ Quests!At(r, "claim") /\ ~Quests!At(r, "idle") /\ ~Quests!At(r, "open")
      /\ UNCHANGED <<swept, awarded, thrown, trouble>>
  BY BeforeHolds DEF Quests!ClaimReward, Quests!At
<1>2. q \in Quests!Quests /\ (q \in DelayQuests => progress[q].opened)
      /\ RowRight(q, progress[q], Pay[q])
  BY <1>1, Company, BeforeHolds
<1>3. CASE progress' = progress /\ Quests!Return(r)
  BY <1>1, <1>3, ReturnKeeps DEF Before
<1>4. CASE ~progress[q].rewarded /\ Quests!Goto(r, "award")
  <2>1. w \in Quests!Row /\ w.rewarded /\ (q \in DelayQuests => w.opened)
    BY <1>1, <1>2 DEF Before, Quests!Row
  <2>2. progress' = [progress EXCEPT ![q] = w]
    BY <1>1, <1>2, <1>4 DEF Quests!ClaimReward, Before, Quests!Row
  <2>3. n \in Service /\ serving' = [serving EXCEPT ![r] = n] /\ n.at = "award" /\ n.quest = q
        /\ n.volume = serving[r].volume
    BY <1>1, <1>4 DEF Quests!Goto, Before, Service, Quests!Places, Quests!Quest
  <2>4. Owed(Pay[q]) /\ Pay' = [Pay EXCEPT ![q] = Pay[q]] /\ PayTyped' /\ Pay[q] \in Tally
        /\ trouble' \in 0 .. MaxTrouble
    BY <1>1, <1>2, <1>4, PayStays DEF RowRight, Before
  <2>5. n.volume <= swept /\ (q \in OnchainQuests => swept >= Target)
    BY <1>1, <2>3 DEF QuestsInv, WorkDone, Quests!Syncing, Quests!At, Finishing
  <2> HIDE DEF n, w
  <2>6. RowRight(q, w, Pay[q])
    BY <1>2, <2>1, <2>4 DEF RowRight
  <2>7. Step(r, q, n, w, Pay[q])
    BY <1>1, <2>2, <2>3, <2>4 DEF Step
  <2>8. RequestRight(q, n, w, Pay[q])
    BY <1>1, <1>2, <2>1, <2>3, <2>4, <2>5 DEF RequestRight, Before, Held, Keeping
  <2>9. \A s \in Requests \ {r} : ~(Quests!Quest(s) = q /\ Holding(s))
    BY <1>4 DEF QuestsInv, HoldersOwe
  <2> QED
    BY <1>1, <1>2, <2>1, <2>3, <2>4, <2>6, <2>7, <2>8, <2>9, WriteKeeps
<1> QED
  BY <1>3, <1>4 DEF Quests!ClaimReward

\* The reward is given, throws afterwards, or the claim is released.
LEMMA SettleKeeps ==
  ASSUME SyncsTakeTurns, QuestsInv, NEW r \in Requests,
         Quests!Award(r) \/ Quests!CommissionFails(r) \/ Quests!ReleaseClaim(r)
  PROVE  QuestsInv'
<1> DEFINE q == Quests!Quest(r)
           released == [progress[q] EXCEPT !.rewarded = FALSE]
           to(place) == [serving[r] EXCEPT !.at = place]
           more == [given |-> awarded[q] + 1, thrown |-> thrown[q] + 0]
           threw == [given |-> awarded[q] + 0, thrown |-> thrown[q] + 1]
<1>1. Before(r) /\ Holding(r) /\ ~Quests!At(r, "idle") /\ ~Quests!At(r, "open")
      /\ swept' = swept /\ trouble' \in 0 .. MaxTrouble
  BY BeforeHolds DEF Quests!Award, Quests!CommissionFails, Quests!ReleaseClaim, Quests!At,
     Holding, Keeping, Before
<1>2. q \in Quests!Quests /\ (q \in DelayQuests => progress[q].opened)
      /\ progress[q] \in Quests!Row /\ progress[q].rewarded /\ Held(serving[r].at, Pay[q])
      /\ RowRight(q, progress[q], Pay[q])
  BY <1>1, Company, BeforeHolds DEF QuestsInv, HoldersOwe, Before
<1>3. \A s \in Requests \ {r} : ~(Quests!Quest(s) = q /\ Holding(s))
  BY <1>1 DEF QuestsInv, OneHolder
<1>4. q \in OnchainQuests => swept >= Target
  BY <1>1 DEF QuestsInv, WorkDone, Quests!Syncing, Holding, Keeping, Finishing
<1>5. /\ Pay[q] \in Tally /\ Pay[q].given = awarded[q] /\ Pay[q].thrown = thrown[q]
      /\ awarded[q] \in Nat /\ thrown[q] \in Nat
  BY <1>1, <1>2 DEF Pay, Before, PayTyped
<1>6. more \in Tally /\ threw \in Tally
  BY <1>5 DEF Tally
<1>7. ASSUME NEW place \in {"commission", "release"}
      PROVE  /\ to(place) \in Service /\ to(place).at = place /\ to(place).quest = q
             /\ to(place).volume = serving[r].volume /\ to(place).volume <= swept
  BY <1>1 DEF Before, Service, Quests!Places, Quests!Quest, QuestsInv, WorkDone
<1>8. CASE Quests!Award(r)
  <2>1. Standing(more)
    BY <1>2, <1>5, <1>8 DEF Held, Quests!Award, Quests!At, Owed, Standing
  <2>2. RowRight(q, progress[q], more)
    BY <1>2, <1>4, <2>1 DEF RowRight
  <2>3. Pay' = [Pay EXCEPT ![q] = more] /\ PayTyped'
    BY <1>1, <1>2, <1>8, PayGrows DEF Quests!Award, Before
  <2>4. serving' = [serving EXCEPT ![r] = to("commission")]
        /\ progress' = [progress EXCEPT ![q] = progress[q]]
    BY <1>1, <1>2, <1>8 DEF Quests!Award, Quests!Goto, Before, Service
  <2> HIDE DEF more, to
  <2>5. Step(r, q, to("commission"), progress[q], more)
    BY <1>1, <2>3, <2>4 DEF Step
  <2>6. RequestRight(q, to("commission"), progress[q], more)
    BY <1>1, <1>2, <1>4, <1>7, <2>1 DEF RequestRight, Before, Held
  <2> QED
    BY <1>1, <1>2, <1>3, <1>6, <1>7, <2>2, <2>5, <2>6, WriteKeeps
<1>9. CASE Quests!CommissionFails(r)
  <2>1. Owed(threw)
    BY <1>2, <1>5, <1>9 DEF Held, Quests!CommissionFails, Quests!At, Owed, Standing
  <2>2. RowRight(q, progress[q], threw)
    BY <1>2, <1>4, <2>1 DEF RowRight
  <2>3. Pay' = [Pay EXCEPT ![q] = threw] /\ PayTyped'
    BY <1>1, <1>2, <1>9, PayGrows DEF Quests!CommissionFails, Before
  <2>4. serving' = [serving EXCEPT ![r] = to("release")]
        /\ progress' = [progress EXCEPT ![q] = progress[q]]
    BY <1>1, <1>2, <1>9 DEF Quests!CommissionFails, Quests!Goto, Before, Service
  <2> HIDE DEF threw, to
  <2>5. Step(r, q, to("release"), progress[q], threw)
    BY <1>1, <2>3, <2>4 DEF Step
  <2>6. RequestRight(q, to("release"), progress[q], threw)
    BY <1>1, <1>2, <1>4, <1>7, <2>1 DEF RequestRight, Before, Held
  <2> QED
    BY <1>1, <1>2, <1>3, <1>6, <1>7, <2>2, <2>5, <2>6, WriteKeeps
<1>10. CASE Quests!ReleaseClaim(r)
  <2>1. released \in Quests!Row /\ ~released.rewarded /\ released.opened = progress[q].opened
        /\ Owed(Pay[q])
    BY <1>2, <1>10 DEF Quests!Row, Held, Quests!ReleaseClaim, Quests!At
  <2>2. progress' = [progress EXCEPT ![q] = released]
        /\ Pay' = [Pay EXCEPT ![q] = Pay[q]] /\ PayTyped'
        /\ serving' = [serving EXCEPT ![r] = Quests!Idle]
    BY <1>1, <1>2, <1>10, PayStays DEF Quests!ReleaseClaim, Before, Quests!Row, Quests!Return
  <2> HIDE DEF released
  <2>3. RowRight(q, released, Pay[q]) /\ Step(r, q, Quests!Idle, released, Pay[q])
    BY <1>1, <1>2, <2>1, <2>2 DEF RowRight, Step, Before
  <2> QED
    BY <1>1, <1>2, <1>3, <1>5, <2>1, <2>3, IdleRight, WriteKeeps DEF Keeping
<1> QED
  BY <1>8, <1>9, <1>10

-----------------------------------------------------------------------------
\* The theorems

LEMMA QuestStepsKeep ==
  ASSUME SyncsTakeTurns
  PROVE  QuestsInv /\ [Quests!QuestsNext]_questState => QuestsInv'
<1> SUFFICES ASSUME QuestsInv, [Quests!QuestsNext]_questState PROVE QuestsInv'
  OBVIOUS
<1>1. CASE Quests!RecordSweep
  BY <1>1, SweepKeeps
<1>2. ASSUME NEW r \in Requests, Quests!QuestStep(r) PROVE QuestsInv'
  <2>1. Quests!WriteBack(r) => Quests!At(r, "open") \/ Quests!At(r, "mend")
    BY DEF Quests!WriteBack
  <2> QED
    BY <1>2, <2>1, BeginKeeps, AbandonKeeps, QuestReadingKeeps, SaveKeeps, MendKeeps, OpenKeeps,
       ClaimKeeps, SettleKeeps DEF Quests!QuestStep
<1>3. CASE UNCHANGED questState
  <2>1. Pay' = Pay /\ UNCHANGED <<swept, progress, awarded, thrown, serving, trouble>>
    BY <1>3 DEF questState, Pay
  <2> QED
    BY <2>1 DEF QuestsInv, Quests!QuestsTypeOK, InPlace, OneSync, OneHolder, OpensAlone, ReadNow,
       Mending, HoldersOwe, AwardsMarked, Unopened, WorkDone, Quests!At, Quests!Quest,
       Quests!Seen, Quests!Syncing, Holding
<1> QED
  BY <1>1, <1>2, <1>3 DEF Quests!QuestsNext

LEMMA QuestsGoOn == [AccountsNext]_accountsVars => [Quests!QuestsNext]_questState
  BY DEF AccountsNext, PointsRun, ReferralsRun, LinksRun, QuestsRun, PayoutsRun, CampaignRun,
     accountsVars, questState

LEMMA QuestsInvAlways ==
  ASSUME SyncsTakeTurns
  PROVE  AccountsSpec => []QuestsInv
<1>1. AccountsInit => QuestsInv
  BY QuestsStartRight DEF AccountsInit
<1>2. QuestsInv /\ [AccountsNext]_accountsVars => QuestsInv'
  BY QuestsGoOn, QuestStepsKeep
<1> QED
  BY <1>1, <1>2, PTL DEF AccountsSpec

LEMMA QuestsInOrder ==
  ASSUME SyncsTakeTurns
  PROVE  QuestsInv => Quests!RewardedAgainAfterThrow /\ Quests!RewardedForWork
<1> SUFFICES ASSUME QuestsInv PROVE Quests!RewardedAgainAfterThrow /\ Quests!RewardedForWork
  OBVIOUS
<1>1. /\ PayTyped /\ AwardsMarked /\ WorkDone /\ Unopened
      /\ \A q \in Quests!Quests : Pay[q].given = awarded[q] /\ Pay[q].thrown = thrown[q]
  BY DEF QuestsInv, Quests!QuestsTypeOK, PayTyped, Pay
<1>2. Quests!RewardedAgainAfterThrow
  BY <1>1 DEF Quests!RewardedAgainAfterThrow, AwardsMarked, Owed, Standing, PayTyped
<1>3. Quests!RewardedForWork
  BY <1>1 DEF Quests!RewardedForWork, WorkDone, Unopened, PayTyped, Quests!Quests
<1> QED
  BY <1>2, <1>3

\* completeQuest, questEngine.ts, for wallets whose syncs take turns: the points of a quest
\* are granted once, whatever overlaps, dies or fails before they are given, and once more
\* for each time that the commission threw after they were given.
THEOREM QuestsRewardOnce ==
  ASSUME SyncsTakeTurns
  PROVE  AccountsSpec => []Quests!RewardedAgainAfterThrow
<1>1. QuestsInv => Quests!RewardedAgainAfterThrow
  BY QuestsInOrder
<1> QED
  BY <1>1, QuestsInvAlways, PTL

\* No reward is for a quest that was not opened or not done.
THEOREM QuestsRewardWork ==
  ASSUME SyncsTakeTurns
  PROVE  AccountsSpec => []Quests!RewardedForWork
<1>1. QuestsInv => Quests!RewardedForWork
  BY QuestsInOrder
<1> QED
  BY <1>1, QuestsInvAlways, PTL

-----------------------------------------------------------------------------
(***************************************************************************)
(* SweepCampaign for any users, sweeps, tiers and requests.                *)
(*                                                                         *)
(* The standings do not change after they are frozen, unless a late credit *)
(* is verified, so that every pass works on the same board (JobRight), and *)
(* what it has given a winner it has given for that place (PrizeRight).    *)
(* Only the pass that adds a winner's row goes on to give points, so that  *)
(* two passes that find no event never mean the same winner (GivenOnce).   *)
(***************************************************************************)

LEMMA SameTotal == ASSUME NEW f PROVE Campaign!Total(f) = Total(f)
  BY DEF Campaign!Total, Total, Campaign!Units, Units, Campaign!Cardinality, Cardinality

-----------------------------------------------------------------------------
\* There is a board: what is ordered strictly and finite can be listed in order.

LEMMA ListInOrder ==
  ASSUME NEW S, IsFiniteSet(S), NEW R,
         \A u \in S : <<u, u>> \notin R,
         \A u, v, w \in S : <<u, v>> \in R /\ <<v, w>> \in R => <<u, w>> \in R,
         \A u, v \in S : u # v => <<u, v>> \in R \/ <<v, u>> \in R
  PROVE  \E b \in [1 .. Cardinality(S) -> S] :
             \A i, j \in 1 .. Cardinality(S) :
                 /\ i # j => b[i] # b[j]
                 /\ i < j => <<b[i], b[j]>> \in R
<1> DEFINE n == Cardinality(S)
           first(u) == {w \in S : <<w, u>> \in R}
           place == [u \in S |-> Cardinality(first(u)) + 1]
<1>1. n \in Nat
  BY FS_CardinalityType
<1>2. \A u \in S : IsFiniteSet(first(u)) /\ Cardinality(first(u)) \in Nat
  BY FS_Subset, FS_CardinalityType
<1>3. ASSUME NEW u \in S PROVE Cardinality(first(u)) < n
  <2>1. first(u) \in SUBSET S /\ first(u) # S
    OBVIOUS
  <2>2. Cardinality(first(u)) \in Nat
    BY <1>2
  <2> HIDE DEF first
  <2>3. Cardinality(first(u)) <= Cardinality(S) /\ Cardinality(first(u)) # Cardinality(S)
    BY <2>1, FS_Subset
  <2> QED
    BY <1>1, <2>2, <2>3
<1>4. ASSUME NEW u \in S, NEW v \in S, <<u, v>> \in R
      PROVE  Cardinality(first(u)) < Cardinality(first(v))
  <2>1. first(u) \in SUBSET first(v) /\ first(u) # first(v)
    BY <1>4
  <2>2. /\ IsFiniteSet(first(v))
        /\ Cardinality(first(u)) \in Nat /\ Cardinality(first(v)) \in Nat
    BY <1>2
  <2> HIDE DEF first
  <2>3. /\ Cardinality(first(u)) <= Cardinality(first(v))
        /\ Cardinality(first(u)) # Cardinality(first(v))
    BY <2>1, <2>2, FS_Subset
  <2> QED
    BY <2>2, <2>3
<1> HIDE DEF first, n
<1>5. place \in [S -> 1 .. n]
  BY <1>1, <1>2, <1>3
<1>6. \A u, v \in S : <<u, v>> \in R => place[u] < place[v]
  BY <1>2, <1>4
<1> HIDE DEF place
<1>7. \A u, v \in S : place[u] = place[v] => u = v
  <2> SUFFICES ASSUME NEW u \in S, NEW v \in S, place[u] = place[v], u # v PROVE FALSE
    OBVIOUS
  <2>1. place[u] < place[v] \/ place[v] < place[u]
    BY <1>6
  <2>2. place[u] \in Int /\ place[v] \in Int
    BY <1>1, <1>5
  <2> QED
    BY <2>1, <2>2
<1>8. place \in Injection(S, 1 .. n)
  BY <1>5, <1>7 DEF Injection, IsInjective
<1>9. place \in Surjection(S, 1 .. n)
  <2>1. IsFiniteSet(1 .. n) /\ Cardinality(1 .. n) = n
    BY <1>1, FS_Interval
  <2> QED
    BY <1>8, <2>1, FS_Injection DEF n
<1> DEFINE b == [i \in 1 .. n |-> CHOOSE u \in S : place[u] = i]
<1>10. \A i \in 1 .. n : b[i] \in S /\ place[b[i]] = i
  BY <1>9 DEF Surjection
<1>11. b \in [1 .. n -> S]
  BY <1>10
<1> HIDE DEF b
<1>12. ASSUME NEW i \in 1 .. n, NEW j \in 1 .. n
       PROVE  (i # j => b[i] # b[j]) /\ (i < j => <<b[i], b[j]>> \in R)
  <2>1. i # j => b[i] # b[j]
    BY <1>10
  <2>2. ASSUME i < j PROVE <<b[i], b[j]>> \in R
    <3>1. <<b[j], b[i]>> \notin R
      BY <1>6, <1>10, <2>2
    <3> QED
      BY <1>10, <2>1, <2>2, <3>1
  <2> QED
    BY <2>1, <2>2
<1> QED
  BY <1>11, <1>12 DEF n

LEMMA SmallestIn ==
  ASSUME NEW T \in SUBSET Nat, T # {}
  PROVE  Campaign!Min(T) \in T
<1>1. PICK x \in T : \A y \in T : ~(<<y, x>> \in OpToRel(<, Nat))
  BY NatLessThanWellFounded, WFMin
<1>2. \A y \in T : x =< y
  <2> SUFFICES ASSUME NEW y \in T PROVE x =< y
    OBVIOUS
  <2>1. ~(y < x)
    BY <1>1 DEF OpToRel
  <2> QED
    BY <2>1
<1> QED
  BY <1>2 DEF Campaign!Min

-----------------------------------------------------------------------------
\* The board

\* Every credit is an execution of its own.
CreditsOnce ==
    \A i \in DOMAIN verified :
        /\ Sweep[verified[i]] \in Campaign!Execution
        /\ \A j \in DOMAIN verified : Sweep[verified[i]] = Sweep[verified[j]] => i = j

LEMMA VolumeType ==
  ASSUME verified \in Seq(Hashes), CreditsOnce, NEW u
  PROVE  /\ Campaign!CreditsOf(u) \in SUBSET Nat /\ IsFiniteSet(Campaign!CreditsOf(u))
         /\ Campaign!Volume(u) \in Nat
<1> DEFINE own == Campaign!CreditsOf(u)
           f == [i \in own |-> Sweep[verified[i]].worth]
<1>1. own \in SUBSET (1 .. Len(verified)) /\ Len(verified) \in Nat
  BY DEF Campaign!CreditsOf
<1>2. IsFiniteSet(own)
  <2>1. IsFiniteSet(1 .. Len(verified))
    BY <1>1, FS_Interval
  <2> HIDE DEF own
  <2> QED
    BY <1>1, <2>1, FS_Subset
<1>3. \A i \in own : Sweep[verified[i]].worth \in Nat
  BY DEF CreditsOnce, Campaign!CreditsOf, Campaign!Execution
<1> HIDE DEF own
<1>4. f \in [own -> Nat]
  BY <1>3
<1>5. Campaign!Volume(u) = Total(f)
  BY SameTotal DEF Campaign!Volume, own
<1> HIDE DEF f
<1>6. Total(f) \in Nat
  BY <1>2, <1>4, TotalType
<1> QED
  BY <1>1, <1>2, <1>5, <1>6 DEF own

LEMMA RankedFinite ==
  ASSUME verified \in Seq(Hashes)
  PROVE  IsFiniteSet(Campaign!Ranked)
<1> DEFINE named == {i \in 1 .. Len(verified) : Sweep[verified[i]].user \in Campaign!Ranked}
           f == [i \in named |-> Sweep[verified[i]].user]
<1>1. IsFiniteSet(named)
  BY FS_Interval, FS_Subset
<1>2. \A u \in Campaign!Ranked : \E i \in named : f[i] = u
  BY DEF Campaign!Ranked, Campaign!CreditsOf
<1>3. f \in Surjection(named, Campaign!Ranked)
  BY <1>2 DEF Surjection
<1> HIDE DEF named, f
<1> QED
  BY <1>1, <1>3, FS_Surjection

LEMMA BoardLists ==
  ASSUME verified \in Seq(Hashes), CreditsOnce
  PROVE  /\ Campaign!Board \in Seq(Users)
         /\ \A i, j \in DOMAIN Campaign!Board :
                i < j => Campaign!Ahead(Campaign!Board[i], Campaign!Board[j])
<1> DEFINE S == Campaign!Ranked
           volume(u) == Campaign!Volume(u)
           first(u) == Campaign!Min(Campaign!CreditsOf(u))
           R == {p \in S \X S : Campaign!Ahead(p[1], p[2])}
<1>1. \A u \in S : volume(u) \in Nat /\ first(u) \in Campaign!CreditsOf(u) /\ first(u) \in Nat
  BY VolumeType, SmallestIn DEF Campaign!Ranked
<1>2. \A u, v \in S : first(u) = first(v) => u = v
  BY <1>1 DEF Campaign!CreditsOf
<1>3. \A u, v : Campaign!Ahead(u, v) <=> volume(u) > volume(v)
                                         \/ (volume(u) = volume(v) /\ first(u) < first(v))
  BY DEF Campaign!Ahead
<1> HIDE DEF volume, first, S
<1>4. \A u, v \in S : <<u, v>> \in R <=> Campaign!Ahead(u, v)
  OBVIOUS
<1> HIDE DEF R
<1>5. /\ \A u \in S : <<u, u>> \notin R
      /\ \A u, v, w \in S : <<u, v>> \in R /\ <<v, w>> \in R => <<u, w>> \in R
      /\ \A u, v \in S : u # v => <<u, v>> \in R \/ <<v, u>> \in R
  BY <1>1, <1>2, <1>3, <1>4
<1>6. IsFiniteSet(S)
  BY RankedFinite DEF S
<1> DEFINE n == Cardinality(S)
<1>7. PICK b \in [1 .. n -> S] :
          \A i, j \in 1 .. n : (i # j => b[i] # b[j]) /\ (i < j => <<b[i], b[j]>> \in R)
  BY <1>5, <1>6, ListInOrder
<1>8. n \in Nat /\ Campaign!Cardinality(S) = n
  BY <1>6, FS_CardinalityType DEF Campaign!Cardinality, Cardinality
<1> HIDE DEF n
<1>9. Campaign!SetToSeqs(S) = {f \in [1 .. n -> S] : \A i, j \in 1 .. n : i # j => f[i] # f[j]}
  BY <1>8 DEF Campaign!SetToSeqs
<1>10. /\ b \in Campaign!SetToSeqs(S)
       /\ \A i, j \in DOMAIN b : i < j => Campaign!Ahead(b[i], b[j])
  BY <1>4, <1>7, <1>9
<1>11. /\ Campaign!Board \in Campaign!SetToSeqs(S)
       /\ \A i, j \in DOMAIN Campaign!Board :
              i < j => Campaign!Ahead(Campaign!Board[i], Campaign!Board[j])
  BY <1>10 DEF Campaign!Board, S
<1>12. S \subseteq Users
  BY DEF S, Campaign!Ranked
<1>13. Campaign!Board \in [1 .. n -> Users]
  BY <1>9, <1>11, <1>12
<1> QED
  BY <1>8, <1>11, <1>13

\* The board is made of the verified credits alone.
LEMMA BoardStays == verified' = verified => Campaign!Board' = Campaign!Board
  BY DEF Campaign!Board, Campaign!Ranked, Campaign!Ahead, Campaign!Volume, Campaign!CreditsOf

-----------------------------------------------------------------------------
\* The inductive invariant

Job == [at : Campaign!Places, hash : Hashes \cup {NoHash}, attempts : Nat,
        user : Users \cup {NoUser}, board : Seq(Users), next : Nat, missed : SUBSET Nat]
Credit == [status : {"none", "pending", "verified", "rejected"}, attempts : Nat, due : BOOLEAN]
PrizeRow == [rank : 0 .. Prizes, status : {"none", "awaiting_claim", "pending_payout"}]

Given(u) == prizes[u].rank # 0

\* A copy of the top of the board.
OfBoard(b) == \A i \in DOMAIN b : i \in DOMAIN Campaign!Board /\ b[i] = Campaign!Board[i]

\* What a request is doing makes sense; a pass that gives out prizes works on the frozen
\* board, and has passed over nobody.
JobRight(j) ==
    /\ j.at \in {"enqueue", "verify", "resolve", "save", "reject"} => j.hash \in Hashes
    /\ j.at = "save" => Sweep[j.hash] # NoSweep
    /\ j.at = "release" => j.user \in Users
    /\ j.at \in {"read", "rank", "award", "grant"} => campaign.finalized
    /\ j.at \notin {"rank", "award", "grant"} => j.next = 0
    /\ j.at \in {"rank", "award", "grant"} =>
           /\ j.next >= 1 /\ j.next <= Len(j.board) + 1 /\ Len(j.board) <= Prizes
           /\ ~late => OfBoard(j.board)
    /\ j.at \in {"award", "grant"} => j.next <= Len(j.board) /\ Given(j.board[j.next])
    /\ \A i \in 1 .. j.next - 1 : i \in j.missed \/ Given(j.board[i])

\* What a winner has been given is given once, and is that of his place.
PrizeRight(u) ==
    /\ releases[u] <= 1
    /\ prizes[u].status # "pending_payout" => releases[u] = 0
    /\ ~Given(u) => prizes[u].status = "none"
    /\ Given(u) => campaign.finalized
    /\ Given(u) /\ ~late => prizes[u].rank \in DOMAIN Campaign!Board
                            /\ Campaign!Board[prizes[u].rank] = u

CampaignInv ==
    /\ Campaign!CampaignTypeOK /\ CreditsOnce /\ Campaign!TiersEarned
    /\ \A r \in Requests : JobRight(job[r])
    /\ \A u \in Users : PrizeRight(u)

LEMMA CampaignTypes ==
  Campaign!CampaignTypeOK <=>
    /\ campaign \in Campaign!Row /\ cached \in Campaign!Row \cup {NoCopy}
    /\ credits \in [Hashes -> Credit] /\ verified \in Seq(Hashes)
    /\ tierClaims \subseteq Users \X Tiers
    /\ prizes \in [Users -> PrizeRow]
    /\ prizeEvents \subseteq Users /\ prizePoints \in [Users -> Nat] /\ releases \in [Users -> Nat]
    /\ job \in [Requests -> Job] /\ late \in BOOLEAN /\ campaignFaults \in 0 .. MaxFaults
  BY DEF Campaign!CampaignTypeOK, Credit, PrizeRow, Job

\* The standings are frozen, and what was given is not taken back.
Frozen ==
    /\ campaign.finalized => campaign'.finalized
    /\ late => late'
    /\ campaign.finalized /\ ~late' => verified' = verified
    /\ \A u \in Users : Given(u) => prizes'[u].rank = prizes[u].rank

LEMMA JobStays ==
  ASSUME Frozen, NEW j \in Job, JobRight(j), prizes \in [Users -> PrizeRow]
  PROVE  JobRight(j)'
<1>1. \A u \in Users : Given(u) => Given(u)'
  BY DEF Frozen, Given
<1>2. \A i \in DOMAIN j.board : j.board[i] \in Users
  BY DEF Job
<1>3. j.board \in Seq(Users) /\ j.next \in Nat
  BY DEF Job
<1>4. j.at \in {"read", "rank", "award", "grant"} => campaign'.finalized
  BY DEF Frozen, JobRight
<1>5. j.at \in {"rank", "award", "grant"} /\ ~late' => OfBoard(j.board)'
  <2> SUFFICES ASSUME j.at \in {"rank", "award", "grant"}, ~late' PROVE OfBoard(j.board)'
    OBVIOUS
  <2>1. Campaign!Board' = Campaign!Board
    BY BoardStays DEF Frozen, JobRight
  <2> QED
    BY <2>1 DEF JobRight, OfBoard, Frozen
<1>6. j.at \in {"award", "grant"} => Given(j.board[j.next])'
  BY <1>1, <1>2, <1>3 DEF JobRight
<1>7. ASSUME NEW i \in 1 .. j.next - 1 PROVE i \in j.missed \/ Given(j.board[i])'
  <2>1. i \in DOMAIN j.board
    BY <1>3 DEF JobRight, Job
  <2> QED
    BY <1>1, <1>2, <2>1 DEF JobRight
<1> QED
  BY <1>4, <1>5, <1>6, <1>7 DEF JobRight

LEMMA PrizeStays ==
  ASSUME Frozen, NEW u \in Users, PrizeRight(u),
         prizes'[u] = prizes[u], releases'[u] = releases[u]
  PROVE  PrizeRight(u)'
<1>1. Given(u)' <=> Given(u)
  BY DEF Given
<1>2. Given(u) /\ ~late' => Campaign!Board' = Campaign!Board
  BY BoardStays DEF Frozen, PrizeRight
<1> QED
  BY <1>1, <1>2 DEF PrizeRight, Frozen

\* The credits and the tiers, as long as nothing is verified or claimed.
LEMMA CreditsStay ==
  ASSUME CreditsOnce, Campaign!TiersEarned, UNCHANGED <<verified, tierClaims>>
  PROVE  CreditsOnce' /\ Campaign!TiersEarned'
  BY DEF CreditsOnce, Campaign!TiersEarned, Campaign!CreditsOf

\* A step of one request that writes neither prizes nor credits that count.
Quiet(r, j) ==
    /\ job' = [job EXCEPT ![r] = j]
    /\ UNCHANGED <<campaign, verified, tierClaims, prizes, prizeEvents, prizePoints, releases, late>>
    /\ cached' \in Campaign!Row \cup {NoCopy} /\ credits' \in [Hashes -> Credit]
    /\ campaignFaults' \in 0 .. MaxFaults

LEMMA QuietKeepsAll ==
  ASSUME CampaignInv, NEW r \in Requests, NEW j \in Job, Quiet(r, j), JobRight(j)
  PROVE  CampaignInv'
<1>1. Frozen /\ prizes \in [Users -> PrizeRow] /\ job \in [Requests -> Job]
  BY CampaignTypes DEF Quiet, Frozen, CampaignInv
<1>2. Campaign!CampaignTypeOK'
  <2>1. job' \in [Requests -> Job]
    BY <1>1 DEF Quiet
  <2> QED
    BY <2>1, CampaignTypes DEF Quiet, CampaignInv, Campaign!CampaignTypeOK, Credit, Job
<1>3. CreditsOnce' /\ Campaign!TiersEarned'
  BY CreditsStay DEF Quiet, CampaignInv
<1>4. ASSUME NEW s \in Requests PROVE JobRight(job[s])'
  <2>1. PICK k \in Job : k = job'[s] /\ JobRight(k)
    BY <1>1 DEF Quiet, CampaignInv
  <2>2. JobRight(k)'
    BY <1>1, <2>1, JobStays
  <2> QED
    BY <2>1, <2>2 DEF JobRight
<1>5. \A u \in Users : PrizeRight(u)'
  BY <1>1, PrizeStays DEF Quiet, CampaignInv
<1> QED
  BY <1>2, <1>3, <1>4, <1>5 DEF CampaignInv

-----------------------------------------------------------------------------
\* The steps of the credits

\* A request that holds no board.
Plain(j) ==
    /\ j.next = 0 /\ j.at \notin {"read", "rank", "award", "grant", "release"}
    /\ j.at \in {"enqueue", "verify", "resolve", "save", "reject"} => j.hash \in Hashes
    /\ j.at = "save" => Sweep[j.hash] # NoSweep

LEMMA PlainRight ==
  ASSUME NEW j \in Job, Plain(j)
  PROVE  JobRight(j)
  BY DEF Plain, JobRight

LEMMA RestingPlain == Campaign!Resting \in Job /\ Plain(Campaign!Resting)
<1>1. <<>> \in Seq(Users)
  OBVIOUS
<1> QED
  BY <1>1 DEF Campaign!Resting, Job, Campaign!Places, Plain

LEMMA CampaignBasics ==
  ASSUME CampaignInv, NEW r \in Requests
  PROVE  /\ job \in [Requests -> Job] /\ job[r] \in Job /\ JobRight(job[r])
         /\ campaign \in Campaign!Row /\ cached \in Campaign!Row \cup {NoCopy}
         /\ credits \in [Hashes -> Credit] /\ verified \in Seq(Hashes)
         /\ campaignFaults \in 0 .. MaxFaults /\ MaxFaults \in Nat
         /\ Campaign!GetCampaign => cached' \in Campaign!Row \cup {NoCopy}
         /\ Campaign!Fault => campaignFaults' \in 0 .. MaxFaults
<1>1. MaxFaults \in Nat
  BY AccountsAssumption DEF Campaign!CampaignAssumption
<1>2. campaignFaults \in 0 .. MaxFaults
  BY CampaignTypes DEF CampaignInv
<1>3. Campaign!Fault => campaignFaults' \in 0 .. MaxFaults
  BY <1>1, <1>2 DEF Campaign!Fault
<1> QED
  BY <1>1, <1>2, <1>3, CampaignTypes DEF CampaignInv, Campaign!GetCampaign, Campaign!SeenCampaign

LEMMA PlainKeeps ==
  ASSUME CampaignInv, NEW r \in Requests, NEW j \in Job, Plain(j), Quiet(r, j)
  PROVE  CampaignInv'
  BY PlainRight, QuietKeepsAll

LEMMA EnqueueKeeps ==
  ASSUME CampaignInv, NEW r \in Requests,
         \/ \E h \in Hashes : Campaign!BeginEnqueue(r, h) \/ Campaign!BeginVerify(r, h)
                              \/ Campaign!RequeueCredit(r, h)
         \/ Campaign!InsertCredit(r)
  PROVE  CampaignInv'
<1> USE CampaignBasics DEF Campaign!claimRows
<1>1. CASE \E h \in Hashes : Campaign!BeginEnqueue(r, h) \/ Campaign!BeginVerify(r, h)
                             \/ Campaign!RequeueCredit(r, h)
  <2>1. PICK h \in Hashes : Campaign!BeginEnqueue(r, h) \/ Campaign!BeginVerify(r, h)
                            \/ Campaign!RequeueCredit(r, h)
    BY <1>1
  <2>2. PICK place \in {"enqueue", "verify"} :
            job' = [job EXCEPT ![r].at = place, ![r].hash = h]
    BY <2>1 DEF Campaign!BeginEnqueue, Campaign!BeginVerify, Campaign!RequeueCredit
  <2> DEFINE j == [job[r] EXCEPT !.at = place, !.hash = h]
  <2>3. j \in Job /\ job' = [job EXCEPT ![r] = j] /\ j.at = place /\ j.hash = h /\ j.next = job[r].next
    BY <2>2 DEF Job, Campaign!Places
  <2>4. job[r].next = 0
    BY <2>1 DEF Campaign!BeginEnqueue, Campaign!BeginVerify, Campaign!RequeueCredit, Campaign!At,
       JobRight
  <2> HIDE DEF j
  <2>5. Plain(j)
    BY <2>3, <2>4 DEF Plain
  <2>6. Campaign!Fresh \in Credit
    BY DEF Campaign!Fresh, Credit
  <2>7. Quiet(r, j)
    BY <2>1, <2>3, <2>6 DEF Quiet, Campaign!BeginEnqueue, Campaign!BeginVerify,
       Campaign!RequeueCredit
  <2> QED
    BY <2>3, <2>5, <2>7, PlainKeeps
<1>2. CASE Campaign!InsertCredit(r)
  <2> DEFINE v == [job[r] EXCEPT !.at = "verify"]
  <2>1. v \in Job /\ v.at = "verify" /\ v.hash = job[r].hash /\ v.next = job[r].next
    BY DEF Job, Campaign!Places
  <2>2. job[r].hash \in Hashes /\ job[r].next = 0
    BY <1>2 DEF Campaign!InsertCredit, Campaign!At, JobRight
  <2>3. Plain(v)
    BY <2>1, <2>2 DEF Plain
  <2>4. credits' \in [Hashes -> Credit]
    <3>1. Campaign!Fresh \in Credit
      BY DEF Campaign!Fresh, Credit
    <3> QED
      BY <1>2, <2>2, <3>1 DEF Campaign!InsertCredit
  <2>5. job' = [job EXCEPT ![r] = v] \/ job' = [job EXCEPT ![r] = Campaign!Resting]
    BY <1>2 DEF Campaign!InsertCredit, Campaign!Goto, Campaign!Rest
  <2> HIDE DEF v
  <2>6. Quiet(r, v) \/ Quiet(r, Campaign!Resting)
    BY <1>2, <2>4, <2>5 DEF Quiet, Campaign!InsertCredit
  <2> QED
    BY <2>1, <2>3, <2>6, RestingPlain, PlainKeeps
<1> QED
  BY <1>1, <1>2

LEMMA VerifyKeeps ==
  ASSUME CampaignInv, NEW r \in Requests,
         Campaign!ClaimCredit(r) \/ Campaign!Unresolved(r) \/ Campaign!Resolve(r)
         \/ Campaign!RejectCredit(r) \/ Campaign!EndFinalize(r) \/ Campaign!Dies(r)
  PROVE  CampaignInv'
<1> USE CampaignBasics DEF Campaign!claimRows
<1>1. CASE Campaign!ClaimCredit(r)
  <2> DEFINE h == job[r].hash
             n == credits[h].attempts + 1
             v == [job[r] EXCEPT !.at = "resolve", !.attempts = n]
  <2>1. h \in Hashes /\ job[r].next = 0
    BY <1>1 DEF Campaign!ClaimCredit, Campaign!At, JobRight
  <2>2. n \in Nat
    BY <2>1 DEF Credit
  <2>3. credits' \in [Hashes -> Credit] /\ cached' \in Campaign!Row \cup {NoCopy}
    <3> DEFINE c == [credits[h] EXCEPT !.attempts = n, !.due = FALSE]
    <3>1. c \in Credit
      BY <2>1, <2>2 DEF Credit
    <3>2. credits' = [credits EXCEPT ![h] = c] \/ credits' = credits
      BY <1>1 DEF Campaign!ClaimCredit
    <3>3. cached' \in Campaign!Row \cup {NoCopy}
      BY <1>1 DEF Campaign!ClaimCredit
    <3> HIDE DEF c, h
    <3> QED
      BY <2>1, <3>1, <3>2, <3>3
  <2>4. job' = [job EXCEPT ![r] = v] \/ job' = [job EXCEPT ![r] = Campaign!Resting]
    BY <1>1 DEF Campaign!ClaimCredit, Campaign!Rest
  <2> HIDE DEF n
  <2>5. v \in Job /\ v.at = "resolve" /\ v.hash = h /\ v.next = job[r].next
    BY <2>2 DEF Job, Campaign!Places
  <2> HIDE DEF v, h
  <2>6. Plain(v)
    BY <2>1, <2>5 DEF Plain
  <2>7. Quiet(r, v) \/ Quiet(r, Campaign!Resting)
    BY <1>1, <2>3, <2>4 DEF Quiet, Campaign!ClaimCredit
  <2> QED
    BY <2>5, <2>6, <2>7, RestingPlain, PlainKeeps
<1>2. CASE Campaign!Unresolved(r) \/ Campaign!Resolve(r)
  <2>1. PICK place \in {"reject", "save", "idle"} :
            /\ IF place = "idle" THEN job' = [job EXCEPT ![r] = Campaign!Resting]
                                 ELSE job' = [job EXCEPT ![r].at = place]
            /\ place = "save" => Sweep[job[r].hash] # NoSweep
    BY <1>2 DEF Campaign!Unresolved, Campaign!Resolve, Campaign!Goto, Campaign!Rest
  <2> DEFINE v == [job[r] EXCEPT !.at = place]
  <2>2. job[r].hash \in Hashes /\ job[r].next = 0
    BY <1>2 DEF Campaign!Unresolved, Campaign!Resolve, Campaign!At, JobRight
  <2>3. v \in Job /\ v.at = place /\ v.hash = job[r].hash /\ v.next = job[r].next
    BY DEF Job, Campaign!Places
  <2>4. job' = [job EXCEPT ![r] = v] \/ job' = [job EXCEPT ![r] = Campaign!Resting]
    BY <2>1
  <2> HIDE DEF v
  <2>5. Plain(v)
    BY <2>1, <2>2, <2>3 DEF Plain
  <2>6. campaignFaults' \in 0 .. MaxFaults
    BY <1>2 DEF Campaign!Unresolved, Campaign!Resolve
  <2>7. Quiet(r, v) \/ Quiet(r, Campaign!Resting)
    BY <1>2, <2>4, <2>6 DEF Quiet, Campaign!Unresolved, Campaign!Resolve
  <2> QED
    BY <2>3, <2>5, <2>7, RestingPlain, PlainKeeps
<1>3. CASE Campaign!RejectCredit(r) \/ Campaign!EndFinalize(r) \/ Campaign!Dies(r)
  <2>1. job' = [job EXCEPT ![r] = Campaign!Resting]
    BY <1>3 DEF Campaign!RejectCredit, Campaign!EndFinalize, Campaign!Dies, Campaign!Rest
  <2>2. credits' \in [Hashes -> Credit]
    <3>1. CASE Campaign!RejectCredit(r)
      <4> DEFINE h == job[r].hash
                 g == IF credits[h].status = "pending" THEN "rejected" ELSE credits[h].status
                 c == [credits[h] EXCEPT !.status = g]
      <4>1. h \in Hashes
        BY <3>1 DEF Campaign!RejectCredit, Campaign!At, JobRight
      <4>2. c \in Credit
        BY <4>1 DEF Credit
      <4>3. credits' = [credits EXCEPT ![h] = c]
        BY <3>1 DEF Campaign!RejectCredit
      <4> HIDE DEF c, h
      <4> QED
        BY <4>1, <4>2, <4>3
    <3>2. CASE Campaign!EndFinalize(r) \/ Campaign!Dies(r)
      BY <3>2 DEF Campaign!EndFinalize, Campaign!Dies
    <3> QED
      BY <1>3, <3>1, <3>2
  <2>3. Quiet(r, Campaign!Resting)
    BY <1>3, <2>1, <2>2 DEF Quiet, Campaign!RejectCredit, Campaign!EndFinalize, Campaign!Dies
  <2> QED
    BY <2>3, RestingPlain, PlainKeeps
<1> QED
  BY <1>1, <1>2, <1>3

-----------------------------------------------------------------------------
\* Tiers

Swept(u) == {Sweep[verified[i]] : i \in Campaign!CreditsOf(u)}
Worths(S) == [e \in S |-> e.worth]

\* A volume is made of different executions.
LEMMA VolumeCounts ==
  ASSUME verified \in Seq(Hashes), CreditsOnce, NEW u
  PROVE  /\ IsFiniteSet(Swept(u)) /\ Worths(Swept(u)) \in [Swept(u) -> Nat]
         /\ Campaign!Volume(u) = Total(Worths(Swept(u)))
<1> DEFINE own == Campaign!CreditsOf(u)
           f == [i \in own |-> Sweep[verified[i]].worth]
           g == Worths(Swept(u))
           execution == [i \in own |-> Sweep[verified[i]]]
<1>1. IsFiniteSet(own) /\ \A i \in own : Sweep[verified[i]].worth \in Nat
  BY VolumeType DEF CreditsOnce, Campaign!CreditsOf, Campaign!Execution
<1>2. \A i, j \in own : Sweep[verified[i]] = Sweep[verified[j]] => i = j
  BY DEF CreditsOnce, Campaign!CreditsOf
<1>3. Campaign!Volume(u) = Total(f)
  BY SameTotal DEF Campaign!Volume
<1>4. Swept(u) = {Sweep[verified[i]] : i \in own}
  BY DEF Swept
<1> HIDE DEF own
<1>5. g \in [Swept(u) -> Nat] /\ f \in [own -> Nat]
  BY <1>1, <1>4 DEF Worths
<1>6. IsFiniteSet(Swept(u))
  <2>1. execution \in Surjection(own, Swept(u))
    BY <1>4 DEF Surjection
  <2> HIDE DEF execution
  <2> QED
    BY <1>1, <2>1, FS_Surjection
<1> DEFINE m == [p \in Units(f) |-> <<execution[p[1]], p[2]>>]
<1>7. \A i \in own : execution[i] \in Swept(u) /\ g[execution[i]] = f[i]
  BY <1>4 DEF Worths
<1>8. \A e \in Swept(u) : \E i \in own : execution[i] = e
  BY <1>4
<1>9. \A i, j \in own : execution[i] = execution[j] => i = j
  BY <1>2
<1> HIDE DEF execution, f, g
<1>10. /\ Units(f) = UNION {{x} \X (1 .. f[x]) : x \in own}
       /\ Units(g) = UNION {{x} \X (1 .. g[x]) : x \in Swept(u)}
  BY <1>5 DEF Units
<1>11. \A p \in Units(f) : p = <<p[1], p[2]>> /\ p[1] \in own /\ p[2] \in 1 .. f[p[1]]
  BY <1>10
<1>12. \A e, k : <<e, k>> \in Units(g) <=> e \in Swept(u) /\ k \in 1 .. g[e]
  BY <1>10
<1>13. \A i, k : <<i, k>> \in Units(f) <=> i \in own /\ k \in 1 .. f[i]
  BY <1>10
<1>14. m \in [Units(f) -> Units(g)]
  BY <1>7, <1>11, <1>12
<1>15. \A p, q \in Units(f) : m[p] = m[q] => p = q
  BY <1>9, <1>11
<1>16. \A q \in Units(g) : \E p \in Units(f) : m[p] = q
  <2> SUFFICES ASSUME NEW q \in Units(g) PROVE \E p \in Units(f) : m[p] = q
    OBVIOUS
  <2>1. q = <<q[1], q[2]>> /\ q[1] \in Swept(u) /\ q[2] \in 1 .. g[q[1]]
    BY <1>10
  <2>2. PICK i \in own : execution[i] = q[1]
    BY <1>8, <2>1
  <2>3. <<i, q[2]>> \in Units(f)
    BY <1>7, <1>13, <2>1, <2>2
  <2> QED
    BY <2>1, <2>2, <2>3
<1>17. ExistsBijection(Units(f), Units(g))
  BY <1>14, <1>15, <1>16 DEF ExistsBijection, Bijection, Injection, Surjection, IsInjective
<1>18. IsFiniteSet(Units(f))
  BY <1>1, <1>5, UnitsFinite
<1>19. Total(f) = Total(g)
  BY <1>17, <1>18, FS_Bijection DEF Total
<1> QED
  BY <1>3, <1>5, <1>6, <1>19 DEF g

\* The volume that a tier took.
TiersReached == \A c \in tierClaims : Threshold[c[2]] <= Campaign!Volume(c[1])

LEMMA TiersMeasured ==
  Campaign!CampaignTypeOK /\ CreditsOnce => (Campaign!TiersEarned <=> TiersReached)
<1> SUFFICES ASSUME Campaign!CampaignTypeOK, CreditsOnce
             PROVE  Campaign!TiersEarned <=> TiersReached
  OBVIOUS
<1>1. verified \in Seq(Hashes)
  BY DEF Campaign!CampaignTypeOK
<1>2. \A u : Campaign!Total([e \in {Sweep[verified[i]] : i \in Campaign!CreditsOf(u)} |-> e.worth])
             = Campaign!Volume(u)
  BY <1>1, VolumeCounts, SameTotal DEF Worths, Swept
<1> QED
  BY <1>2 DEF Campaign!TiersEarned, TiersReached

LEMMA TiersMeasuredNext ==
  Campaign!CampaignTypeOK' /\ CreditsOnce' => (Campaign!TiersEarned' <=> TiersReached')
  BY TiersMeasured, PTL

LEMMA VolumeGrows ==
  ASSUME verified \in Seq(Hashes), CreditsOnce, verified' \in Seq(Hashes), CreditsOnce',
         \A i \in DOMAIN verified : i \in DOMAIN verified' /\ verified'[i] = verified[i], NEW u
  PROVE  /\ Campaign!Volume(u) \in Nat /\ Campaign!Volume(u)' \in Nat
         /\ Campaign!Volume(u) <= Campaign!Volume(u)'
<1> DEFINE S == Campaign!CreditsOf(u)
           T == Campaign!CreditsOf(u)'
           f == [i \in S |-> Sweep[verified[i]].worth]
           g == [i \in T |-> Sweep[verified'[i]].worth]
<1>1. S \subseteq T /\ \A i \in S : verified'[i] = verified[i]
  BY DEF Campaign!CreditsOf
<1>2. \A i \in S : Sweep[verified[i]].worth \in Nat
  BY DEF CreditsOnce, Campaign!CreditsOf, Campaign!Execution
<1>3. \A i \in T : Sweep[verified'[i]].worth \in Nat
  BY DEF CreditsOnce, Campaign!CreditsOf, Campaign!Execution
<1>4. IsFiniteSet(T)
  <2>1. T \in SUBSET (1 .. Len(verified')) /\ Len(verified') \in Nat
    BY DEF Campaign!CreditsOf
  <2>2. IsFiniteSet(1 .. Len(verified'))
    BY <2>1, FS_Interval
  <2> HIDE DEF T
  <2> QED
    BY <2>1, <2>2, FS_Subset
<1>5. Campaign!Volume(u) = Total(f) /\ Campaign!Volume(u)' = Total(g)
  BY SameTotal DEF Campaign!Volume
<1> HIDE DEF S, T
<1>6. f \in [S -> Nat] /\ g \in [T -> Nat] /\ \A i \in S : f[i] = g[i]
  BY <1>1, <1>2, <1>3
<1> HIDE DEF f, g
<1>7. Total(f) \in Nat /\ Total(g) \in Nat /\ Total(f) <= Total(g)
  BY <1>1, <1>4, <1>6, TotalWithin
<1> QED
  BY <1>5, <1>7

LEMMA ThresholdType == \A c \in Users \X Tiers : Threshold[c[2]] \in Nat
  BY AccountsAssumption DEF Campaign!CampaignAssumption

\* A step in which no request and no winner comes to be wrong.
LEMMA CampaignMoves ==
  ASSUME CampaignInv, Frozen, Campaign!CampaignTypeOK', CreditsOnce', Campaign!TiersEarned',
         \A r \in Requests : job'[r] = job[r] \/ JobRight(job[r])',
         \A u \in Users : PrizeRight(u)'
  PROVE  CampaignInv'
<1>1. ASSUME NEW r \in Requests, job'[r] = job[r] PROVE JobRight(job[r])'
  <2>1. PICK j \in Job : j = job[r] /\ JobRight(j) /\ prizes \in [Users -> PrizeRow]
    BY CampaignTypes DEF CampaignInv
  <2>2. JobRight(j)'
    BY <2>1, JobStays
  <2> QED
    BY <1>1, <2>1, <2>2 DEF JobRight
<1> QED
  BY <1>1 DEF CampaignInv

LEMMA WaitingKeeps ==
  ASSUME CampaignInv, (\E h \in Hashes : Campaign!RetryDue(h)) \/ Campaign!Expire
  PROVE  CampaignInv'
<1> USE DEF Campaign!RetryDue, Campaign!Expire, Campaign!claimRows
<1>1. UNCHANGED <<campaign, verified, tierClaims, prizes, prizeEvents, prizePoints, releases, job, late>>
  OBVIOUS
<1>2. credits' \in [Hashes -> Credit]
  <2>0. credits \in [Hashes -> Credit]
    BY CampaignTypes DEF CampaignInv
  <2>1. ASSUME NEW h \in Hashes, Campaign!RetryDue(h) PROVE credits' \in [Hashes -> Credit]
    <3> DEFINE c == [credits[h] EXCEPT !.due = TRUE]
    <3>1. c \in Credit
      BY <2>0 DEF Credit
    <3>2. credits' = [credits EXCEPT ![h] = c]
      BY <2>1
    <3> HIDE DEF c
    <3> QED
      BY <2>0, <3>1, <3>2
  <2> QED
    BY <2>0, <2>1
<1>3. Campaign!CampaignTypeOK'
  BY <1>1, <1>2, CampaignTypes DEF CampaignInv, Campaign!CampaignTypeOK, Credit
<1>4. Frozen
  BY <1>1 DEF Frozen
<1> QED
  BY <1>1, <1>3, <1>4, CreditsStay, PrizeStays, CampaignMoves DEF CampaignInv

LEMMA ClaimTierKeeps ==
  ASSUME CampaignInv, NEW u \in Users, NEW t \in Tiers, Campaign!ClaimTier(u, t)
  PROVE  CampaignInv'
<1>1. /\ UNCHANGED <<campaign, credits, verified, prizes, prizeEvents, prizePoints, releases, job, late,
                     campaignFaults>>
      /\ tierClaims' = tierClaims \cup {<<u, t>>} /\ Campaign!Volume(u) >= Threshold[t]
      /\ cached' \in Campaign!Row \cup {NoCopy}
  BY CampaignTypes DEF Campaign!ClaimTier, Campaign!GetCampaign, Campaign!SeenCampaign, CampaignInv
<1>2. Campaign!CampaignTypeOK'
  BY <1>1 DEF CampaignInv, Campaign!CampaignTypeOK
<1>3. Frozen /\ CreditsOnce' /\ verified \in Seq(Hashes) /\ tierClaims \subseteq Users \X Tiers
  BY <1>1, CampaignTypes DEF Frozen, CampaignInv, CreditsOnce
<1>4. \A v : Campaign!Volume(v)' = Campaign!Volume(v)
  BY <1>1 DEF Campaign!Volume, Campaign!CreditsOf
<1>5. Campaign!TiersEarned'
  <2>1. TiersReached
    BY TiersMeasured DEF CampaignInv
  <2>2. Threshold[t] \in Nat /\ Campaign!Volume(u) \in Nat
    <3>1. <<u, t>> \in Users \X Tiers
      OBVIOUS
    <3>2. Threshold[t] \in Nat
      BY <3>1, ThresholdType
    <3> QED
      BY <1>3, <3>2, VolumeType DEF CampaignInv
  <2>3. TiersReached'
    BY <1>1, <1>4, <2>1, <2>2 DEF TiersReached
  <2> QED
    BY <1>2, <1>3, <2>3, TiersMeasuredNext
<1> QED
  BY <1>1, <1>2, <1>3, <1>5, PrizeStays, CampaignMoves DEF CampaignInv

\* The unique index on executions keeps credits apart.
LEMMA VerifiedKeeps ==
  ASSUME CampaignInv, NEW r \in Requests, Campaign!Save(r)
  PROVE  CampaignInv'
<1> DEFINE h == job[r].hash
<1> USE DEF Campaign!claimRows
<1>1. /\ h \in Hashes /\ Sweep[h] # NoSweep /\ job[r].next = 0
      /\ verified \in Seq(Hashes) /\ credits \in [Hashes -> Credit]
      /\ campaign \in Campaign!Row /\ cached \in Campaign!Row \cup {NoCopy}
      /\ campaignFaults \in 0 .. MaxFaults /\ job[r] \in Job
      /\ UNCHANGED <<campaign, cached, tierClaims, prizes, prizeEvents, prizePoints, releases, campaignFaults>>
  BY CampaignBasics DEF Campaign!Save, Campaign!At, JobRight
<1>2. CASE /\ UNCHANGED <<credits, verified, late>>
           /\ Campaign!Rest(r) \/ Campaign!Goto(r, "reject")
  <2> DEFINE v == [job[r] EXCEPT !.at = "reject"]
  <2>1. v \in Job /\ v.at = "reject" /\ v.hash = h /\ v.next = 0
    BY <1>1 DEF Job, Campaign!Places
  <2>2. job' = [job EXCEPT ![r] = v] \/ job' = [job EXCEPT ![r] = Campaign!Resting]
    BY <1>2 DEF Campaign!Goto, Campaign!Rest
  <2> HIDE DEF v
  <2>3. Plain(v)
    BY <1>1, <2>1 DEF Plain
  <2>4. Quiet(r, v) \/ Quiet(r, Campaign!Resting)
    BY <1>1, <1>2, <2>2 DEF Quiet
  <2> QED
    BY <2>1, <2>3, <2>4, RestingPlain, PlainKeeps
<1>3. CASE /\ ~Campaign!Credited(h)
           /\ credits' = [credits EXCEPT ![h].status = "verified"]
           /\ verified' = Append(verified, h) /\ late' = (late \/ campaign.finalized)
           /\ Campaign!Rest(r)
  <2>1. /\ verified' \in Seq(Hashes) /\ Len(verified) \in Nat
        /\ DOMAIN verified = 1 .. Len(verified) /\ DOMAIN verified' = 1 .. Len(verified) + 1
        /\ \A i \in DOMAIN verified : verified'[i] = verified[i]
        /\ verified'[Len(verified) + 1] = h
    BY <1>1, <1>3
  <2>2. credits' \in [Hashes -> Credit]
    <3> DEFINE c == [credits[h] EXCEPT !.status = "verified"]
    <3>1. c \in Credit
      BY <1>1 DEF Credit
    <3>2. credits' = [credits EXCEPT ![h] = c]
      BY <1>3
    <3> HIDE DEF c, h
    <3> QED
      BY <1>1, <3>1, <3>2
  <2>3. job' = [job EXCEPT ![r] = Campaign!Resting] /\ job \in [Requests -> Job]
    BY <1>3, CampaignTypes DEF Campaign!Rest, CampaignInv
  <2>4. job' \in [Requests -> Job] /\ late' \in BOOLEAN
    BY <1>3, <2>3, RestingPlain
  <2>5. Campaign!CampaignTypeOK'
    BY <1>1, <2>1, <2>2, <2>4 DEF CampaignInv, Campaign!CampaignTypeOK, Credit, Job
  <2>6. Sweep[h] \in Campaign!Execution
    BY <1>1, AccountsAssumption DEF Campaign!CampaignAssumption
  <2>7. \A i \in DOMAIN verified : Sweep[verified[i]] # Sweep[h]
    BY <1>3 DEF Campaign!Credited
  <2> HIDE DEF h
  <2>8. CreditsOnce'
    <3> SUFFICES ASSUME NEW i \in DOMAIN verified'
                 PROVE  /\ Sweep[verified'[i]] \in Campaign!Execution
                        /\ \A j \in DOMAIN verified' :
                               Sweep[verified'[i]] = Sweep[verified'[j]] => i = j
      BY DEF CreditsOnce
    <3>1. CASE i \in DOMAIN verified
      BY <2>1, <2>7, <3>1 DEF CampaignInv, CreditsOnce
    <3>2. CASE i = Len(verified) + 1
      BY <2>1, <2>6, <2>7, <3>2
    <3> QED
      BY <2>1, <3>1, <3>2
  <2>9. Campaign!TiersEarned'
    <3>1. TiersReached
      BY TiersMeasured DEF CampaignInv
    <3>2. \A u : /\ Campaign!Volume(u) \in Nat /\ Campaign!Volume(u)' \in Nat
                 /\ Campaign!Volume(u) <= Campaign!Volume(u)'
      BY <1>1, <2>1, <2>8, VolumeGrows DEF CampaignInv
    <3>3. \A c \in tierClaims : Threshold[c[2]] \in Nat
      BY ThresholdType, CampaignTypes DEF CampaignInv
    <3>4. TiersReached'
      <4> SUFFICES ASSUME NEW c \in tierClaims PROVE Threshold[c[2]] <= Campaign!Volume(c[1])'
        BY <1>1 DEF TiersReached
      <4>1. Threshold[c[2]] <= Campaign!Volume(c[1]) /\ Threshold[c[2]] \in Nat
        BY <3>1, <3>3 DEF TiersReached
      <4> QED
        BY <3>2, <4>1
    <3> QED
      BY <2>5, <2>8, <3>4, TiersMeasuredNext
  <2>10. Frozen
    BY <1>1, <1>3 DEF Frozen
  <2>11. \A u \in Users : PrizeRight(u)'
    BY <1>1, <2>10, PrizeStays DEF CampaignInv
  <2>12. \A s \in Requests : job'[s] = job[s] \/ JobRight(job[s])'
    <3> SUFFICES JobRight(job[r])'
      BY <2>3
    <3>1. job'[r] = Campaign!Resting
      BY <2>3
    <3> QED
      BY <3>1 DEF JobRight, Campaign!Resting
  <2> QED
    BY <2>5, <2>8, <2>9, <2>10, <2>11, <2>12, CampaignMoves
<1> QED
  BY <1>2, <1>3 DEF Campaign!Save

-----------------------------------------------------------------------------
\* Finalizing

\* A step of a pass, or of a release, that writes nothing.
LEMMA PassKeeps ==
  ASSUME CampaignInv, NEW r \in Requests,
         Campaign!BeginFinalize(r) \/ Campaign!ReadBoard(r) \/ Campaign!AddPrizeFails(r)
         \/ Campaign!AwardFails(r) \/ Campaign!Award(r)
         \/ \E u \in Users : Campaign!BeginRelease(r, u)
  PROVE  CampaignInv'
<1> USE CampaignBasics DEF Campaign!claimRows
<1>1. CASE Campaign!BeginFinalize(r)
  <2> DEFINE j == [job[r] EXCEPT !.at = "stamp"]
  <2>1. j \in Job /\ j.at = "stamp" /\ j.next = job[r].next
    BY DEF Job, Campaign!Places
  <2>2. job[r].next = 0 /\ job' = [job EXCEPT ![r] = j]
    BY <1>1 DEF Campaign!BeginFinalize, Campaign!At, Campaign!Goto, JobRight
  <2> HIDE DEF j
  <2>3. Plain(j)
    BY <2>1, <2>2 DEF Plain
  <2>4. Quiet(r, j)
    BY <1>1, <2>2 DEF Quiet, Campaign!BeginFinalize
  <2> QED
    BY <2>1, <2>3, <2>4, PlainKeeps
<1>2. CASE \E u \in Users : Campaign!BeginRelease(r, u)
  <2>1. PICK u \in Users : Campaign!BeginRelease(r, u)
    BY <1>2
  <2> DEFINE j == [job[r] EXCEPT !.at = "release", !.user = u]
  <2>2. j \in Job /\ j.at = "release" /\ j.next = job[r].next /\ j.user = u
    BY DEF Job, Campaign!Places
  <2>3. job[r].next = 0 /\ job' = [job EXCEPT ![r] = j]
    BY <2>1 DEF Campaign!BeginRelease, Campaign!At, JobRight
  <2> HIDE DEF j
  <2>4. JobRight(j)
    BY <2>2, <2>3 DEF JobRight
  <2>5. Quiet(r, j)
    BY <2>1, <2>3 DEF Quiet, Campaign!BeginRelease
  <2> QED
    BY <2>2, <2>4, <2>5, QuietKeepsAll
<1>3. CASE Campaign!ReadBoard(r)
  <2> DEFINE n == IF Len(Campaign!Board) < Prizes THEN Len(Campaign!Board) ELSE Prizes
             b == SubSeq(Campaign!Board, 1, n)
             j == [job[r] EXCEPT !.at = "rank", !.next = 1, !.board = b]
  <2>1. Campaign!Board \in Seq(Users) /\ Prizes \in Nat
    BY BoardLists, AccountsAssumption DEF CampaignInv, Campaign!CampaignAssumption
  <2>2. b \in Seq(Users) /\ Len(b) = n /\ n \in Nat /\ n <= Prizes
        /\ \A i \in 1 .. n : i \in DOMAIN Campaign!Board /\ b[i] = Campaign!Board[i]
    BY <2>1
  <2>3. campaign.finalized /\ job' = [job EXCEPT ![r] = j]
    BY <1>3 DEF Campaign!ReadBoard, Campaign!At, JobRight
  <2> HIDE DEF b, n
  <2>4. j \in Job /\ j.at = "rank" /\ j.next = 1 /\ j.board = b
    BY <2>2 DEF Job, Campaign!Places
  <2>5. OfBoard(j.board)
    BY <2>2, <2>4 DEF OfBoard
  <2> HIDE DEF j
  <2>6. JobRight(j)
    BY <2>2, <2>3, <2>4, <2>5 DEF JobRight
  <2>7. Quiet(r, j)
    BY <1>3, <2>3 DEF Quiet, Campaign!ReadBoard
  <2> QED
    BY <2>4, <2>6, <2>7, QuietKeepsAll
<1>4. CASE Campaign!AddPrizeFails(r)
  <2> DEFINE k == job[r].next
             j == [job[r] EXCEPT !.next = k + 1, !.missed = @ \cup {k}]
  <2>1. j \in Job /\ j.at = job[r].at /\ j.next = k + 1 /\ j.missed = job[r].missed \cup {k}
        /\ j.board = job[r].board /\ k \in Nat /\ Len(j.board) \in Nat
    <3>1. k \in Nat /\ job[r].missed \subseteq Nat /\ job[r].board \in Seq(Users)
      BY DEF Job
    <3>2. k + 1 \in Nat /\ job[r].missed \cup {k} \in SUBSET Nat /\ Len(job[r].board) \in Nat
      BY <3>1
    <3> HIDE DEF k
    <3> QED
      BY <3>1, <3>2 DEF Job
  <2>2. job[r].at = "rank" /\ k <= Len(job[r].board) /\ job' = [job EXCEPT ![r] = j]
    BY <1>4 DEF Campaign!AddPrizeFails, Campaign!At, Campaign!More
  <2> HIDE DEF j, k
  <2>3. \A i \in 1 .. j.next - 1 : i \in j.missed \/ Given(j.board[i])
    BY <2>1, <2>2 DEF JobRight, k
  <2>4. JobRight(j)
    BY <2>1, <2>2, <2>3 DEF JobRight, k
  <2>5. Quiet(r, j)
    BY <1>4, <2>2 DEF Quiet, Campaign!AddPrizeFails
  <2> QED
    BY <2>1, <2>4, <2>5, QuietKeepsAll
<1>5. CASE Campaign!AwardFails(r) \/ (Campaign!Award(r) /\ Campaign!Onward(r))
  <2> DEFINE k == job[r].next
             j == [job[r] EXCEPT !.at = "rank", !.next = k + 1]
  <2>1. j \in Job /\ j.at = "rank" /\ j.next = k + 1 /\ j.missed = job[r].missed
        /\ j.board = job[r].board /\ k \in Nat /\ Len(j.board) \in Nat
    <3>1. k \in Nat /\ job[r].board \in Seq(Users)
      BY DEF Job
    <3>2. k + 1 \in Nat /\ Len(job[r].board) \in Nat
      BY <3>1
    <3> HIDE DEF k
    <3> QED
      BY <3>1, <3>2 DEF Job, Campaign!Places
  <2>2. job[r].at \in {"award", "grant"} /\ job' = [job EXCEPT ![r] = j]
    BY <1>5 DEF Campaign!AwardFails, Campaign!Award, Campaign!At, Campaign!Onward
  <2> HIDE DEF j, k
  <2>3. \A i \in 1 .. j.next - 1 : i \in j.missed \/ Given(j.board[i])
    BY <2>1, <2>2 DEF JobRight, k
  <2>4. JobRight(j)
    BY <2>1, <2>2, <2>3 DEF JobRight, k
  <2>5. Quiet(r, j)
    BY <1>5, <2>2 DEF Quiet, Campaign!AwardFails, Campaign!Award
  <2> QED
    BY <2>1, <2>4, <2>5, QuietKeepsAll
<1>6. CASE Campaign!Award(r) /\ Campaign!Goto(r, "grant")
  <2> DEFINE j == [job[r] EXCEPT !.at = "grant"]
  <2>1. j \in Job /\ j.at = "grant" /\ j.next = job[r].next /\ j.missed = job[r].missed
        /\ j.board = job[r].board
    BY DEF Job, Campaign!Places
  <2>2. job[r].at = "award" /\ job' = [job EXCEPT ![r] = j]
    BY <1>6 DEF Campaign!Award, Campaign!At, Campaign!Goto
  <2> HIDE DEF j
  <2>3. JobRight(j)
    BY <2>1, <2>2 DEF JobRight
  <2>4. Quiet(r, j)
    BY <1>6, <2>2 DEF Quiet, Campaign!Award
  <2> QED
    BY <2>1, <2>3, <2>4, QuietKeepsAll
<1> QED
  BY <1>1, <1>2, <1>3, <1>4, <1>5, <1>6 DEF Campaign!Award

\* The campaign is finalized, or its claims are opened.
LEMMA StampKeeps ==
  ASSUME CampaignInv,
         Campaign!OpenPrizeClaims \/ \E r \in Requests : Campaign!Stamp(r)
  PROVE  CampaignInv'
<1> USE DEF Campaign!claimRows
<1>1. /\ UNCHANGED <<credits, verified, tierClaims, prizes, prizeEvents, prizePoints, releases, late,
                     campaignFaults>>
      /\ campaign \in Campaign!Row /\ cached \in Campaign!Row \cup {NoCopy}
      /\ job \in [Requests -> Job]
  BY CampaignTypes DEF Campaign!OpenPrizeClaims, Campaign!Stamp, CampaignInv
<1>2. /\ campaign' \in Campaign!Row /\ cached' \in Campaign!Row \cup {NoCopy}
      /\ campaign.finalized => campaign'.finalized
  BY <1>1 DEF Campaign!OpenPrizeClaims, Campaign!Stamp, Campaign!Row
<1>3. Frozen
  BY <1>1, <1>2 DEF Frozen
<1>4. CreditsOnce' /\ Campaign!TiersEarned' /\ \A u \in Users : PrizeRight(u)'
  BY <1>1, <1>3, CreditsStay, PrizeStays DEF CampaignInv
<1>5. CASE Campaign!OpenPrizeClaims
  <2>1. job' = job
    BY <1>5 DEF Campaign!OpenPrizeClaims
  <2>2. Campaign!CampaignTypeOK'
    BY <1>1, <1>2, <2>1 DEF CampaignInv, Campaign!CampaignTypeOK
  <2> QED
    BY <1>3, <1>4, <2>1, <2>2, CampaignMoves
<1>6. CASE \E r \in Requests : Campaign!Stamp(r)
  <2>1. PICK r \in Requests : Campaign!Stamp(r)
    BY <1>6
  <2> DEFINE j == [job[r] EXCEPT !.at = "read"]
  <2> job[r] \in Job
    BY <1>1
  <2>2. j \in Job /\ j.at = "read" /\ j.next = job[r].next /\ job' = [job EXCEPT ![r] = j]
    <3>1. j \in Job /\ j.at = "read" /\ j.next = job[r].next
      BY DEF Job, Campaign!Places
    <3>2. job' = [job EXCEPT ![r] = j]
      BY <2>1 DEF Campaign!Stamp, Campaign!Goto
    <3> QED
      BY <3>1, <3>2
  <2>3. campaign'.finalized /\ job[r].next = 0
    BY <1>1, <2>1 DEF Campaign!Stamp, Campaign!At, Campaign!Row, CampaignInv, JobRight
  <2> HIDE DEF j
  <2>4. job' \in [Requests -> Job] /\ job'[r] = j
    BY <1>1, <2>2
  <2>5. Campaign!CampaignTypeOK'
    BY <1>1, <1>2, <2>4 DEF CampaignInv, Campaign!CampaignTypeOK, Job
  <2>6. JobRight(job[r])'
    BY <2>2, <2>3, <2>4 DEF JobRight
  <2>7. \A s \in Requests : job'[s] = job[s] \/ JobRight(job[s])'
    BY <1>1, <2>2, <2>6
  <2> QED
    BY <1>3, <1>4, <2>5, <2>7, CampaignMoves
<1> QED
  BY <1>5, <1>6

\* A winner is given his prize.
LEMMA AddPrizeKeeps ==
  ASSUME CampaignInv, NEW r \in Requests, Campaign!AddPrize(r)
  PROVE  CampaignInv'
<1>1. /\ job \in [Requests -> Job] /\ job[r] \in Job /\ JobRight(job[r])
      /\ prizes \in [Users -> PrizeRow]
      /\ UNCHANGED <<campaign, cached, credits, verified, tierClaims, prizeEvents, prizePoints, releases, late,
                     campaignFaults>>
  BY CampaignTypes DEF Campaign!AddPrize, CampaignInv
<1>2. PICK k \in Nat : k = job[r].next
  BY <1>1 DEF Job
<1>3. /\ job[r].at = "rank" /\ job[r].board \in Seq(Users) /\ Len(job[r].board) \in Nat
      /\ k >= 1 /\ k <= Len(job[r].board) /\ Len(job[r].board) <= Prizes /\ campaign.finalized
      /\ ~late => OfBoard(job[r].board)
      /\ \A i \in 1 .. k - 1 : i \in job[r].missed \/ Given(job[r].board[i])
  BY <1>1, <1>2 DEF Campaign!AddPrize, Campaign!At, Campaign!More, Job, JobRight
<1>4. k \in DOMAIN job[r].board /\ k \in 0 .. Prizes
  <2>1. Prizes \in Nat
    BY AccountsAssumption DEF Campaign!CampaignAssumption
  <2> QED
    BY <1>2, <1>3, <2>1
<1>5. PICK w \in Users : w = job[r].board[k]
  BY <1>3, <1>4
<1>6. \/ Given(w) /\ job' = [job EXCEPT ![r].at = "rank", ![r].next = @ + 1] /\ UNCHANGED prizes
      \/ /\ ~Given(w) /\ job' = [job EXCEPT ![r].at = "award"]
         /\ prizes' = [prizes EXCEPT ![w] = [rank |-> k, status |-> "awaiting_claim"]]
  BY <1>2, <1>5 DEF Campaign!AddPrize, Campaign!Winner, Campaign!Onward, Campaign!Goto, Given
<1>7. CASE Given(w) /\ job' = [job EXCEPT ![r].at = "rank", ![r].next = @ + 1] /\ UNCHANGED prizes
  <2>1. PICK j \in Job : /\ job' = [job EXCEPT ![r] = j] /\ j.at = "rank" /\ j.next = k + 1
                         /\ j.missed = job[r].missed /\ j.board = job[r].board
    <3> DEFINE n == k + 1
               v == [job[r] EXCEPT !.at = "rank", !.next = n]
    <3>1. n \in Nat
      OBVIOUS
    <3>2. job' = [job EXCEPT ![r] = v]
      BY <1>1, <1>2, <1>7
    <3> HIDE DEF n
    <3>3. v \in Job /\ v.at = "rank" /\ v.next = n /\ v.missed = job[r].missed
          /\ v.board = job[r].board
      BY <1>1, <3>1 DEF Job, Campaign!Places
    <3> QED
      BY <3>2, <3>3 DEF n
  <2>2. \A i \in 1 .. j.next - 1 : i \in j.missed \/ Given(j.board[i])
    BY <1>2, <1>3, <1>5, <1>7, <2>1
  <2>3. JobRight(j)
    BY <1>2, <1>3, <2>1, <2>2 DEF JobRight
  <2>4. Quiet(r, j)
    BY <1>1, <1>7, <2>1, CampaignBasics DEF Quiet
  <2> QED
    BY <2>1, <2>3, <2>4, QuietKeepsAll
<1>8. CASE /\ ~Given(w) /\ job' = [job EXCEPT ![r].at = "award"]
           /\ prizes' = [prizes EXCEPT ![w] = [rank |-> k, status |-> "awaiting_claim"]]
  <2>1. PICK j \in Job : /\ job' = [job EXCEPT ![r] = j] /\ j.at = "award" /\ j.next = k
                         /\ j.missed = job[r].missed /\ j.board = job[r].board
    <3> DEFINE v == [job[r] EXCEPT !.at = "award"]
    <3>1. job' = [job EXCEPT ![r] = v]
      BY <1>8
    <3>2. v \in Job /\ v.at = "award" /\ v.next = k /\ v.missed = job[r].missed
          /\ v.board = job[r].board
      BY <1>1, <1>2 DEF Job, Campaign!Places
    <3> QED
      BY <3>1, <3>2
  <2>2. PICK p \in PrizeRow : /\ p.rank = k /\ p.status = "awaiting_claim"
                              /\ prizes' = [prizes EXCEPT ![w] = p]
    BY <1>4, <1>8 DEF PrizeRow
  <2>3. /\ prizes' \in [Users -> PrizeRow] /\ prizes'[w] = p
        /\ \A u \in Users : u # w => prizes'[u] = prizes[u]
        /\ job' \in [Requests -> Job] /\ job'[r] = j
        /\ \A s \in Requests : s # r => job'[s] = job[s]
    BY <1>1, <1>5, <2>1, <2>2
  <2>4. Campaign!CampaignTypeOK'
    BY <1>1, <2>3 DEF CampaignInv, Campaign!CampaignTypeOK, PrizeRow, Job
  <2>5. Frozen
    BY <1>1, <1>8, <2>3 DEF Frozen, Given
  <2>6. CreditsOnce' /\ Campaign!TiersEarned'
    BY <1>1, CreditsStay DEF CampaignInv
  <2>7. Campaign!Board' = Campaign!Board
    BY <1>1, BoardStays
  <2>8. PrizeRight(w)'
    <3>1. releases[w] = 0
      BY <1>5, <1>8 DEF CampaignInv, PrizeRight
    <3>2. ~late => k \in DOMAIN Campaign!Board /\ Campaign!Board[k] = w
      BY <1>3, <1>4, <1>5 DEF OfBoard
    <3>3. k # 0 /\ campaign'.finalized
      BY <1>1, <1>3
    <3>4. /\ releases'[w] = 0 /\ prizes'[w].rank = k
          /\ prizes'[w].status = "awaiting_claim"
          /\ ~late' => k \in DOMAIN Campaign!Board' /\ Campaign!Board'[k] = w
      BY <1>1, <2>2, <2>3, <2>7, <3>1, <3>2
    <3> HIDE <2>7
    <3> QED
      BY <3>3, <3>4 DEF PrizeRight, Given
  <2>9. \A u \in Users : PrizeRight(u)'
    BY <1>1, <2>3, <2>5, <2>8, PrizeStays DEF CampaignInv
  <2>10. JobRight(j)'
    <3>1. \A u \in Users : Given(u) => Given(u)'
      BY <2>5 DEF Frozen, Given
    <3>2. Given(w)'
      BY <1>3, <2>2, <2>3 DEF Given
    <3>3. \A i \in 1 .. k - 1 : i \in j.missed \/ Given(j.board[i])'
      <4> SUFFICES ASSUME NEW i \in 1 .. k - 1 PROVE i \in j.missed \/ Given(j.board[i])'
        OBVIOUS
      <4>1. j.board[i] \in Users /\ (i \in j.missed \/ Given(j.board[i]))
        BY <1>2, <1>3, <2>1
      <4> QED
        BY <3>1, <4>1
    <3>4. ~late' => OfBoard(j.board)'
      BY <1>1, <1>3, <2>1, <2>7 DEF OfBoard
    <3>5. Given(j.board[j.next])'
      BY <1>5, <2>1, <3>2
    <3> QED
      BY <1>1, <1>2, <1>3, <2>1, <3>3, <3>4, <3>5 DEF JobRight
  <2>11. \A s \in Requests : job'[s] = job[s] \/ JobRight(job[s])'
    BY <2>3, <2>10 DEF JobRight
  <2> QED
    BY <2>4, <2>5, <2>6, <2>9, <2>11, CampaignMoves
<1> QED
  BY <1>6, <1>7, <1>8

\* A prize that was awaiting its claim has never been released.
LEMMA LetKeeps ==
  ASSUME CampaignInv, NEW u \in Users, job' \in [Requests -> Job],
         UNCHANGED <<campaign, cached, credits, verified, late, campaignFaults>>,
         \A r \in Requests : job'[r] = job[r] \/ JobRight(job[r])',
         \/ Campaign!Awaiting(u) /\ Campaign!Let(u)
         \/ UNCHANGED <<tierClaims, prizes, prizeEvents, prizePoints, releases>>
  PROVE  CampaignInv'
<1>1. /\ prizes \in [Users -> PrizeRow] /\ releases \in [Users -> Nat]
      /\ UNCHANGED <<tierClaims, prizeEvents, prizePoints>>
  BY CampaignTypes DEF CampaignInv, Campaign!Let
<1>2. CreditsOnce' /\ Campaign!TiersEarned' /\ Campaign!Board' = Campaign!Board
  BY <1>1, CreditsStay, BoardStays DEF CampaignInv
<1>3. CASE Campaign!Awaiting(u) /\ Campaign!Let(u)
  <2>1. releases[u] = 0 /\ Given(u)
    BY <1>3 DEF Campaign!Awaiting, CampaignInv, PrizeRight
  <2>2. PICK p \in PrizeRow : /\ p.rank = prizes[u].rank /\ p.status = "pending_payout"
                              /\ prizes' = [prizes EXCEPT ![u] = p]
    <3> DEFINE v == [prizes[u] EXCEPT !.status = "pending_payout"]
    <3>1. v \in PrizeRow /\ v.rank = prizes[u].rank /\ v.status = "pending_payout"
      BY <1>1 DEF PrizeRow
    <3>2. prizes' = [prizes EXCEPT ![u] = v]
      BY <1>3 DEF Campaign!Let
    <3> QED
      BY <3>1, <3>2
  <2>3. releases' = [releases EXCEPT ![u] = 1]
    BY <1>1, <1>3, <2>1 DEF Campaign!Let
  <2>4. /\ prizes' \in [Users -> PrizeRow] /\ prizes'[u] = p
        /\ releases' \in [Users -> Nat] /\ releases'[u] = 1
        /\ \A w \in Users : w # u => prizes'[w] = prizes[w] /\ releases'[w] = releases[w]
    BY <1>1, <2>2, <2>3
  <2>5. Campaign!CampaignTypeOK'
    BY <1>1, <2>4 DEF CampaignInv, Campaign!CampaignTypeOK, PrizeRow, Job
  <2>6. Frozen
    BY <2>2, <2>4 DEF Frozen
  <2>7. PrizeRight(u)'
    <3>1. PrizeRight(u)
      BY DEF CampaignInv
    <3> QED
      BY <1>1, <1>2, <2>1, <2>2, <2>4, <3>1 DEF PrizeRight, Given
  <2>8. \A w \in Users : PrizeRight(w)'
    BY <1>1, <2>4, <2>6, <2>7, PrizeStays DEF CampaignInv
  <2> QED
    BY <1>2, <2>5, <2>6, <2>8, CampaignMoves
<1>4. CASE UNCHANGED <<tierClaims, prizes, prizeEvents, prizePoints, releases>>
  <2>1. Campaign!CampaignTypeOK'
    BY <1>4 DEF CampaignInv, Campaign!CampaignTypeOK, Job
  <2>2. Frozen
    BY <1>4 DEF Frozen
  <2> QED
    BY <1>2, <1>4, <2>1, <2>2, PrizeStays, CampaignMoves DEF CampaignInv
<1> QED
  BY <1>3, <1>4

\* A winner's points are given, or his prize is released.
LEMMA GrantKeeps ==
  ASSUME CampaignInv, NEW r \in Requests, Campaign!Grant(r) \/ Campaign!Release(r)
  PROVE  CampaignInv'
<1>1. /\ job \in [Requests -> Job] /\ job[r] \in Job /\ JobRight(job[r])
      /\ prizes \in [Users -> PrizeRow] /\ prizePoints \in [Users -> Nat]
      /\ releases \in [Users -> Nat]
      /\ UNCHANGED <<campaign, cached, credits, verified, tierClaims, late, campaignFaults>>
  BY CampaignTypes DEF Campaign!Grant, Campaign!Release, Campaign!Let, Campaign!claimRows,
     CampaignInv
<1>2. CreditsOnce' /\ Campaign!TiersEarned' /\ Campaign!Board' = Campaign!Board
  BY <1>1, CreditsStay, BoardStays DEF CampaignInv
<1>3. CASE Campaign!Grant(r)
  <2>1. PICK k \in Nat : k = job[r].next
    BY <1>1 DEF Job
  <2>2. /\ job[r].at = "grant" /\ job[r].board \in Seq(Users) /\ Len(job[r].board) \in Nat
        /\ k >= 1 /\ k <= Len(job[r].board) /\ Len(job[r].board) <= Prizes /\ campaign.finalized
        /\ ~late => OfBoard(job[r].board)
        /\ \A i \in 1 .. k - 1 : i \in job[r].missed \/ Given(job[r].board[i])
    BY <1>1, <1>3, <2>1 DEF Campaign!Grant, Campaign!At, Job, JobRight
  <2>3. PICK w \in Users : w = job[r].board[k] /\ Given(w)
    BY <1>1, <2>1, <2>2 DEF JobRight
  <2>4. PICK j \in Job : /\ job' = [job EXCEPT ![r] = j] /\ j.at = "rank" /\ j.next = k + 1
                         /\ j.missed = job[r].missed /\ j.board = job[r].board
    <3> DEFINE n == k + 1
               v == [job[r] EXCEPT !.at = "rank", !.next = n]
    <3>1. n \in Nat
      OBVIOUS
    <3>2. job' = [job EXCEPT ![r] = v]
      BY <1>1, <1>3, <2>1 DEF Campaign!Grant, Campaign!Onward
    <3> HIDE DEF n
    <3>3. v \in Job /\ v.at = "rank" /\ v.next = n /\ v.missed = job[r].missed
          /\ v.board = job[r].board
      BY <1>1, <3>1 DEF Job, Campaign!Places
    <3> QED
      BY <3>2, <3>3 DEF n
  <2>5. PICK m \in Nat : prizePoints' = [prizePoints EXCEPT ![w] = m]
    <3> DEFINE n == prizePoints[w] + 1
    <3>1. prizePoints' = [prizePoints EXCEPT ![w] = prizePoints[w] + 1]
      BY <1>3, <2>1, <2>3 DEF Campaign!Grant, Campaign!Winner
    <3>2. n \in Nat
      BY <1>1, <2>3
    <3> HIDE DEF n
    <3> QED
      BY <3>1, <3>2 DEF n
  <2>6. /\ UNCHANGED <<prizes, releases>>
        /\ prizePoints' \in [Users -> Nat] /\ prizeEvents' \subseteq Users
        /\ job' \in [Requests -> Job] /\ job'[r] = j
        /\ \A s \in Requests : s # r => job'[s] = job[s]
    <3>1. prizeEvents \subseteq Users /\ Campaign!Winner(r) \in Users
      BY <2>1, <2>3, CampaignTypes DEF CampaignInv, Campaign!Winner
    <3>2. prizeEvents' \subseteq Users
      BY <1>3, <3>1 DEF Campaign!Grant
    <3> QED
      BY <1>1, <1>3, <2>3, <2>4, <2>5, <3>2, ZenonT(30) DEF Campaign!Grant
  <2>7. Campaign!CampaignTypeOK'
    BY <1>1, <2>6, SMTT(30) DEF CampaignInv, Campaign!CampaignTypeOK, Job
  <2>8. Frozen
    BY <1>1, <2>6 DEF Frozen
  <2>9. PrizeRight(w)'
    <3>1. Campaign!Board' = Campaign!Board /\ PrizeRight(w)
      BY <1>2, <2>3 DEF CampaignInv
    <3> QED
      BY <1>1, <2>5, <2>6, <3>1 DEF PrizeRight, Given
  <2>10. \A u \in Users : PrizeRight(u)'
    BY <2>6, <2>8, <2>9, PrizeStays DEF CampaignInv
  <2>11. JobRight(j)
    <3>1. \A i \in 1 .. j.next - 1 : i \in j.missed \/ Given(j.board[i])
      BY <2>1, <2>2, <2>3, <2>4
    <3> QED
      BY <2>1, <2>2, <2>4, <3>1 DEF JobRight
  <2>12. JobRight(j)'
    BY <1>1, <2>8, <2>11, JobStays
  <2>13. \A s \in Requests : job'[s] = job[s] \/ JobRight(job[s])'
    BY <2>6, <2>12 DEF JobRight
  <2> QED
    BY <1>2, <2>7, <2>8, <2>10, <2>13, CampaignMoves
<1>4. CASE Campaign!Release(r)
  <2>1. /\ job' = [job EXCEPT ![r] = Campaign!Resting] /\ job[r].user \in Users
    BY <1>1, <1>4 DEF Campaign!Release, Campaign!Rest, Campaign!At, JobRight
  <2>2. job' \in [Requests -> Job]
    BY <1>1, <2>1, RestingPlain
  <2>3. \A s \in Requests : job'[s] = job[s] \/ JobRight(job[s])'
    <3> SUFFICES JobRight(job[r])'
      BY <1>1, <2>1
    <3>1. job'[r] = Campaign!Resting
      BY <1>1, <2>1
    <3> QED
      BY <3>1 DEF JobRight, Campaign!Resting
  <2> QED
    BY <1>1, <1>4, <2>1, <2>2, <2>3, LetKeeps DEF Campaign!Release, Campaign!claimRows
<1> QED
  BY <1>3, <1>4

LEMMA ApproveClaimsKeeps ==
  ASSUME CampaignInv, NEW u \in Users, Campaign!ApproveClaims(u)
  PROVE  CampaignInv'
<1>1. job \in [Requests -> Job]
  BY CampaignTypes DEF CampaignInv
<1> QED
  BY <1>1, LetKeeps DEF Campaign!ApproveClaims

LEMMA CampaignStepsKeep == CampaignInv /\ [Campaign!CampaignNext]_campaignState => CampaignInv'
<1> SUFFICES ASSUME CampaignInv, [Campaign!CampaignNext]_campaignState PROVE CampaignInv'
  OBVIOUS
<1>1. CASE Campaign!CampaignNext
  <2>1. CASE \E r \in Requests : Campaign!Stamp(r)
    BY <2>1, StampKeeps
  <2>2. CASE \E r \in Requests :
                 \/ \E h \in Hashes : \/ Campaign!BeginEnqueue(r, h) \/ Campaign!BeginVerify(r, h)
                                      \/ Campaign!RequeueCredit(r, h)
                 \/ Campaign!InsertCredit(r)
    BY <2>2, EnqueueKeeps
  <2>3. CASE \E r \in Requests :
                 \/ Campaign!ClaimCredit(r) \/ Campaign!Unresolved(r) \/ Campaign!Resolve(r)
                 \/ Campaign!RejectCredit(r) \/ Campaign!EndFinalize(r) \/ Campaign!Dies(r)
    BY <2>3, VerifyKeeps
  <2>4. CASE \E r \in Requests :
                 \/ Campaign!BeginFinalize(r) \/ Campaign!ReadBoard(r) \/ Campaign!AddPrizeFails(r)
                 \/ Campaign!AwardFails(r) \/ Campaign!Award(r)
                 \/ \E u \in Users : Campaign!BeginRelease(r, u)
    BY <2>4, PassKeeps
  <2>5. CASE \E r \in Requests : Campaign!Grant(r) \/ Campaign!Release(r)
    BY <2>5, GrantKeeps
  <2>6. CASE \E r \in Requests : Campaign!Save(r)
    BY <2>6, VerifiedKeeps
  <2>7. CASE \E r \in Requests : Campaign!AddPrize(r)
    BY <2>7, AddPrizeKeeps
  <2>8. CASE \/ Campaign!OpenPrizeClaims \/ Campaign!Expire
             \/ \E h \in Hashes : Campaign!RetryDue(h)
             \/ \E u \in Users : \/ Campaign!ApproveClaims(u)
                                 \/ \E t \in Tiers : Campaign!ClaimTier(u, t)
    BY <2>8, StampKeeps, WaitingKeeps, ApproveClaimsKeeps, ClaimTierKeeps
  <2> QED
    BY <1>1, <2>1, <2>2, <2>3, <2>4, <2>5, <2>6, <2>7, <2>8 DEF Campaign!CampaignNext
<1>2. CASE UNCHANGED campaignState
  <2>1. UNCHANGED <<campaign, cached, credits, verified, tierClaims, prizes, prizeEvents, prizePoints, releases,
                    job, late, campaignFaults>>
    BY <1>2 DEF campaignState
  <2>2. Campaign!CampaignTypeOK'
    BY <2>1 DEF CampaignInv, Campaign!CampaignTypeOK
  <2>3. Frozen
    BY <2>1 DEF Frozen
  <2> QED
    BY <2>1, <2>2, <2>3, CreditsStay, PrizeStays, CampaignMoves DEF CampaignInv
<1> QED
  BY <1>1, <1>2

LEMMA CampaignStartsRight == Campaign!CampaignInit => CampaignInv
<1> SUFFICES ASSUME Campaign!CampaignInit PROVE CampaignInv
  OBVIOUS
<1>1. PICK done \in SUBSET Hashes : Campaign!Creditable(done) /\ Campaign!LiveInit(done)
  BY DEF Campaign!CampaignInit
<1> USE <1>1 DEF Campaign!LiveInit
<1>2. verified \in Campaign!SetToSeqs(done)
  OBVIOUS
<1>3. /\ verified \in [1 .. Campaign!Cardinality(done) -> done]
      /\ \A i, j \in 1 .. Campaign!Cardinality(done) : i # j => verified[i] # verified[j]
  BY <1>2 DEF Campaign!SetToSeqs
<1>4. Campaign!Cardinality(done) \in Nat
  <2>1. Campaign!IsFiniteSet(Hashes)
    BY AccountsAssumption DEF Campaign!CampaignAssumption
  <2>2. IsFiniteSet(Hashes)
    BY <2>1 DEF Campaign!IsFiniteSet, IsFiniteSet
  <2>3. IsFiniteSet(done)
    BY <2>2, FS_Subset
  <2> QED
    BY <2>3, FS_CardinalityType DEF Campaign!Cardinality, Cardinality
<1>5. verified \in Seq(Hashes)
  BY <1>3, <1>4
<1>6. CreditsOnce
  <2> SUFFICES ASSUME NEW i \in DOMAIN verified
               PROVE  /\ Sweep[verified[i]] \in Campaign!Execution
                      /\ \A j \in DOMAIN verified : Sweep[verified[i]] = Sweep[verified[j]] => i = j
    BY DEF CreditsOnce
  <2>1. \A j \in DOMAIN verified : verified[j] \in done /\ (i # j => verified[i] # verified[j])
    BY <1>3
  <2>2. Sweep \in [Hashes -> Campaign!Execution \cup {NoSweep}]
    BY AccountsAssumption DEF Campaign!CampaignAssumption
  <2> QED
    BY <2>1, <2>2 DEF Campaign!Creditable
<1>7. Campaign!CampaignTypeOK
  <2>1. 0 \in 0 .. MaxFaults /\ 0 \in 0 .. Prizes
    BY AccountsAssumption DEF Campaign!CampaignAssumption
  <2>2. job \in [Requests -> Job]
    BY RestingPlain
  <2> QED
    BY <1>5, <2>1, <2>2, CampaignTypes DEF Campaign!Row, Credit, PrizeRow
<1>8. Campaign!TiersEarned
  BY DEF Campaign!TiersEarned
<1>9. \A r \in Requests : JobRight(job[r])
  BY RestingPlain, PlainRight
<1>10. \A u \in Users : PrizeRight(u)
  BY DEF PrizeRight, Given
<1> QED
  BY <1>6, <1>7, <1>8, <1>9, <1>10 DEF CampaignInv

LEMMA CampaignGoesOn ==
  [AccountsNext]_accountsVars => [Campaign!CampaignNext]_campaignState
  BY DEF AccountsNext, accountsVars, PointsRun, ReferralsRun, LinksRun, QuestsRun, PayoutsRun,
     CampaignRun

LEMMA CampaignInvAlways == AccountsSpec => []CampaignInv
<1>1. AccountsInit => CampaignInv
  BY CampaignStartsRight DEF AccountsInit
<1> QED
  BY <1>1, CampaignStepsKeep, CampaignGoesOn, PTL DEF AccountsSpec

\* A prize is at the rank that its winner has in the frozen standings, in whatever order
\* passes and late credits come: finalizeCampaign freezes the standings before it reads them.
THEOREM PrizesAlwaysFollowBoard == AccountsSpec => []PrizesFollowBoard
<1>1. CampaignInv => PrizesFollowBoard
  BY DEF CampaignInv, PrizeRight, Given, PrizesFollowBoard, Campaign!PrizesFollowBoard
<1> QED
  BY <1>1, CampaignInvAlways, PTL

\* A pass of finalizeCampaign leaves nobody it has gone by without a row, unless the
\* insert failed.
THEOREM NobodyEverStranded == AccountsSpec => []NobodyStranded
<1>1. CampaignInv => NobodyStranded
  BY DEF CampaignInv, JobRight, Given, NobodyStranded, Campaign!NobodyStranded
<1> QED
  BY <1>1, CampaignInvAlways, PTL

-----------------------------------------------------------------------------
\* The points of a prize

Giving(r) == job[r].at \in {"award", "grant"}
GivenTo(r) == job[r].board[job[r].next]

\* A pass that is about to give points is the only one for its winner, who has none.
GivenOnce ==
    /\ \A r \in Requests : Giving(r) => GivenTo(r) \in Users /\ prizePoints[GivenTo(r)] = 0
    /\ \A r, s \in Requests : Giving(r) /\ Giving(s) /\ GivenTo(r) = GivenTo(s) => r = s
    /\ \A u \in Users : prizePoints[u] <= 1 /\ (~Given(u) => prizePoints[u] = 0)

\* Nobody is given points or a row, and no pass turns to a winner.
NothingGiven ==
    /\ prizePoints' = prizePoints /\ \A u \in Users : prizes'[u].rank = prizes[u].rank
    /\ \A s \in Requests : Giving(s)' => Giving(s) /\ GivenTo(s)' = GivenTo(s)

LEMMA GivenOnceStays == ASSUME GivenOnce, NothingGiven PROVE GivenOnce'
  BY DEF GivenOnce, NothingGiven, Given

\* What a request does elsewhere.
Elsewhere(r) ==
    /\ \A s \in Requests : s # r => job'[s] = job[s]
    /\ job'[r].at \notin {"award", "grant"}

LEMMA ElsewhereGivesNothing ==
  ASSUME NEW r \in Requests, Elsewhere(r), prizePoints' = prizePoints,
         \A u \in Users : prizes'[u].rank = prizes[u].rank
  PROVE  NothingGiven
<1>1. ASSUME NEW s \in Requests, Giving(s)' PROVE Giving(s) /\ GivenTo(s)' = GivenTo(s)
  BY <1>1 DEF Elsewhere, Giving, GivenTo
<1> QED
  BY <1>1 DEF NothingGiven

LEMMA LetMovesNoRank ==
  ASSUME CampaignInv, NEW u \in Users, Campaign!Let(u)
  PROVE  prizePoints' = prizePoints /\ \A w \in Users : prizes'[w].rank = prizes[w].rank
<1>1. prizes \in [Users -> PrizeRow]
  BY CampaignTypes DEF CampaignInv
<1> QED
  BY <1>1 DEF Campaign!Let, PrizeRow

LEMMA CreditsGiveNothing ==
  ASSUME CampaignInv, NEW r \in Requests,
         \/ \E h \in Hashes : Campaign!BeginEnqueue(r, h) \/ Campaign!BeginVerify(r, h)
                              \/ Campaign!RequeueCredit(r, h)
         \/ Campaign!InsertCredit(r) \/ Campaign!ClaimCredit(r) \/ Campaign!Unresolved(r)
         \/ Campaign!Resolve(r) \/ Campaign!Save(r) \/ Campaign!RejectCredit(r)
  PROVE  NothingGiven
<1>1. job \in [Requests -> Job]
  BY CampaignTypes DEF CampaignInv
<1> USE <1>1 DEF Elsewhere, Campaign!Goto, Campaign!Rest, Campaign!Resting,
        Campaign!claimRows, Job
<1>2. ASSUME \E h \in Hashes : Campaign!BeginEnqueue(r, h) \/ Campaign!BeginVerify(r, h)
                              \/ Campaign!RequeueCredit(r, h)
      PROVE  Elsewhere(r) /\ prizePoints' = prizePoints /\ prizes' = prizes
  BY <1>2 DEF Campaign!BeginEnqueue, Campaign!BeginVerify, Campaign!RequeueCredit
<1>3. ASSUME Campaign!InsertCredit(r)
      PROVE  Elsewhere(r) /\ prizePoints' = prizePoints /\ prizes' = prizes
  BY <1>3 DEF Campaign!InsertCredit
<1>4. ASSUME Campaign!ClaimCredit(r)
      PROVE  Elsewhere(r) /\ prizePoints' = prizePoints /\ prizes' = prizes
  BY <1>4 DEF Campaign!ClaimCredit
<1>5. ASSUME Campaign!Unresolved(r) \/ Campaign!Resolve(r)
      PROVE  Elsewhere(r) /\ prizePoints' = prizePoints /\ prizes' = prizes
  BY <1>5 DEF Campaign!Unresolved, Campaign!Resolve
<1>6. ASSUME Campaign!Save(r) \/ Campaign!RejectCredit(r)
      PROVE  Elsewhere(r) /\ prizePoints' = prizePoints /\ prizes' = prizes
  BY <1>6 DEF Campaign!Save, Campaign!RejectCredit
<1> QED
  BY <1>2, <1>3, <1>4, <1>5, <1>6, ElsewhereGivesNothing

LEMMA PassGivesNothing ==
  ASSUME CampaignInv, NEW r \in Requests,
         \/ Campaign!BeginFinalize(r) \/ Campaign!Stamp(r) \/ Campaign!ReadBoard(r)
         \/ Campaign!AddPrizeFails(r) \/ Campaign!AwardFails(r) \/ Campaign!EndFinalize(r)
         \/ Campaign!Dies(r) \/ Campaign!Release(r)
         \/ \E u \in Users : Campaign!BeginRelease(r, u)
  PROVE  NothingGiven
<1>1. job \in [Requests -> Job] /\ JobRight(job[r])
  BY CampaignTypes DEF CampaignInv
<1> USE <1>1 DEF Elsewhere, Campaign!Goto, Campaign!Rest, Campaign!Resting,
        Campaign!claimRows, Job
<1>2. ASSUME Campaign!BeginFinalize(r) \/ Campaign!Stamp(r) \/ Campaign!ReadBoard(r)
      PROVE  Elsewhere(r) /\ prizePoints' = prizePoints /\ prizes' = prizes
  BY <1>2 DEF Campaign!BeginFinalize, Campaign!Stamp, Campaign!ReadBoard
<1>3. ASSUME Campaign!AddPrizeFails(r) \/ Campaign!AwardFails(r)
      PROVE  Elsewhere(r) /\ prizePoints' = prizePoints /\ prizes' = prizes
  BY <1>3 DEF Campaign!AddPrizeFails, Campaign!AwardFails, Campaign!Onward, Campaign!At
<1>4. ASSUME Campaign!EndFinalize(r) \/ Campaign!Dies(r)
      PROVE  Elsewhere(r) /\ prizePoints' = prizePoints /\ prizes' = prizes
  BY <1>4 DEF Campaign!EndFinalize, Campaign!Dies
<1>5. ASSUME \E u \in Users : Campaign!BeginRelease(r, u)
      PROVE  Elsewhere(r) /\ prizePoints' = prizePoints /\ prizes' = prizes
  <2>1. PICK u \in Users : Campaign!BeginRelease(r, u)
    BY <1>5
  <2>2. job' = [job EXCEPT ![r] = [job[r] EXCEPT !.at = "release", !.user = u]]
    BY <2>1 DEF Campaign!BeginRelease
  <2>3. job'[r].at = "release" /\ \A s \in Requests : s # r => job'[s] = job[s]
    BY <2>2
  <2> QED
    BY <2>1, <2>3 DEF Campaign!BeginRelease
<1>6. CASE Campaign!Release(r)
  <2>1. job[r].user \in Users /\ Elsewhere(r)
    BY <1>6 DEF Campaign!Release, Campaign!At, JobRight
  <2>2. prizePoints' = prizePoints /\ \A u \in Users : prizes'[u].rank = prizes[u].rank
    BY <1>6, <2>1, LetMovesNoRank DEF Campaign!Release
  <2> QED
    BY <2>1, <2>2, ElsewhereGivesNothing
<1> QED
  BY <1>2, <1>3, <1>4, <1>5, <1>6, ElsewhereGivesNothing

\* The event is looked for: the pass gives points to the winner it has added, or goes on.
LEMMA LookGivesNothing ==
  ASSUME CampaignInv, NEW r \in Requests, Campaign!Award(r)
  PROVE  NothingGiven
<1>1. job \in [Requests -> Job]
  BY CampaignTypes DEF CampaignInv
<1>2. prizePoints' = prizePoints /\ \A u \in Users : prizes'[u].rank = prizes[u].rank
  BY DEF Campaign!Award, Campaign!claimRows
<1>3. CASE Campaign!Onward(r)
  <2>1. Elsewhere(r)
    BY <1>1, <1>3 DEF Elsewhere, Campaign!Onward, Job
  <2> QED
    BY <1>2, <2>1, ElsewhereGivesNothing
<1>4. CASE Campaign!Goto(r, "grant")
  <2>1. job[r].at = "award" /\ job'[r] = [job[r] EXCEPT !.at = "grant"]
        /\ \A s \in Requests : s # r => job'[s] = job[s]
    BY <1>1, <1>4 DEF Campaign!Award, Campaign!At, Campaign!Goto
  <2>2. job'[r].board = job[r].board /\ job'[r].next = job[r].next
    BY <1>1, <2>1 DEF Job
  <2>3. ASSUME NEW s \in Requests, Giving(s)' PROVE Giving(s) /\ GivenTo(s)' = GivenTo(s)
    BY <2>1, <2>2, <2>3 DEF Giving, GivenTo
  <2> QED
    BY <1>2, <2>3 DEF NothingGiven
<1> QED
  BY <1>3, <1>4 DEF Campaign!Award

LEMMA OthersGiveNothing ==
  ASSUME CampaignInv,
         \/ Campaign!OpenPrizeClaims \/ Campaign!Expire \/ \E h \in Hashes : Campaign!RetryDue(h)
         \/ \E u \in Users : Campaign!ApproveClaims(u) \/ \E t \in Tiers : Campaign!ClaimTier(u, t)
  PROVE  NothingGiven
<1>1. job' = job
  BY DEF Campaign!OpenPrizeClaims, Campaign!Expire, Campaign!RetryDue, Campaign!ApproveClaims,
     Campaign!ClaimTier
<1>2. prizePoints' = prizePoints /\ \A w \in Users : prizes'[w].rank = prizes[w].rank
  BY LetMovesNoRank DEF Campaign!OpenPrizeClaims, Campaign!Expire, Campaign!RetryDue,
     Campaign!ApproveClaims, Campaign!ClaimTier, Campaign!claimRows
<1> QED
  BY <1>1, <1>2 DEF NothingGiven, Giving, GivenTo

\* Whoever a pass gives points to has a row.
LEMMA GivenHaveRows ==
  ASSUME CampaignInv, NEW r \in Requests, Giving(r)
  PROVE  Given(GivenTo(r))
  BY DEF CampaignInv, JobRight, Giving, GivenTo

\* The row is new: nobody else is giving this winner points, and he has none.
LEMMA NewRowGivenOnce ==
  ASSUME CampaignInv, GivenOnce, NEW r \in Requests, Campaign!AddPrize(r)
  PROVE  GivenOnce'
<1>1. /\ job \in [Requests -> Job] /\ prizes \in [Users -> PrizeRow] /\ job[r] \in Job
      /\ JobRight(job[r]) /\ prizePoints' = prizePoints
  BY CampaignTypes DEF CampaignInv, Campaign!AddPrize
<1>2. PICK k \in Nat : k = job[r].next
  BY <1>1 DEF Job
<1>3. job[r].at = "rank" /\ k >= 1 /\ k <= Len(job[r].board) /\ job[r].board \in Seq(Users)
  BY <1>1, <1>2 DEF Campaign!AddPrize, Campaign!At, Campaign!More, Job, JobRight
<1>4. PICK w \in Users : w = job[r].board[k]
  BY <1>2, <1>3
<1>5. \/ Campaign!Onward(r) /\ UNCHANGED prizes
      \/ /\ ~Given(w) /\ job' = [job EXCEPT ![r].at = "award"]
         /\ prizes' = [prizes EXCEPT ![w] = [rank |-> k, status |-> "awaiting_claim"]]
  BY <1>2, <1>4 DEF Campaign!AddPrize, Campaign!Winner, Campaign!Goto, Given
<1>6. CASE Campaign!Onward(r) /\ UNCHANGED prizes
  <2>1. Elsewhere(r)
    BY <1>1, <1>6 DEF Elsewhere, Campaign!Onward, Job
  <2> QED
    BY <1>1, <1>6, <2>1, ElsewhereGivesNothing, GivenOnceStays
<1>7. CASE /\ ~Given(w) /\ job' = [job EXCEPT ![r].at = "award"]
           /\ prizes' = [prizes EXCEPT ![w] = [rank |-> k, status |-> "awaiting_claim"]]
  <2>1. \A s \in Requests : s # r => job'[s] = job[s]
    BY <1>1, <1>7
  <2>2. job'[r].board = job[r].board /\ job'[r].next = k
    BY <1>1, <1>2, <1>7 DEF Job
  <2>3. GivenTo(r)' = w
    BY <1>4, <2>2 DEF GivenTo
  <2>4. ASSUME NEW s \in Requests, s # r, Giving(s)'
        PROVE  /\ Giving(s) /\ GivenTo(s)' = GivenTo(s) /\ GivenTo(s) # w
    <3>1. Giving(s) /\ GivenTo(s)' = GivenTo(s)
      BY <2>1, <2>4 DEF Giving, GivenTo
    <3> QED
      BY <1>7, <3>1, GivenHaveRows
  <2>5. prizePoints[w] = 0
    BY <1>7 DEF GivenOnce
  <2>6. \A s \in Requests : Giving(s)' => GivenTo(s)' \in Users /\ prizePoints'[GivenTo(s)'] = 0
    <3> SUFFICES ASSUME NEW s \in Requests, Giving(s)'
                 PROVE  GivenTo(s)' \in Users /\ prizePoints'[GivenTo(s)'] = 0
      OBVIOUS
    <3>1. CASE s = r
      BY <1>1, <2>3, <2>5, <3>1
    <3>2. CASE s # r
      BY <1>1, <2>4, <3>2 DEF GivenOnce
    <3> QED
      BY <3>1, <3>2
  <2>7. \A s, t \in Requests : Giving(s)' /\ Giving(t)' /\ GivenTo(s)' = GivenTo(t)' => s = t
    <3> SUFFICES ASSUME NEW s \in Requests, NEW t \in Requests, Giving(s)', Giving(t)',
                        GivenTo(s)' = GivenTo(t)'
                 PROVE  s = t
      OBVIOUS
    <3>1. CASE s = r \/ t = r
      BY <2>3, <2>4, <3>1
    <3>2. CASE s # r /\ t # r
      BY <2>4, <3>2 DEF GivenOnce
    <3> QED
      BY <3>1, <3>2
  <2>8. \A u \in Users : prizePoints[u] <= 1 /\ (~Given(u)' => prizePoints[u] = 0)
    <3>1. \A u \in Users : Given(u) => Given(u)'
      BY <1>1, <1>7 DEF Given
    <3> QED
      BY <3>1 DEF GivenOnce
  <2> QED
    BY <1>1, <2>6, <2>7, <2>8 DEF GivenOnce
<1> QED
  BY <1>5, <1>6, <1>7

\* The points are given, and the pass goes on.
LEMMA GrantGivesOnce ==
  ASSUME CampaignInv, GivenOnce, NEW r \in Requests, Campaign!Grant(r)
  PROVE  GivenOnce'
<1>1. /\ job \in [Requests -> Job] /\ prizePoints \in [Users -> Nat] /\ prizes' = prizes
  BY CampaignTypes DEF CampaignInv, Campaign!Grant
<1>2. Giving(r) /\ Elsewhere(r)
  BY <1>1 DEF Campaign!Grant, Campaign!At, Campaign!Onward, Giving, Elsewhere, Job
<1>3. PICK w \in Users : w = GivenTo(r) /\ prizePoints[w] = 0 /\ Given(w)
  BY <1>2, GivenHaveRows DEF GivenOnce
<1>4. prizePoints' = [prizePoints EXCEPT ![w] = prizePoints[w] + 1]
  BY <1>3 DEF Campaign!Grant, Campaign!Winner, GivenTo
<1>5. prizePoints'[w] = 1 /\ \A u \in Users : u # w => prizePoints'[u] = prizePoints[u]
  BY <1>1, <1>3, <1>4
<1>6. ASSUME NEW s \in Requests, Giving(s)'
      PROVE  /\ Giving(s) /\ GivenTo(s)' = GivenTo(s) /\ GivenTo(s) \in Users /\ GivenTo(s) # w
  <2>1. s # r
    BY <1>2, <1>6 DEF Elsewhere, Giving
  <2>2. Giving(s) /\ GivenTo(s)' = GivenTo(s)
    BY <1>2, <1>6, <2>1 DEF Elsewhere, Giving, GivenTo
  <2> QED
    BY <1>2, <1>3, <2>1, <2>2 DEF GivenOnce
<1>7. \A s \in Requests : Giving(s)' => GivenTo(s)' \in Users /\ prizePoints'[GivenTo(s)'] = 0
  BY <1>5, <1>6 DEF GivenOnce
<1>8. \A s, t \in Requests : Giving(s)' /\ Giving(t)' /\ GivenTo(s)' = GivenTo(t)' => s = t
  BY <1>6 DEF GivenOnce
<1>9. \A u \in Users : Given(u)' <=> Given(u)
  BY <1>1 DEF Given
<1>10. \A u \in Users : prizePoints'[u] <= 1 /\ (~Given(u)' => prizePoints'[u] = 0)
  BY <1>3, <1>5, <1>9 DEF GivenOnce
<1> QED
  BY <1>7, <1>8, <1>10 DEF GivenOnce

LEMMA GivenOnceKept ==
  CampaignInv /\ GivenOnce /\ [Campaign!CampaignNext]_campaignState => GivenOnce'
<1> SUFFICES ASSUME CampaignInv, GivenOnce, [Campaign!CampaignNext]_campaignState PROVE GivenOnce'
  OBVIOUS
<1>1. CASE Campaign!CampaignNext
  <2>1. CASE \E r \in Requests :
                 \/ \E h \in Hashes : \/ Campaign!BeginEnqueue(r, h) \/ Campaign!BeginVerify(r, h)
                                      \/ Campaign!RequeueCredit(r, h)
                 \/ Campaign!InsertCredit(r) \/ Campaign!ClaimCredit(r) \/ Campaign!Unresolved(r)
                 \/ Campaign!Resolve(r) \/ Campaign!Save(r) \/ Campaign!RejectCredit(r)
    BY <2>1, CreditsGiveNothing, GivenOnceStays
  <2>2. CASE \E r \in Requests :
                 \/ Campaign!BeginFinalize(r) \/ Campaign!Stamp(r) \/ Campaign!ReadBoard(r)
                 \/ Campaign!AddPrizeFails(r) \/ Campaign!AwardFails(r) \/ Campaign!EndFinalize(r)
                 \/ Campaign!Dies(r) \/ Campaign!Release(r)
                 \/ \E u \in Users : Campaign!BeginRelease(r, u)
    BY <2>2, PassGivesNothing, GivenOnceStays
  <2>3. CASE \/ Campaign!OpenPrizeClaims \/ Campaign!Expire \/ \E h \in Hashes : Campaign!RetryDue(h)
             \/ \E u \in Users : \/ Campaign!ApproveClaims(u)
                                 \/ \E t \in Tiers : Campaign!ClaimTier(u, t)
    BY <2>3, OthersGiveNothing, GivenOnceStays
  <2>4. CASE \E r \in Requests : Campaign!Award(r)
    BY <2>4, LookGivesNothing, GivenOnceStays
  <2>5. CASE \E r \in Requests : Campaign!AddPrize(r)
    BY <2>5, NewRowGivenOnce
  <2>6. CASE \E r \in Requests : Campaign!Grant(r)
    BY <2>6, GrantGivesOnce
  <2> QED
    BY <1>1, <2>1, <2>2, <2>3, <2>4, <2>5, <2>6 DEF Campaign!CampaignNext
<1>2. CASE UNCHANGED campaignState
  <2>1. NothingGiven
    BY <1>2 DEF campaignState, NothingGiven, Giving, GivenTo
  <2> QED
    BY <2>1, GivenOnceStays
<1> QED
  BY <1>1, <1>2

LEMMA GivenOnceAlways == AccountsSpec => []GivenOnce
<1>1. Campaign!CampaignInit => GivenOnce
  <2> SUFFICES ASSUME Campaign!CampaignInit PROVE GivenOnce
    OBVIOUS
  <2>1. PICK done \in SUBSET Hashes : Campaign!LiveInit(done)
    BY DEF Campaign!CampaignInit
  <2> QED
    BY <2>1 DEF Campaign!LiveInit, Campaign!Resting, GivenOnce, Giving
<1>2. AccountsInit => GivenOnce
  BY <1>1 DEF AccountsInit
<1> QED
  BY <1>2, GivenOnceKept, CampaignInvAlways, CampaignGoesOn, PTL DEF AccountsSpec

\* A winner's points are given at most once and his prize is released at most once,
\* whatever passes overlap between looking for the event and inserting it, and whoever
\* releases the prize.
THEOREM PrizesGivenOnce == AccountsSpec => []Campaign!PrizeGivenOnce
<1>1. CampaignInv /\ GivenOnce => Campaign!PrizeGivenOnce
  BY DEF CampaignInv, PrizeRight, GivenOnce, Campaign!PrizeGivenOnce
<1> QED
  BY <1>1, CampaignInvAlways, GivenOnceAlways, PTL

\* A tier takes a volume of different executions, however many hashes they have.
THEOREM TiersAlwaysEarned == AccountsSpec => []Campaign!TiersEarned
  BY CampaignInvAlways, PTL DEF CampaignInv

-----------------------------------------------------------------------------
(***************************************************************************)
(* DailyRewards for any requests, wallets and transactions.                *)
(*                                                                         *)
(* What a request remembers of the users row was backed by the ledger and  *)
(* by the check-ins when it was read, and stays backed, since neither ever *)
(* shrinks (PointRight); what may be done once is reserved for one request *)
(* by the unique key of the row it has inserted (PointApart).              *)
(***************************************************************************)

LEMMA SameCount == ASSUME NEW S PROVE Points!Cardinality(S) = Cardinality(S)
  BY DEF Points!Cardinality, Cardinality

PointRow == [streak : Nat, last : Nat, points : Nat]
PointPlaces == {"idle", "lookup", "verify", "row", "event", "user", "tickets",
                "record", "restoreRow", "restoreUser", "clear",
                "take", "history", "refund", "award", "addEvent", "addUser"}
PointRequest == [kind : {"checkIn", "recover", "reset", "spin", "earn"}, at : PointPlaces,
                 wallet : Wallets, tx : Txs \cup {Nobody}, seen : PointRow, on : Nat, pts : Nat,
                 next : Nat, topped : SUBSET Wallets]
Days == 1 .. MaxDay

LEMMA PointTypes ==
  Points!RewardsTypeOK <=>
    /\ day \in Days /\ minedOn \in [Txs -> Nat] /\ user \in PointRow
    /\ checkIns \in [Days -> Txs \cup {Nobody}]
    /\ recoveries \subseteq Txs /\ spins \in [Txs -> SUBSET Wallets]
    /\ tickets \in [Wallets -> Nat]
    /\ pointEvents \in Nat /\ checkInPay \in [Days -> Nat] /\ spinPay \in [Txs -> Nat]
    /\ unrecorded \in Nat
    /\ restores \in [Txs -> Nat] /\ granted \in [Wallets -> Nat]
    /\ pointReq \in [Requests -> PointRequest]
    /\ pointFaults \in Nat
  BY DEF Points!RewardsTypeOK, Points!Days, Points!User, Points!Request, Points!AllKinds,
     Points!Places, PointRow, PointPlaces, PointRequest, Days

\* The check-ins up to a day, and a streak that they are enough for.
DaysUpTo(l) == {d \in Days : checkIns[d] # Nobody /\ d <= l}
Backed(n, l) == n <= Cardinality(DaysUpTo(l))

LEMMA DaysCounted ==
  ASSUME NEW l
  PROVE  IsFiniteSet(DaysUpTo(l)) /\ Cardinality(DaysUpTo(l)) \in Nat
<1>1. IsFiniteSet(Days)
  BY AccountsAssumption, FS_Interval DEF Points!RewardsAssumption, Days
<1> QED
  BY <1>1, FS_Subset, FS_CardinalityType DEF DaysUpTo

RowsKept == \A d \in Days : checkIns[d] # Nobody => checkIns'[d] # Nobody

LEMMA DaysCountedNext ==
  ASSUME NEW l
  PROVE  IsFiniteSet(DaysUpTo(l)') /\ Cardinality(DaysUpTo(l)') \in Nat
<1>1. IsFiniteSet(Days)
  BY AccountsAssumption, FS_Interval DEF Points!RewardsAssumption, Days
<1>2. DaysUpTo(l)' \in SUBSET Days
  BY DEF DaysUpTo
<1> QED
  BY <1>1, <1>2, FS_Subset, FS_CardinalityType

LEMMA BackedStays ==
  ASSUME RowsKept, NEW n \in Nat, NEW l, Backed(n, l)
  PROVE  Backed(n, l)'
<1>1. DaysUpTo(l) \in SUBSET DaysUpTo(l)'
  BY DEF RowsKept, DaysUpTo
<1>2. Cardinality(DaysUpTo(l)) <= Cardinality(DaysUpTo(l)')
  BY <1>1, DaysCountedNext, FS_Subset
<1> QED
  BY <1>2, DaysCounted, DaysCountedNext DEF Backed

\* One more day with a check-in, after all those that were counted.
LEMMA BackedNext ==
  ASSUME RowsKept, NEW n \in Nat, NEW l \in Nat, Backed(n, l),
         NEW m \in Days, l < m, checkIns'[m] # Nobody
  PROVE  Backed(n + 1, m)'
<1> DEFINE S == DaysUpTo(l)
           T == DaysUpTo(m)'
<1>1. m \notin S /\ S \cup {m} \in SUBSET T
  BY DEF RowsKept, DaysUpTo, Days
<1>2. IsFiniteSet(S) /\ Cardinality(S) \in Nat /\ IsFiniteSet(T) /\ Cardinality(T) \in Nat
  BY DaysCounted, DaysCountedNext
<1>3. n <= Cardinality(S)
  BY DEF Backed
<1> SUFFICES n + 1 <= Cardinality(T)
  BY DEF Backed
<1> HIDE DEF S, T
<1>4. Cardinality(S \cup {m}) = Cardinality(S) + 1
  BY <1>1, <1>2, FS_AddElement
<1>5. Cardinality(S \cup {m}) <= Cardinality(T)
  BY <1>1, <1>2, FS_Subset
<1> QED
  BY <1>2, <1>3, <1>4, <1>5

-----------------------------------------------------------------------------
\* The inductive invariant

\* What a request is doing makes sense.
Placed(q) ==
    /\ q.kind \in {"checkIn", "recover", "spin"} => q.tx \in Txs
    /\ q.at \in {"row", "event", "user", "tickets"} => q.kind = "checkIn"
    /\ q.at \in {"record", "restoreRow", "restoreUser"} => q.kind = "recover"
    /\ q.at \in {"take", "history", "refund"} => q.kind = "spin"
    /\ q.at \in {"award", "addEvent", "addUser"} => q.kind \in {"spin", "earn"}
    /\ q.at \in {"row", "event", "user", "record", "restoreRow", "restoreUser"} => q.on \in Days
    /\ q.kind = "checkIn" /\ q.at \in {"lookup", "verify", "row"}
          => (q.next = 1 \/ (q.next = q.seen.streak + 1 /\ q.seen.last < q.on))
    /\ q.kind = "recover" /\ q.at \in {"lookup", "verify"}
          => q.next = q.seen.streak + 1 /\ q.seen.last + 1 < q.on
    /\ q.at \in {"record", "restoreRow"} => q.next = q.seen.streak + 1 /\ q.seen.last < q.on

\* What it remembers is backed, and what it is about to do it alone may do.
PointRight(q) ==
    /\ Placed(q)
    /\ q.on <= day /\ q.seen.points <= pointEvents + unrecorded
    /\ Backed(q.seen.streak, q.seen.last)
    /\ q.at \in {"user", "addUser"} => q.seen.points + q.pts <= pointEvents + unrecorded
    /\ q.at \in {"event", "user", "restoreUser"} => Backed(q.next, q.on)
    /\ q.at = "event" => checkIns[q.on] # Nobody /\ checkInPay[q.on] = 0
    /\ q.at \in {"restoreRow", "restoreUser"} => q.tx \in recoveries /\ restores[q.tx] = 0
    /\ q.kind = "spin" /\ q.at \in {"award", "addEvent"}
          => spins[q.tx] # {} /\ spinPay[q.tx] = 0

\* Two requests that are about to do the same do not do it for the same.
PointApart(p, q) ==
    /\ p.at = "event" /\ q.at = "event" => p.on # q.on
    /\ p.at \in {"restoreRow", "restoreUser"} /\ q.at \in {"restoreRow", "restoreUser"}
          => p.tx # q.tx
    /\ p.kind = "spin" /\ p.at \in {"award", "addEvent"}
          /\ q.kind = "spin" /\ q.at \in {"award", "addEvent"} => p.tx # q.tx

\* What the tables say.
TablesRight ==
    /\ user.last <= day /\ Backed(user.streak, user.last)
    /\ user.points <= pointEvents + unrecorded
    /\ \A d \in Days : checkInPay[d] = 0 \/ (checkInPay[d] = 1 /\ checkIns[d] # Nobody)
    /\ \A t \in Txs : restores[t] = 0 \/ (restores[t] = 1 /\ t \in recoveries)
    /\ \A t \in Txs : spins[t] = {} \/ \E w \in Wallets : spins[t] = {w}
    /\ \A t \in Txs : spinPay[t] = 0 \/ (spinPay[t] = 1 /\ spins[t] # {})

PointsInv ==
    /\ Points!RewardsTypeOK /\ TablesRight
    /\ \A r \in Requests : PointRight(pointReq[r])
    /\ \A r, s \in Requests : r # s => PointApart(pointReq[r], pointReq[s])

-----------------------------------------------------------------------------
\* Requests that a step leaves alone

\* Nothing that a request may have seen is taken back.
NothingLost ==
    /\ day <= day' /\ pointEvents + unrecorded <= pointEvents' + unrecorded'
    /\ RowsKept /\ recoveries \subseteq recoveries'
    /\ \A t \in Txs : spins[t] # {} => spins'[t] # {}

\* What it is about to do has not been done.
NotYetDone(q) ==
    /\ q.at = "event" => checkInPay'[q.on] = checkInPay[q.on]
    /\ q.at \in {"restoreRow", "restoreUser"} => restores'[q.tx] = restores[q.tx]
    /\ q.kind = "spin" /\ q.at \in {"award", "addEvent"} => spinPay'[q.tx] = spinPay[q.tx]

LEMMA PointStays ==
  ASSUME Points!RewardsTypeOK, Points!RewardsTypeOK', NothingLost,
         NEW q \in PointRequest, PointRight(q), NotYetDone(q)
  PROVE  PointRight(q)'
<1>1. /\ day \in Nat /\ day' \in Nat /\ pointEvents \in Nat /\ pointEvents' \in Nat
      /\ unrecorded \in Nat /\ unrecorded' \in Nat
  BY PointTypes, AccountsAssumption
     DEF Days, Points!RewardsAssumption, Points!RewardsTypeOK, Points!Days
<1>2. /\ q.seen.streak \in Nat /\ q.seen.last \in Nat /\ q.seen.points \in Nat
      /\ q.pts \in Nat /\ q.next \in Nat /\ q.on \in Nat
  BY DEF PointRequest, PointRow
<1>a. /\ day <= day' /\ pointEvents + unrecorded <= pointEvents' + unrecorded'
      /\ q.on <= day /\ q.seen.points <= pointEvents + unrecorded
      /\ q.at \in {"user", "addUser"} => q.seen.points + q.pts <= pointEvents + unrecorded
  BY DEF NothingLost, PointRight
<1>c. PICK e \in Nat : e = pointEvents + unrecorded
  BY <1>1
<1>d. PICK f \in Nat : f = pointEvents' + unrecorded'
  <2>1. PICK g \in Nat : g = pointEvents'
    BY <1>1
  <2>2. PICK h \in Nat : h = unrecorded'
    BY <1>1
  <2>3. g + h \in Nat
    OBVIOUS
  <2> QED
    BY <2>1, <2>2, <2>3
<1>e. e <= f
  BY <1>a, <1>c, <1>d
<1>3. q.on <= day' /\ q.seen.points <= pointEvents' + unrecorded'
  <2>1. q.on <= day'
    BY <1>1, <1>2, <1>a
  <2>2. PICK p \in Nat : p = q.seen.points
    BY <1>2
  <2>3. p <= e
    BY <1>a, <1>c, <2>2
  <2> QED
    BY <1>c, <1>d, <1>e, <2>1, <2>2, <2>3
<1>4. Backed(q.seen.streak, q.seen.last)'
  BY <1>2, BackedStays DEF NothingLost, PointRight
<1>5. q.at \in {"user", "addUser"} => q.seen.points + q.pts <= pointEvents' + unrecorded'
  <2>1. PICK p \in Nat : p = q.seen.points + q.pts
    BY <1>2
  <2>2. q.at \in {"user", "addUser"} => p <= e
    BY <1>a, <1>c, <2>1
  <2> QED
    BY <1>c, <1>d, <1>e, <2>1, <2>2
<1>6. q.at \in {"event", "user", "restoreUser"} => Backed(q.next, q.on)'
  BY <1>2, BackedStays DEF NothingLost, PointRight
<1>7. q.at = "event" => checkIns'[q.on] # Nobody /\ checkInPay'[q.on] = 0
  BY DEF NothingLost, RowsKept, NotYetDone, PointRight, Placed
<1>8. q.at \in {"restoreRow", "restoreUser"} => q.tx \in recoveries' /\ restores'[q.tx] = 0
  BY DEF NothingLost, NotYetDone, PointRight
<1>9. q.kind = "spin" /\ q.at \in {"award", "addEvent"} => spins'[q.tx] # {} /\ spinPay'[q.tx] = 0
  BY DEF NothingLost, NotYetDone, PointRight, Placed
<1> QED
  BY <1>3, <1>4, <1>5, <1>6, <1>7, <1>8, <1>9 DEF PointRight, Placed

\* A step of one request.
LEMMA PointMoves ==
  ASSUME PointsInv, NEW r \in Requests, NEW q \in PointRequest,
         pointReq' = [pointReq EXCEPT ![r] = q],
         Points!RewardsTypeOK', NothingLost, TablesRight', PointRight(q)',
         \A s \in Requests : s # r => NotYetDone(pointReq[s]) /\ PointApart(q, pointReq[s])
                                                             /\ PointApart(pointReq[s], q)
  PROVE  PointsInv'
<1>1. pointReq \in [Requests -> PointRequest]
  BY PointTypes DEF PointsInv
<1>2. pointReq'[r] = q /\ \A s \in Requests : s # r => pointReq'[s] = pointReq[s]
  BY <1>1
<1>3. ASSUME NEW s \in Requests PROVE PointRight(pointReq[s])'
  <2>1. CASE s = r
    BY <1>2, <2>1 DEF PointRight
  <2>2. CASE s # r
    <3>1. PICK p \in PointRequest : p = pointReq[s] /\ PointRight(p) /\ NotYetDone(p)
      BY <1>1, <2>2 DEF PointsInv
    <3>2. PointRight(p)'
      BY <3>1, PointStays DEF PointsInv
    <3> QED
      BY <1>2, <2>2, <3>1, <3>2 DEF PointRight
  <2> QED
    BY <2>1, <2>2
<1>4. ASSUME NEW s \in Requests, NEW u \in Requests, s # u
      PROVE  PointApart(pointReq'[s], pointReq'[u])
  <2>1. CASE s = r
    BY <1>2, <1>4, <2>1
  <2>2. CASE u = r
    BY <1>2, <1>4, <2>2
  <2>3. CASE s # r /\ u # r
    BY <1>2, <1>4, <2>3 DEF PointsInv
  <2> QED
    BY <2>1, <2>2, <2>3
<1> QED
  BY <1>3, <1>4 DEF PointsInv, PointApart

\* A step that writes no table, or tickets only.
LEMMA PointTurn ==
  ASSUME PointsInv, NEW r \in Requests, NEW q \in PointRequest,
         pointReq' = [pointReq EXCEPT ![r] = q],
         UNCHANGED <<day, minedOn, user, checkIns, recoveries, spins, pointEvents, checkInPay,
                     spinPay, unrecorded, restores>>,
         tickets' \in [Wallets -> Nat], granted' \in [Wallets -> Nat], pointFaults' \in Nat,
         PointRight(q),
         \A s \in Requests : s # r => PointApart(q, pointReq[s]) /\ PointApart(pointReq[s], q)
  PROVE  PointsInv'
<1>1. Points!RewardsTypeOK'
  <2>1. pointReq' \in [Requests -> PointRequest]
    BY PointTypes DEF PointsInv
  <2> QED
    BY <2>1, PointTypes DEF PointsInv, Points!RewardsTypeOK, Points!Days, Points!User,
       Points!Request, Points!AllKinds, Points!Places, PointRow, PointPlaces, PointRequest, Days
<1>2. NothingLost
  BY PointTypes, AccountsAssumption DEF PointsInv, NothingLost, RowsKept, Days, Points!RewardsAssumption
<1>3. TablesRight'
  BY DEF PointsInv, TablesRight, Backed, DaysUpTo
<1>4. NotYetDone(q) /\ \A s \in Requests : NotYetDone(pointReq[s])
  BY DEF NotYetDone
<1>5. PointRight(q)'
  BY <1>1, <1>2, <1>4, PointStays DEF PointsInv
<1> QED
  BY <1>1, <1>2, <1>3, <1>4, <1>5, PointMoves

-----------------------------------------------------------------------------
\* The steps that write no table, or tickets only

\* A request that is about to do nothing that may be done once.
Harmless(q) ==
    /\ q.at \notin {"event", "restoreRow", "restoreUser"}
    /\ ~(q.kind = "spin" /\ q.at \in {"award", "addEvent"})

LEMMA HarmlessApart ==
  ASSUME NEW p, NEW q, Harmless(q)
  PROVE  PointApart(p, q) /\ PointApart(q, p)
  BY DEF Harmless, PointApart

LEMMA PointBasics ==
  ASSUME PointsInv, NEW r \in Requests
  PROVE  /\ pointReq \in [Requests -> PointRequest]
         /\ pointReq[r] \in PointRequest /\ PointRight(pointReq[r])
         /\ MaxDay \in Nat /\ day \in Days /\ day \in Nat /\ user \in PointRow
         /\ tickets \in [Wallets -> Nat] /\ granted \in [Wallets -> Nat] /\ pointFaults \in Nat
         /\ pointEvents \in Nat /\ unrecorded \in Nat
         /\ Prize \in Nat /\ Pts \in Nat /\ Cost \in Nat /\ PerCheckIn \in Nat
         /\ Nobody \notin Txs /\ TablesRight
  BY PointTypes, AccountsAssumption DEF PointsInv, Points!RewardsAssumption, Days

LEMMA IdleHarmless ==
  ASSUME PointsInv
  PROVE  Points!Idle \in PointRequest /\ PointRight(Points!Idle) /\ Harmless(Points!Idle)
<1>1. (CHOOSE w \in Wallets : TRUE) \in Wallets
  BY AccountsAssumption DEF Points!RewardsAssumption
<1>2. Points!Idle \in PointRequest
  BY <1>1 DEF Points!Idle, PointRequest, PointPlaces, PointRow
<1>3. Backed(0, 0)
  BY DaysCounted DEF Backed
<1>4. /\ day \in Nat /\ pointEvents \in Nat /\ unrecorded \in Nat
  BY PointTypes, AccountsAssumption DEF PointsInv, Points!RewardsAssumption, Days
<1> QED
  BY <1>2, <1>3, <1>4 DEF Points!Idle, PointRight, Placed, Harmless

TicketsOnly ==
    /\ UNCHANGED <<day, minedOn, user, checkIns, recoveries, spins, pointEvents, checkInPay,
                   spinPay, unrecorded, restores>>
    /\ tickets' \in [Wallets -> Nat] /\ granted' \in [Wallets -> Nat] /\ pointFaults' \in Nat

LEMMA HarmlessTurn ==
  ASSUME PointsInv, TicketsOnly, NEW r \in Requests, NEW q \in PointRequest,
         PointRight(q), Harmless(q), pointReq' = [pointReq EXCEPT ![r] = q]
  PROVE  PointsInv'
  BY HarmlessApart, PointTurn DEF TicketsOnly

LEMMA FinishKeeps ==
  ASSUME PointsInv, TicketsOnly, NEW r \in Requests, Points!Finish(r)
  PROVE  PointsInv'
  BY IdleHarmless, HarmlessTurn DEF Points!Finish

LEMMA BeginsRight ==
  ASSUME PointsInv, NEW r \in Requests, NEW w \in Wallets, NEW tx \in Txs \cup {Nobody},
         NEW kind \in {"checkIn", "recover", "reset", "spin", "earn"},
         Points!Begin(r, kind, w, tx),
         kind \in {"checkIn", "recover", "spin"} => tx \in Txs,
         kind = "checkIn" => ~Points!CheckedInToday(user),
         kind = "recover" => Points!Missed(user)
  PROVE  PointsInv'
<1> USE PointBasics
<1>1. user.streak \in Nat /\ user.last \in Nat /\ user.points \in Nat
      /\ user.last <= day /\ Backed(user.streak, user.last)
      /\ user.points <= pointEvents + unrecorded
  BY DEF PointRow, TablesRight
<1> DEFINE place == IF kind = "earn" THEN "award" ELSE IF kind = "reset" THEN "clear" ELSE "lookup"
           n == IF kind = "recover" THEN user.streak + 1
                ELSE IF Points!Continues(user) THEN user.streak + 1 ELSE 1
           v == [Points!Idle EXCEPT !.kind = kind, !.wallet = w, !.tx = tx, !.seen = user,
                                    !.on = day, !.next = n, !.at = place]
<1>2. pointReq' = [pointReq EXCEPT ![r] = v]
  BY DEF Points!Begin
<1>3. n \in Nat /\ place \in PointPlaces
  BY <1>1 DEF PointPlaces
<1>4. /\ kind = "checkIn" => (n = 1 \/ (n = user.streak + 1 /\ user.last < day))
      /\ kind = "recover" => n = user.streak + 1 /\ user.last + 1 < day
  BY <1>1 DEF Points!CheckedInToday, Points!Missed, Points!Continues, Points!ActiveStreak
<1>5. place \in {"award", "clear", "lookup"} /\ (place = "award" => kind = "earn")
      /\ (place = "clear" => kind = "reset")
  OBVIOUS
<1> HIDE DEF n, place
<1>6. v \in PointRequest /\ v.kind = kind /\ v.tx = tx /\ v.seen = user /\ v.on = day /\ v.next = n
      /\ v.at = place
  BY IdleHarmless, <1>3 DEF PointRequest
<1> HIDE DEF v
<1>7. Placed(v)
  BY <1>4, <1>5, <1>6 DEF Placed
<1>8. PointRight(v) /\ Harmless(v)
  BY <1>1, <1>5, <1>6, <1>7 DEF PointRight, Harmless
<1>9. TicketsOnly
  BY DEF Points!Begin, TicketsOnly, Points!chainVars, Points!tables, Points!pointVars
<1> QED
  BY <1>2, <1>6, <1>8, <1>9, HarmlessTurn

LEMMA BeginPointKeeps ==
  ASSUME PointsInv, NEW r \in Requests, NEW w \in Wallets, NEW t \in Txs,
         Points!BeginCheckIn(r, w, t) \/ Points!BeginRecover(r, w, t) \/ Points!BeginSpin(r, w, t)
  PROVE  PointsInv'
<1>1. CASE Points!BeginCheckIn(r, w, t)
  BY <1>1, BeginsRight DEF Points!BeginCheckIn
<1>2. CASE Points!BeginRecover(r, w, t)
  BY <1>2, BeginsRight DEF Points!BeginRecover
<1>3. CASE Points!BeginSpin(r, w, t)
  BY <1>3, BeginsRight DEF Points!BeginSpin
<1> QED
  BY <1>1, <1>2, <1>3

LEMMA BeginOtherKeeps ==
  ASSUME PointsInv, NEW r \in Requests, NEW w \in Wallets,
         Points!BeginReset(r, w) \/ Points!BeginEarn(r, w)
  PROVE  PointsInv'
  BY BeginsRight DEF Points!BeginReset, Points!BeginEarn

\* A request goes on to another place, with nothing else of it changed.
LEMMA GoesTo ==
  ASSUME PointsInv, NEW r \in Requests, NEW place \in PointPlaces, Points!Goto(r, place)
  PROVE  \E q \in PointRequest :
             /\ pointReq' = [pointReq EXCEPT ![r] = q] /\ q.at = place
             /\ q.kind = pointReq[r].kind /\ q.tx = pointReq[r].tx /\ q.seen = pointReq[r].seen
             /\ q.on = pointReq[r].on /\ q.pts = pointReq[r].pts /\ q.next = pointReq[r].next
             /\ q.wallet = pointReq[r].wallet
<1> DEFINE v == [pointReq[r] EXCEPT !.at = place]
<1>1. v \in PointRequest /\ v.at = place
      /\ v.kind = pointReq[r].kind /\ v.tx = pointReq[r].tx /\ v.seen = pointReq[r].seen
      /\ v.on = pointReq[r].on /\ v.pts = pointReq[r].pts /\ v.next = pointReq[r].next
      /\ v.wallet = pointReq[r].wallet
  BY PointBasics DEF PointRequest
<1>2. pointReq' = [pointReq EXCEPT ![r] = v]
  BY DEF Points!Goto
<1> HIDE DEF v
<1> QED
  BY <1>1, <1>2

LEMMA LookupKeeps ==
  ASSUME PointsInv, NEW r \in Requests,
         \/ Points!CheckInLookup(r) \/ Points!RecoverLookup(r) \/ Points!SpinLookup(r)
         \/ Points!SpinVerify(r) \/ Points!InsertSpinFails(r) \/ Points!TakeTicket(r)
         \/ Points!Interrupted(r) \/ Points!RefundTicket(r)
  PROVE  PointsInv'
<1> USE PointBasics DEF Points!chainVars, Points!tables, Points!pointVars, Points!At
<1>1. TicketsOnly
  <2>1. pointReq[r].wallet \in Wallets
    BY DEF PointRequest
  <2>2. pointFaults' \in Nat /\ granted' = granted
    BY DEF Points!CheckInLookup, Points!RecoverLookup, Points!SpinLookup, Points!SpinVerify,
       Points!InsertSpinFails, Points!TakeTicket, Points!Interrupted, Points!RefundTicket
  <2>3. tickets' \in [Wallets -> Nat]
    <3>1. CASE tickets' = tickets
      BY <3>1
    <3>2. CASE Points!TakeTicket(r) \/ Points!RefundTicket(r)
      <4> DEFINE w == pointReq[r].wallet
      <4>1. PICK n \in Nat : tickets' = tickets \/ tickets' = [tickets EXCEPT ![w] = n]
        <5>1. tickets[w] \in Nat
          BY <2>1
        <5>2. tickets[w] + Cost \in Nat /\ (~(tickets[w] < Cost) => tickets[w] - Cost \in Nat)
          BY <5>1
        <5> QED
          BY <3>2, <5>2 DEF Points!TakeTicket, Points!RefundTicket
      <4> HIDE DEF w
      <4> QED
        BY <4>1
    <3> QED
      BY <3>1, <3>2 DEF Points!CheckInLookup, Points!RecoverLookup, Points!SpinLookup,
         Points!SpinVerify, Points!InsertSpinFails, Points!Interrupted
  <2> QED
    BY <2>2, <2>3 DEF TicketsOnly, Points!CheckInLookup, Points!RecoverLookup, Points!SpinLookup,
       Points!SpinVerify, Points!InsertSpinFails, Points!TakeTicket, Points!Interrupted,
       Points!RefundTicket
<1>2. CASE Points!Finish(r)
  BY <1>1, <1>2, FinishKeeps
<1>3. CASE \E place \in {"verify", "take", "refund", "history"} :
               /\ Points!Goto(r, place)
               /\ place = "verify" => pointReq[r].at = "lookup"
               /\ place # "verify" => pointReq[r].kind = "spin"
  <2>1. PICK place \in {"verify", "take", "refund", "history"} :
               /\ Points!Goto(r, place)
               /\ place = "verify" => pointReq[r].at = "lookup"
               /\ place # "verify" => pointReq[r].kind = "spin"
    BY <1>3
  <2>2. PICK q \in PointRequest :
             /\ pointReq' = [pointReq EXCEPT ![r] = q] /\ q.at = place
             /\ q.kind = pointReq[r].kind /\ q.tx = pointReq[r].tx /\ q.seen = pointReq[r].seen
             /\ q.on = pointReq[r].on /\ q.pts = pointReq[r].pts /\ q.next = pointReq[r].next
    BY <2>1, GoesTo DEF PointPlaces
  <2>3. Placed(q)
    BY <2>1, <2>2 DEF PointRight, Placed
  <2>4. PointRight(q) /\ Harmless(q)
    BY <2>1, <2>2, <2>3 DEF PointRight, Harmless
  <2> QED
    BY <1>1, <2>2, <2>4, HarmlessTurn
<1> QED
  BY <1>2, <1>3 DEF Points!CheckInLookup, Points!RecoverLookup, Points!SpinLookup,
     Points!SpinVerify, Points!InsertSpinFails, Points!TakeTicket, Points!Interrupted,
     Points!RefundTicket, PointRight, Placed

LEMMA BoostedType ==
  ASSUME NEW base \in Nat, NEW n \in Nat
  PROVE  Points!Boosted(base, n) \in Nat /\ Points!Boosted(base, n) \div 10 \in Nat
<1> DEFINE m == IF n > 30 THEN 30 ELSE n
<1>1. 10 + m \in Nat
  OBVIOUS
<1> HIDE DEF m
<1>2. PICK k \in Nat : k = 10 + m
  BY <1>1
<1>3. PICK p \in Nat : p = base * k
  OBVIOUS
<1>4. p \div 10 \in Nat
  OBVIOUS
<1> QED
  BY <1>2, <1>3, <1>4 DEF Points!Boosted, m

LEMMA PaymentKeeps ==
  ASSUME PointsInv, NEW r \in Requests, Points!CheckInVerify(r) \/ Points!RecoverVerify(r)
  PROVE  PointsInv'
<1> USE PointBasics DEF Points!chainVars, Points!tables, Points!pointVars, Points!At
<1>1. TicketsOnly
  BY DEF TicketsOnly, Points!CheckInVerify, Points!RecoverVerify
<1>2. CASE Points!Finish(r)
  BY <1>1, <1>2, FinishKeeps
<1>3. /\ pointReq[r].next \in Nat /\ pointReq[r].on \in Nat /\ pointReq[r].on <= day
      /\ pointReq[r].seen \in PointRow /\ pointReq[r].seen.last \in Nat
  BY DEF PointRequest, PointRow, PointRight
<1>4. CASE Points!CheckInVerify(r) /\ ~Points!Finish(r)
  <2> DEFINE n == Points!Boosted(1, pointReq[r].next)
             v == [pointReq[r] EXCEPT !.at = "row", !.on = day, !.pts = n]
  <2>1. pointReq' = [pointReq EXCEPT ![r] = v]
    BY <1>4 DEF Points!CheckInVerify
  <2>2. n \in Nat
    BY <1>3, BoostedType
  <2> HIDE DEF n
  <2>3. v \in PointRequest /\ v.at = "row" /\ v.on = day /\ v.kind = pointReq[r].kind
        /\ v.tx = pointReq[r].tx /\ v.seen = pointReq[r].seen /\ v.next = pointReq[r].next
    BY <2>2, ZenonT(30) DEF PointRequest, PointPlaces
  <2> HIDE DEF v
  <2>4. Placed(pointReq[r]) /\ pointReq[r].kind = "checkIn" /\ pointReq[r].at = "verify"
    BY <1>4 DEF Points!CheckInVerify, PointRight
  <2>5. Placed(v)
    BY <1>3, <2>3, <2>4 DEF Placed
  <2>6. PointRight(v) /\ Harmless(v)
    BY <2>3, <2>5 DEF PointRight, Harmless
  <2> QED
    BY <1>1, <2>1, <2>3, <2>6, HarmlessTurn
<1>5. CASE Points!RecoverVerify(r) /\ ~Points!Finish(r)
  <2> DEFINE v == [pointReq[r] EXCEPT !.at = "record", !.on = day - 1]
  <2>1. pointReq' = [pointReq EXCEPT ![r] = v]
    BY <1>5 DEF Points!RecoverVerify
  <2>2. Placed(pointReq[r]) /\ pointReq[r].kind = "recover" /\ pointReq[r].at = "verify"
    BY <1>5 DEF Points!RecoverVerify, PointRight
  <2>3. PICK e \in Nat : e = day - 1 /\ e \in Days /\ e <= day /\ pointReq[r].seen.last < e
    BY <1>3, <2>2 DEF Placed, Days
  <2>4. v \in PointRequest /\ v.at = "record" /\ v.on = e /\ v.kind = pointReq[r].kind
        /\ v.tx = pointReq[r].tx /\ v.seen = pointReq[r].seen /\ v.next = pointReq[r].next
    BY <2>3, ZenonT(30) DEF PointRequest, PointPlaces
  <2> HIDE DEF v
  <2>5. Placed(v)
    BY <2>2, <2>3, <2>4 DEF Placed
  <2>6. PointRight(v) /\ Harmless(v)
    BY <2>3, <2>4, <2>5 DEF PointRight, Harmless
  <2> QED
    BY <1>1, <2>1, <2>4, <2>6, HarmlessTurn
<1> QED
  BY <1>2, <1>4, <1>5

LEMMA GrantTicketsKeeps ==
  ASSUME PointsInv, NEW r \in Requests, Points!GrantTickets(r)
  PROVE  PointsInv'
<1> USE PointBasics DEF Points!chainVars, Points!tables, Points!pointVars, Points!At
<1>1. PICK w \in Wallets \ pointReq[r].topped :
          /\ tickets' = [tickets EXCEPT ![w] = @ + PerCheckIn]
          /\ granted' = [granted EXCEPT ![w] = @ + PerCheckIn]
          /\ IF pointReq[r].topped \cup {w} = Wallets
             THEN Points!Finish(r)
             ELSE pointReq' = [pointReq EXCEPT ![r].topped = @ \cup {w}]
  BY DEF Points!GrantTickets
<1>2. TicketsOnly
  BY <1>1 DEF Points!GrantTickets, TicketsOnly
<1>3. CASE Points!Finish(r)
  BY <1>2, <1>3, FinishKeeps
<1>4. CASE pointReq' = [pointReq EXCEPT ![r].topped = @ \cup {w}]
  <2> DEFINE v == [pointReq[r] EXCEPT !.topped = @ \cup {w}]
  <2>1. pointReq' = [pointReq EXCEPT ![r] = v]
    BY <1>4
  <2>2. v \in PointRequest /\ v.at = pointReq[r].at /\ v.on = pointReq[r].on
        /\ v.kind = pointReq[r].kind /\ v.pts = pointReq[r].pts
        /\ v.tx = pointReq[r].tx /\ v.seen = pointReq[r].seen /\ v.next = pointReq[r].next
    BY <1>1 DEF PointRequest
  <2> HIDE DEF v
  <2>3. PointRight(v)
    BY <2>2 DEF PointRight, Placed
  <2>4. Harmless(v)
    BY <2>2 DEF Harmless, Points!GrantTickets
  <2> QED
    BY <1>2, <2>1, <2>2, <2>3, <2>4, HarmlessTurn
<1> QED
  BY <1>1, <1>3, <1>4

LEMMA AddPointsReadKeeps ==
  ASSUME PointsInv, NEW r \in Requests, Points!AddPointsRead(r)
  PROVE  PointsInv'
<1> USE PointBasics DEF Points!chainVars, Points!tables, Points!pointVars, Points!At
<1> DEFINE n == IF pointReq[r].kind = "spin" THEN Prize
                ELSE Points!Boosted(Pts, Points!ActiveStreak(user)) \div 10
           v == [pointReq[r] EXCEPT !.at = "addEvent", !.seen = user, !.pts = n]
<1>1. pointReq' = [pointReq EXCEPT ![r] = v] /\ pointReq[r].at = "award"
  BY DEF Points!AddPointsRead
<1>2. n \in Nat
  <2>1. Points!ActiveStreak(user) \in Nat
    BY DEF Points!ActiveStreak, PointRow
  <2> QED
    BY <2>1, BoostedType
<1> HIDE DEF n
<1>3. v \in PointRequest /\ v.at = "addEvent" /\ v.on = pointReq[r].on
      /\ v.kind = pointReq[r].kind /\ v.tx = pointReq[r].tx /\ v.seen = user
  BY <1>2, ZenonT(30) DEF PointRequest, PointPlaces
<1> HIDE DEF v
<1>4. Placed(v)
  BY <1>1, <1>3 DEF PointRight, Placed
<1>5. PointRight(v)
  BY <1>1, <1>3, <1>4 DEF PointRight, TablesRight
<1>6. \A s \in Requests : s # r => PointApart(v, pointReq[s]) /\ PointApart(pointReq[s], v)
  BY <1>1, <1>3 DEF PointsInv, PointApart
<1>7. UNCHANGED <<day, minedOn, user, checkIns, recoveries, spins, pointEvents, checkInPay,
                  spinPay, unrecorded, restores, tickets, granted, pointFaults>>
  BY DEF Points!AddPointsRead
<1> QED
  BY <1>1, <1>3, <1>5, <1>6, <1>7, PointTurn

-----------------------------------------------------------------------------
\* The steps that write a table

\* The types and what is kept, when a request takes its step and the tables stay typed.
LEMMA WritesTyped ==
  ASSUME PointsInv, NEW r \in Requests, NEW q \in PointRequest,
         pointReq' = [pointReq EXCEPT ![r] = q],
         UNCHANGED <<day, minedOn, tickets, granted>>,
         user' \in PointRow, checkIns' \in [Days -> Txs \cup {Nobody}], recoveries' \subseteq Txs,
         spins' \in [Txs -> SUBSET Wallets], pointEvents' \in Nat, checkInPay' \in [Days -> Nat],
         spinPay' \in [Txs -> Nat], unrecorded' \in Nat, restores' \in [Txs -> Nat],
         pointFaults' \in Nat
  PROVE  Points!RewardsTypeOK'
<1>1. pointReq' \in [Requests -> PointRequest]
  BY PointBasics
<1> QED
  BY <1>1, PointTypes DEF PointsInv, Points!RewardsTypeOK, Points!Days, Points!User,
     Points!Request, Points!AllKinds, Points!Places, PointRow, PointPlaces, PointRequest, Days

LEMMA InsertCheckInKeeps ==
  ASSUME PointsInv, NEW r \in Requests, Points!InsertCheckIn(r)
  PROVE  PointsInv'
<1> USE PointBasics DEF Points!chainVars, Points!tables, Points!pointVars, Points!At
<1>1. PICK d \in Days : d = pointReq[r].on /\ d <= day
  BY DEF Points!InsertCheckIn, PointRight, Placed
<1>2. CASE Points!Finish(r) /\ UNCHANGED checkIns
  <2>1. TicketsOnly
    BY <1>2 DEF Points!InsertCheckIn, TicketsOnly
  <2> QED
    BY <1>2, <2>1, FinishKeeps
<1>3. CASE checkIns[d] = Nobody /\ Points!Goto(r, "event")
           /\ checkIns' = [checkIns EXCEPT ![d] = pointReq[r].tx]
  <2>1. PICK q \in PointRequest :
             /\ pointReq' = [pointReq EXCEPT ![r] = q] /\ q.at = "event"
             /\ q.kind = pointReq[r].kind /\ q.tx = pointReq[r].tx /\ q.seen = pointReq[r].seen
             /\ q.on = d /\ q.pts = pointReq[r].pts /\ q.next = pointReq[r].next
    BY <1>1, <1>3, GoesTo DEF PointPlaces
  <2>2. /\ Placed(pointReq[r]) /\ pointReq[r].at = "row" /\ pointReq[r].kind = "checkIn"
        /\ q.tx \in Txs /\ checkIns \in [Days -> Txs \cup {Nobody}]
    BY <2>1, PointTypes DEF Points!InsertCheckIn, PointRight, Placed, PointsInv
  <2>3. UNCHANGED <<day, minedOn, user, recoveries, spins, tickets, pointEvents, checkInPay,
                    spinPay, unrecorded, restores, granted, pointFaults>>
    BY DEF Points!InsertCheckIn
  <2>4. /\ checkIns' \in [Days -> Txs \cup {Nobody}] /\ checkIns'[d] # Nobody
        /\ \A e \in Days : e # d => checkIns'[e] = checkIns[e]
    BY <1>3, <2>1, <2>2
  <2>5. Points!RewardsTypeOK'
    BY <2>1, <2>3, <2>4, WritesTyped, PointTypes DEF PointsInv
  <2>6. RowsKept /\ NothingLost
    BY <1>3, <2>3, <2>4 DEF RowsKept, NothingLost
  <2>7. /\ q.seen.streak \in Nat /\ q.seen.last \in Nat /\ q.next \in Nat
    BY DEF PointRequest, PointRow
  <2>8. Backed(q.seen.streak, q.seen.last)
    BY <2>1 DEF PointRight
  <2>9. Backed(q.next, d)'
    <3>1. CASE q.next = q.seen.streak + 1 /\ q.seen.last < d
      BY <2>4, <2>6, <2>7, <2>8, <3>1, BackedNext
    <3>2. CASE q.next = 1
      <4>1. Backed(0, 0)
        BY DaysCounted DEF Backed
      <4>2. 0 < d
        BY DEF Days
      <4>3. Backed(0 + 1, d)'
        BY <2>4, <2>6, <4>1, <4>2, BackedNext
      <4> QED
        BY <3>2, <4>3
    <3> QED
      BY <1>1, <2>1, <2>2, <3>1, <3>2 DEF Placed
  <2>10. TablesRight'
    <3>1. PICK u \in PointRow : u = user /\ Backed(u.streak, u.last)
      BY DEF TablesRight
    <3>2. Backed(u.streak, u.last)'
      BY <2>6, <3>1, BackedStays DEF PointRow
    <3> QED
      BY <2>3, <2>6, <3>1, <3>2 DEF TablesRight, RowsKept
  <2>11. checkInPay[d] = 0
    BY <1>3 DEF TablesRight
  <2>12. PointRight(q)'
    <3>1. Backed(q.seen.streak, q.seen.last)'
      BY <2>6, <2>7, <2>8, BackedStays
    <3>2. Placed(q)
      BY <2>1, <2>2 DEF Placed
    <3>3. q.on <= day' /\ q.seen.points <= pointEvents' + unrecorded'
      BY <1>1, <2>1, <2>3 DEF PointRight
    <3> QED
      BY <2>1, <2>3, <2>4, <2>9, <2>11, <3>1, <3>2, <3>3 DEF PointRight
  <2>13. \A s \in Requests : s # r => NotYetDone(pointReq[s]) /\ PointApart(q, pointReq[s])
                                                             /\ PointApart(pointReq[s], q)
    <3>1. \A s \in Requests : pointReq[s].at = "event" => pointReq[s].on # d
      BY <1>3 DEF PointsInv, PointRight
    <3> QED
      BY <2>1, <2>2, <2>3, <3>1 DEF NotYetDone, PointApart
  <2> QED
    BY <2>1, <2>5, <2>6, <2>10, <2>12, <2>13, PointMoves
<1> QED
  BY <1>1, <1>2, <1>3 DEF Points!InsertCheckIn

\* More was awarded.
LEMMA LedgerGrows ==
  ASSUME PointsInv, NEW e \in Nat, NEW u \in Nat, pointEvents' = e, unrecorded' = u,
         pointEvents + unrecorded <= e + u, UNCHANGED <<day, checkIns, recoveries, spins, user,
         restores>>,
         \A d \in Days : checkInPay'[d] = 0 \/ (checkInPay'[d] = 1 /\ checkIns[d] # Nobody),
         \A t \in Txs : spinPay'[t] = 0 \/ (spinPay'[t] = 1 /\ spins[t] # {})
  PROVE  NothingLost /\ RowsKept /\ TablesRight'
<1>1. RowsKept /\ NothingLost
  BY PointBasics, PointTypes DEF PointsInv, RowsKept, NothingLost, Days
<1>2. user.points <= e + u
  BY PointTypes DEF PointsInv, TablesRight, PointRow
<1>3. Backed(user.streak, user.last)'
  BY DEF PointsInv, TablesRight, Backed, DaysUpTo
<1> QED
  BY <1>1, <1>2, <1>3 DEF PointsInv, TablesRight

LEMMA CheckInEventKeeps ==
  ASSUME PointsInv, NEW r \in Requests, Points!InsertCheckInEvent(r)
  PROVE  PointsInv'
<1> USE PointBasics DEF Points!chainVars, Points!tables, Points!pointVars, Points!At
<1>1. PICK q \in PointRequest :
             /\ pointReq' = [pointReq EXCEPT ![r] = q] /\ q.at = "user"
             /\ q.kind = pointReq[r].kind /\ q.tx = pointReq[r].tx /\ q.seen = pointReq[r].seen
             /\ q.on = pointReq[r].on /\ q.pts = pointReq[r].pts /\ q.next = pointReq[r].next
  BY GoesTo DEF PointPlaces, Points!InsertCheckInEvent
<1>2. /\ pointReq[r].at = "event" /\ Placed(pointReq[r]) /\ q.on \in Days
      /\ checkIns[q.on] # Nobody /\ checkInPay[q.on] = 0 /\ Backed(q.next, q.on)
      /\ Backed(q.seen.streak, q.seen.last)
      /\ q.seen.points <= pointEvents + unrecorded /\ q.on <= day
  BY <1>1 DEF Points!InsertCheckInEvent, PointRight, Placed
<1>3. /\ q.seen.streak \in Nat /\ q.seen.last \in Nat /\ q.seen.points \in Nat
      /\ q.pts \in Nat /\ q.next \in Nat
  BY DEF PointRequest, PointRow
<1>4. PICK e \in Nat : e = pointEvents + q.pts /\ pointEvents' = e
  BY <1>1, <1>3 DEF Points!InsertCheckInEvent
<1>5. UNCHANGED <<day, minedOn, user, checkIns, recoveries, spins, tickets, spinPay, unrecorded,
                  restores, granted, pointFaults>>
  BY DEF Points!InsertCheckInEvent
<1>6. /\ checkInPay \in [Days -> Nat] /\ checkInPay' = [checkInPay EXCEPT ![q.on] = 1]
  <2>1. checkInPay' = [checkInPay EXCEPT ![q.on] = checkInPay[q.on] + 1]
    BY <1>1 DEF Points!InsertCheckInEvent
  <2> QED
    BY <1>2, <2>1, PointTypes DEF PointsInv
<1>7. PICK u \in Nat : u = unrecorded /\ unrecorded' = u
  BY <1>5
<1>8. pointEvents + unrecorded <= e + u /\ q.seen.points + q.pts <= e + u
      /\ q.seen.points <= e + u
  BY <1>2, <1>3, <1>4, <1>7
<1>9. Points!RewardsTypeOK'
  BY <1>1, <1>2, <1>4, <1>5, <1>6, WritesTyped, PointTypes DEF PointsInv
<1>10. NothingLost /\ RowsKept /\ TablesRight'
  <2>1. \A d \in Days : checkInPay'[d] = 0 \/ (checkInPay'[d] = 1 /\ checkIns[d] # Nobody)
    BY <1>2, <1>6 DEF TablesRight
  <2>2. \A t \in Txs : spinPay'[t] = 0 \/ (spinPay'[t] = 1 /\ spins[t] # {})
    BY <1>5 DEF TablesRight
  <2> QED
    BY <1>4, <1>5, <1>7, <1>8, <2>1, <2>2, LedgerGrows
<1>11. PointRight(q)'
  <2>1. Placed(q)
    BY <1>1, <1>2 DEF Placed
  <2>2. Backed(q.next, q.on)' /\ Backed(q.seen.streak, q.seen.last)'
    BY <1>2, <1>3, <1>10, BackedStays
  <2> QED
    BY <1>1, <1>2, <1>4, <1>5, <1>7, <1>8, <2>1, <2>2 DEF PointRight
<1>12. \A s \in Requests : s # r => NotYetDone(pointReq[s]) /\ PointApart(q, pointReq[s])
                                                           /\ PointApart(pointReq[s], q)
  <2> SUFFICES ASSUME NEW s \in Requests, s # r
               PROVE  NotYetDone(pointReq[s]) /\ PointApart(q, pointReq[s])
                                             /\ PointApart(pointReq[s], q)
    OBVIOUS
  <2>1. PointApart(q, pointReq[s]) /\ PointApart(pointReq[s], q)
    BY <1>1, <1>2, SMTT(30) DEF PointApart, Placed
  <2>2. pointReq[s].at = "event" => pointReq[s].on # q.on /\ pointReq[s].on \in Days
    BY <1>1, <1>2 DEF PointsInv, PointApart, PointRight, Placed
  <2> QED
    BY <1>5, <1>6, <2>1, <2>2 DEF NotYetDone
<1> QED
  BY <1>1, <1>9, <1>10, <1>11, <1>12, PointMoves

\* The users row is written from what was backed.
LEMMA UserWritten ==
  ASSUME PointsInv, NEW r \in Requests, NEW q \in PointRequest, Harmless(q), PointRight(q),
         pointReq' = [pointReq EXCEPT ![r] = q],
         NEW n \in PointRow, user' = n, n.last <= day, Backed(n.streak, n.last),
         n.points <= pointEvents + unrecorded,
         UNCHANGED <<day, minedOn, checkIns, recoveries, spins, tickets, pointEvents, checkInPay,
                     spinPay, unrecorded, granted, pointFaults>>,
         restores' \in [Txs -> Nat],
         \A t \in Txs : restores'[t] = 0 \/ (restores'[t] = 1 /\ t \in recoveries),
         \A s \in Requests : s # r /\ pointReq[s].at \in {"restoreRow", "restoreUser"}
                                => restores'[pointReq[s].tx] = restores[pointReq[s].tx]
  PROVE  PointsInv'
<1>1. Points!RewardsTypeOK'
  BY WritesTyped, PointTypes DEF PointsInv
<1>2. RowsKept /\ NothingLost
  BY PointBasics DEF RowsKept, NothingLost
<1>3. TablesRight'
  BY PointBasics DEF TablesRight, Backed, DaysUpTo
<1>4. PointRight(q)'
  BY <1>1, <1>2, PointStays DEF PointsInv, NotYetDone, Harmless
<1>5. \A s \in Requests : s # r => NotYetDone(pointReq[s]) /\ PointApart(q, pointReq[s])
                                                           /\ PointApart(pointReq[s], q)
  BY HarmlessApart DEF NotYetDone
<1> QED
  BY <1>1, <1>2, <1>3, <1>4, <1>5, PointMoves

LEMMA UserKeeps ==
  ASSUME PointsInv, NEW r \in Requests,
         Points!UpdateCheckedIn(r) \/ Points!ResetStreak(r) \/ Points!AddPointsUser(r)
  PROVE  PointsInv'
<1> USE PointBasics DEF Points!chainVars, Points!tables, Points!pointVars, Points!At
<1>1. /\ pointReq[r].seen.points \in Nat /\ pointReq[r].pts \in Nat /\ pointReq[r].next \in Nat
      /\ pointReq[r].on \in Nat /\ user.streak \in Nat /\ user.last \in Nat /\ user.points \in Nat
  BY DEF PointRequest, PointRow
<1>2. restores \in [Txs -> Nat]
      /\ \A t \in Txs : restores[t] = 0 \/ (restores[t] = 1 /\ t \in recoveries)
  BY PointTypes DEF PointsInv, TablesRight
<1>3. UNCHANGED <<day, minedOn, checkIns, recoveries, spins, tickets, pointEvents, checkInPay,
                  spinPay, unrecorded, granted, pointFaults, restores>>
  BY DEF Points!UpdateCheckedIn, Points!ResetStreak, Points!AddPointsUser
<1>4. CASE Points!UpdateCheckedIn(r)
  <2>1. PICK p \in Nat : p = pointReq[r].seen.points + pointReq[r].pts
    BY <1>1
  <2>2. PICK n \in PointRow : /\ user' = n /\ n.streak = pointReq[r].next
                             /\ n.last = pointReq[r].on /\ n.points = p
    <3> DEFINE v == [streak |-> pointReq[r].next, last |-> pointReq[r].on, points |-> p]
    <3>1. v \in PointRow
      BY <1>1 DEF PointRow
    <3>2. user' = v
      BY <1>4, <2>1 DEF Points!UpdateCheckedIn
    <3> QED
      BY <3>1, <3>2
  <2>3. PICK q \in PointRequest :
             /\ pointReq' = [pointReq EXCEPT ![r] = q] /\ q.at = "tickets"
             /\ q.kind = pointReq[r].kind /\ q.tx = pointReq[r].tx /\ q.seen = pointReq[r].seen
             /\ q.on = pointReq[r].on /\ q.pts = pointReq[r].pts /\ q.next = pointReq[r].next
    BY <1>4, GoesTo DEF PointPlaces, Points!UpdateCheckedIn
  <2>4. pointReq[r].at = "user" /\ PointRight(pointReq[r]) /\ pointReq[r].kind = "checkIn"
    BY <1>4 DEF Points!UpdateCheckedIn, PointRight, Placed
  <2>5. PointRight(q) /\ Harmless(q)
    BY <2>3, <2>4 DEF PointRight, Placed, Harmless
  <2>6. n.last <= day /\ Backed(n.streak, n.last) /\ n.points <= pointEvents + unrecorded
    BY <2>1, <2>2, <2>4 DEF PointRight
  <2> QED
    BY <1>2, <1>3, <2>2, <2>3, <2>5, <2>6, UserWritten
<1>5. CASE Points!ResetStreak(r)
  <2>1. PICK n \in PointRow : user' = n /\ n.streak = 0 /\ n.last = user.last /\ n.points = user.points
    <3> DEFINE v == [user EXCEPT !.streak = 0]
    <3>1. v \in PointRow /\ v.streak = 0 /\ v.last = user.last /\ v.points = user.points
      BY DEF PointRow
    <3>2. user' = v
      BY <1>5 DEF Points!ResetStreak
    <3> QED
      BY <3>1, <3>2
  <2>2. pointReq' = [pointReq EXCEPT ![r] = Points!Idle]
    BY <1>5 DEF Points!ResetStreak, Points!Finish
  <2>3. n.last <= day /\ Backed(n.streak, n.last) /\ n.points <= pointEvents + unrecorded
    BY <2>1, DaysCounted DEF TablesRight, Backed
  <2> QED
    BY <1>2, <1>3, <2>1, <2>2, <2>3, IdleHarmless, UserWritten
<1>6. CASE Points!AddPointsUser(r)
  <2>1. PICK p \in Nat : p = pointReq[r].seen.points + pointReq[r].pts
    BY <1>1
  <2>2. PICK n \in PointRow : user' = n /\ n.streak = user.streak /\ n.last = user.last /\ n.points = p
    <3> DEFINE v == [user EXCEPT !.points = p]
    <3>1. v \in PointRow /\ v.streak = user.streak /\ v.last = user.last /\ v.points = p
      BY DEF PointRow
    <3>2. user' = v
      BY <1>6, <2>1 DEF Points!AddPointsUser
    <3> QED
      BY <3>1, <3>2
  <2>3. pointReq' = [pointReq EXCEPT ![r] = Points!Idle]
    BY <1>6 DEF Points!AddPointsUser, Points!Finish
  <2>4. n.last <= day /\ Backed(n.streak, n.last) /\ n.points <= pointEvents + unrecorded
    BY <1>6, <2>1, <2>2 DEF TablesRight, Points!AddPointsUser, PointRight
  <2> QED
    BY <1>2, <1>3, <2>2, <2>3, <2>4, IdleHarmless, UserWritten
<1> QED
  BY <1>4, <1>5, <1>6

LEMMA UpdateRestoredKeeps ==
  ASSUME PointsInv, NEW r \in Requests, Points!UpdateRestored(r)
  PROVE  PointsInv'
<1> USE PointBasics DEF Points!chainVars, Points!tables, Points!pointVars, Points!At
<1>1. /\ pointReq[r].next \in Nat /\ pointReq[r].on \in Nat /\ user.points \in Nat
  BY DEF PointRequest, PointRow
<1>2. PICK n \in PointRow : /\ user' = n /\ n.streak = pointReq[r].next
                           /\ n.last = pointReq[r].on /\ n.points = user.points
  <2> DEFINE v == [user EXCEPT !.streak = pointReq[r].next, !.last = pointReq[r].on]
  <2>1. v \in PointRow /\ v.streak = pointReq[r].next /\ v.last = pointReq[r].on
        /\ v.points = user.points
    BY <1>1 DEF PointRow
  <2>2. user' = v
    BY DEF Points!UpdateRestored
  <2> QED
    BY <2>1, <2>2
<1>3. PICK t \in Txs : /\ t = pointReq[r].tx /\ t \in recoveries /\ restores[t] = 0
                       /\ Backed(n.streak, n.last) /\ n.last <= day
  BY <1>2 DEF Points!UpdateRestored, PointRight, Placed
<1>4. restores' = [restores EXCEPT ![t] = 1] /\ restores \in [Txs -> Nat]
  <2>1. restores' = [restores EXCEPT ![t] = restores[t] + 1] /\ restores \in [Txs -> Nat]
    BY <1>3, PointTypes DEF Points!UpdateRestored, PointsInv
  <2> QED
    BY <1>3, <2>1
<1>5. \A s \in Requests : s # r /\ pointReq[s].at \in {"restoreRow", "restoreUser"}
                             => pointReq[s].tx # t /\ pointReq[s].tx \in Txs
  BY <1>3 DEF Points!UpdateRestored, PointsInv, PointApart, PointRight, Placed
<1>6. /\ pointReq' = [pointReq EXCEPT ![r] = Points!Idle]
      /\ UNCHANGED <<day, minedOn, checkIns, recoveries, spins, tickets, pointEvents, checkInPay,
                     spinPay, unrecorded, granted, pointFaults>>
  BY DEF Points!UpdateRestored, Points!Finish
<1>7. /\ restores' \in [Txs -> Nat]
      /\ \A x \in Txs : restores'[x] = 0 \/ (restores'[x] = 1 /\ x \in recoveries)
      /\ \A s \in Requests : s # r /\ pointReq[s].at \in {"restoreRow", "restoreUser"}
                                => restores'[pointReq[s].tx] = restores[pointReq[s].tx]
  BY <1>3, <1>4, <1>5 DEF TablesRight
<1>8. n.points <= pointEvents + unrecorded
  BY <1>2 DEF TablesRight
<1> QED
  BY <1>2, <1>3, <1>6, <1>7, <1>8, IdleHarmless, UserWritten

\* A payment or a spin is entered, or the row of a day is restored.
LEMMA RowsWritten ==
  ASSUME PointsInv, NEW r \in Requests, NEW q \in PointRequest,
         pointReq' = [pointReq EXCEPT ![r] = q],
         UNCHANGED <<day, minedOn, user, tickets, pointEvents, checkInPay,
                     spinPay, unrecorded, granted, pointFaults, restores>>,
         checkIns' \in [Days -> Txs \cup {Nobody}], RowsKept,
         recoveries' \subseteq Txs, recoveries \subseteq recoveries',
         spins' \in [Txs -> SUBSET Wallets],
         \A t \in Txs : spins[t] # {} => spins'[t] # {},
         \A t \in Txs : spins'[t] = {} \/ \E w \in Wallets : spins'[t] = {w},
         PointRight(q)',
         \A s \in Requests : s # r => PointApart(q, pointReq[s]) /\ PointApart(pointReq[s], q)
  PROVE  PointsInv'
<1>1. Points!RewardsTypeOK'
  BY WritesTyped, PointTypes DEF PointsInv
<1>2. NothingLost
  BY PointBasics DEF NothingLost
<1>3. TablesRight'
  <2>1. PICK u \in PointRow : u = user /\ Backed(u.streak, u.last)
    BY PointBasics DEF TablesRight
  <2>2. Backed(u.streak, u.last)'
    BY <2>1, BackedStays DEF PointRow
  <2> QED
    BY <2>1, <2>2, PointBasics DEF TablesRight, RowsKept
<1>4. \A s \in Requests : NotYetDone(pointReq[s])
  BY DEF NotYetDone
<1> QED
  BY <1>1, <1>2, <1>3, <1>4, PointMoves

LEMMA InsertRecoveryKeeps ==
  ASSUME PointsInv, NEW r \in Requests, Points!InsertRecovery(r)
  PROVE  PointsInv'
<1> USE PointBasics DEF Points!chainVars, Points!tables, Points!pointVars, Points!At
<1>1. CASE Points!Finish(r) /\ UNCHANGED recoveries
  <2>1. TicketsOnly
    BY <1>1 DEF Points!InsertRecovery, TicketsOnly
  <2> QED
    BY <1>1, <2>1, FinishKeeps
<1>2. CASE /\ pointReq[r].tx \notin recoveries /\ Points!Goto(r, "restoreRow")
           /\ recoveries' = recoveries \cup {pointReq[r].tx}
  <2>1. PICK q \in PointRequest :
             /\ pointReq' = [pointReq EXCEPT ![r] = q] /\ q.at = "restoreRow"
             /\ q.kind = pointReq[r].kind /\ q.tx = pointReq[r].tx /\ q.seen = pointReq[r].seen
             /\ q.on = pointReq[r].on /\ q.pts = pointReq[r].pts /\ q.next = pointReq[r].next
    BY <1>2, GoesTo DEF PointPlaces
  <2>2. /\ PointRight(pointReq[r]) /\ pointReq[r].at = "record" /\ pointReq[r].kind = "recover"
        /\ q.tx \in Txs
    BY <2>1 DEF Points!InsertRecovery, PointRight, Placed
  <2>3. UNCHANGED <<day, minedOn, user, tickets, pointEvents, checkInPay,
                    spinPay, unrecorded, granted, pointFaults, restores, checkIns, spins>>
    BY DEF Points!InsertRecovery
  <2>4. recoveries' = recoveries \cup {q.tx} /\ q.tx \notin recoveries /\ restores[q.tx] = 0
    BY <1>2, <2>1, <2>2 DEF TablesRight
  <2>5. Placed(q)
    BY <2>1, <2>2 DEF PointRight, Placed
  <2>6. PointRight(q)'
    BY <2>1, <2>2, <2>3, <2>4, <2>5 DEF PointRight, Backed, DaysUpTo
  <2>7. \A s \in Requests : s # r => PointApart(q, pointReq[s]) /\ PointApart(pointReq[s], q)
    <3>1. \A s \in Requests : pointReq[s].at \in {"restoreRow", "restoreUser"}
                                 => pointReq[s].tx # q.tx
      BY <2>4 DEF PointsInv, PointRight
    <3> QED
      BY <2>1, <2>2, <3>1 DEF PointApart
  <2>8. RowsKept /\ recoveries' \subseteq Txs
    BY <2>2, <2>3, <2>4, PointTypes DEF RowsKept, PointsInv
  <2>9. \A t \in Txs : spins[t] = {} \/ \E w \in Wallets : spins[t] = {w}
    BY DEF TablesRight
  <2>10. /\ checkIns' \in [Days -> Txs \cup {Nobody}] /\ spins' \in [Txs -> SUBSET Wallets]
         /\ \A t \in Txs : spins[t] # {} => spins'[t] # {}
         /\ \A t \in Txs : spins'[t] = {} \/ \E w \in Wallets : spins'[t] = {w}
         /\ recoveries \subseteq recoveries'
    BY <2>3, <2>4, <2>9, PointTypes DEF PointsInv
  <2>11. pointReq' = [pointReq EXCEPT ![r] = q]
    BY <2>1
  <2> HIDE DEF Points!chainVars, Points!tables, Points!pointVars, Points!At
  <2> QED
    BY <2>3, <2>6, <2>7, <2>8, <2>10, <2>11, RowsWritten
<1> QED
  BY <1>1, <1>2 DEF Points!InsertRecovery

LEMMA UpsertRestoredDayKeeps ==
  ASSUME PointsInv, NEW r \in Requests, Points!UpsertRestoredDay(r)
  PROVE  PointsInv'
<1> USE PointBasics DEF Points!chainVars, Points!tables, Points!pointVars, Points!At
<1>1. PICK q \in PointRequest :
           /\ pointReq' = [pointReq EXCEPT ![r] = q] /\ q.at = "restoreUser"
           /\ q.kind = pointReq[r].kind /\ q.tx = pointReq[r].tx /\ q.seen = pointReq[r].seen
           /\ q.on = pointReq[r].on /\ q.pts = pointReq[r].pts /\ q.next = pointReq[r].next
  BY GoesTo DEF PointPlaces, Points!UpsertRestoredDay
<1>2. /\ PointRight(pointReq[r]) /\ pointReq[r].at = "restoreRow" /\ pointReq[r].kind = "recover"
      /\ q.tx \in Txs /\ q.on \in Days
  BY <1>1 DEF Points!UpsertRestoredDay, PointRight, Placed
<1>3. UNCHANGED <<day, minedOn, user, tickets, pointEvents, checkInPay,
                  spinPay, unrecorded, granted, pointFaults, restores, recoveries, spins>>
  BY DEF Points!UpsertRestoredDay
<1>4. checkIns' = [checkIns EXCEPT ![q.on] = q.tx] /\ checkIns \in [Days -> Txs \cup {Nobody}]
  BY <1>1, PointTypes DEF Points!UpsertRestoredDay, PointsInv
<1>5. checkIns' \in [Days -> Txs \cup {Nobody}] /\ RowsKept /\ checkIns'[q.on] # Nobody
  BY <1>2, <1>4 DEF RowsKept
<1>6. /\ q.seen.streak \in Nat /\ q.seen.last \in Nat
  BY DEF PointRequest, PointRow
<1>7. Placed(q) /\ Backed(q.seen.streak, q.seen.last) /\ q.next = q.seen.streak + 1
      /\ q.seen.last < q.on
  BY <1>1, <1>2 DEF PointRight, Placed
<1>8. Backed(q.next, q.on)' /\ Backed(q.seen.streak, q.seen.last)'
  BY <1>2, <1>5, <1>6, <1>7, BackedStays, BackedNext
<1>9. PointRight(q)'
  BY <1>1, <1>2, <1>3, <1>7, <1>8 DEF PointRight
<1>10. \A s \in Requests : s # r => PointApart(q, pointReq[s]) /\ PointApart(pointReq[s], q)
  BY <1>1, <1>2 DEF PointApart, PointsInv
<1>11. recoveries \subseteq Txs /\ spins \in [Txs -> SUBSET Wallets]
       /\ \A t \in Txs : spins[t] = {} \/ \E w \in Wallets : spins[t] = {w}
  BY PointTypes DEF PointsInv, TablesRight
<1> QED
  BY <1>1, <1>3, <1>5, <1>9, <1>10, <1>11, RowsWritten

LEMMA InsertSpinKeeps ==
  ASSUME PointsInv, NEW r \in Requests, Points!InsertSpin(r)
  PROVE  PointsInv'
<1> USE PointBasics DEF Points!chainVars, Points!tables, Points!pointVars, Points!At
<1>1. PICK place \in {"refund", "award"} :
          /\ Points!Goto(r, place) /\ (place = "refund" => UNCHANGED spins)
          /\ place = "award" => spins[pointReq[r].tx] = {}
                                /\ spins' = [spins EXCEPT ![pointReq[r].tx] = {pointReq[r].wallet}]
  BY DEF Points!InsertSpin
<1>2. PICK q \in PointRequest :
           /\ pointReq' = [pointReq EXCEPT ![r] = q] /\ q.at = place
           /\ q.kind = pointReq[r].kind /\ q.tx = pointReq[r].tx /\ q.seen = pointReq[r].seen
           /\ q.on = pointReq[r].on /\ q.pts = pointReq[r].pts /\ q.next = pointReq[r].next
           /\ q.wallet = pointReq[r].wallet
  BY <1>1, GoesTo DEF PointPlaces
<1>3. /\ PointRight(pointReq[r]) /\ pointReq[r].at = "history" /\ pointReq[r].kind = "spin"
      /\ q.tx \in Txs /\ q.wallet \in Wallets
  BY <1>2 DEF Points!InsertSpin, PointRight, Placed, PointRequest
<1>4. UNCHANGED <<day, minedOn, user, tickets, pointEvents, checkInPay,
                  spinPay, unrecorded, granted, pointFaults, restores, recoveries, checkIns>>
  BY DEF Points!InsertSpin
<1>5. /\ checkIns \in [Days -> Txs \cup {Nobody}] /\ recoveries \subseteq Txs
      /\ spins \in [Txs -> SUBSET Wallets]
      /\ \A t \in Txs : spins[t] = {} \/ \E w \in Wallets : spins[t] = {w}
      /\ \A t \in Txs : spinPay[t] = 0 \/ (spinPay[t] = 1 /\ spins[t] # {})
  BY PointTypes DEF PointsInv, TablesRight
<1>6. Placed(q)
  BY <1>1, <1>2, <1>3 DEF PointRight, Placed
<1>7. CASE place = "refund"
  <2>1. PointRight(q) /\ Harmless(q)
    BY <1>2, <1>3, <1>6, <1>7 DEF PointRight, Harmless
  <2>2. TicketsOnly
    BY <1>1, <1>4, <1>7 DEF TicketsOnly
  <2> QED
    BY <1>2, <2>1, <2>2, HarmlessTurn
<1>8. CASE place = "award"
  <2>1. spins[q.tx] = {} /\ spins' = [spins EXCEPT ![q.tx] = {q.wallet}]
    BY <1>1, <1>2, <1>8
  <2>2. spinPay[q.tx] = 0
    BY <1>3, <1>5, <2>1
  <2>3. /\ spins' \in [Txs -> SUBSET Wallets] /\ spins'[q.tx] # {}
        /\ \A t \in Txs : spins[t] # {} => spins'[t] # {}
        /\ \A t \in Txs : spins'[t] = {} \/ \E w \in Wallets : spins'[t] = {w}
    <3>1. spins' \in [Txs -> SUBSET Wallets] /\ spins'[q.tx] = {q.wallet}
          /\ \A t \in Txs : t # q.tx => spins'[t] = spins[t]
      BY <1>3, <1>5, <2>1
    <3> QED
      BY <1>3, <1>5, <2>1, <3>1
  <2>4. PointRight(q)'
    BY <1>2, <1>3, <1>4, <1>6, <1>8, <2>2, <2>3 DEF PointRight, Backed, DaysUpTo
  <2>5. \A s \in Requests : s # r => PointApart(q, pointReq[s]) /\ PointApart(pointReq[s], q)
    <3>1. \A s \in Requests : pointReq[s].kind = "spin" /\ pointReq[s].at \in {"award", "addEvent"}
                                 => pointReq[s].tx # q.tx
      BY <2>1 DEF PointsInv, PointRight
    <3> QED
      BY <1>2, <1>8, <3>1 DEF PointApart
  <2>6. RowsKept
    BY <1>4 DEF RowsKept
  <2> QED
    BY <1>2, <1>4, <1>5, <2>3, <2>4, <2>5, <2>6, RowsWritten
<1> QED
  BY <1>7, <1>8

LEMMA AddPointsEventKeeps ==
  ASSUME PointsInv, NEW r \in Requests,
         Points!AddPointsEvent(r) \/ Points!AddPointsEventFails(r)
  PROVE  PointsInv'
<1> USE PointBasics DEF Points!chainVars, Points!tables, Points!pointVars, Points!At
<1>1. PICK q \in PointRequest :
             /\ pointReq' = [pointReq EXCEPT ![r] = q] /\ q.at = "addUser"
             /\ q.kind = pointReq[r].kind /\ q.tx = pointReq[r].tx /\ q.seen = pointReq[r].seen
             /\ q.on = pointReq[r].on /\ q.pts = pointReq[r].pts /\ q.next = pointReq[r].next
  BY GoesTo DEF PointPlaces, Points!AddPointsEvent, Points!AddPointsEventFails
<1>2. /\ pointReq[r].at = "addEvent" /\ Placed(pointReq[r])
      /\ Backed(q.seen.streak, q.seen.last)
      /\ q.seen.points <= pointEvents + unrecorded /\ q.on <= day
      /\ q.kind = "spin" => q.tx \in Txs /\ spins[q.tx] # {} /\ spinPay[q.tx] = 0
  BY <1>1 DEF Points!AddPointsEvent, Points!AddPointsEventFails, PointRight, Placed
<1>3. /\ q.seen.streak \in Nat /\ q.seen.last \in Nat /\ q.seen.points \in Nat
      /\ q.pts \in Nat /\ q.next \in Nat
  BY DEF PointRequest, PointRow
<1>4. UNCHANGED <<day, minedOn, user, checkIns, recoveries, spins, tickets, checkInPay,
                  restores, granted>> /\ pointFaults' \in Nat
  BY DEF Points!AddPointsEvent, Points!AddPointsEventFails
<1>5. PICK e \in Nat, u \in Nat : /\ pointEvents' = e /\ unrecorded' = u
                                 /\ e + u = pointEvents + unrecorded + q.pts
  <2>1. PICK x \in Nat, y \in Nat, z \in Nat : x = pointEvents /\ y = unrecorded /\ z = q.pts
    BY <1>3
  <2>2. (pointEvents' = x + z /\ unrecorded' = y) \/ (pointEvents' = x /\ unrecorded' = y + z)
    BY <1>1, <2>1 DEF Points!AddPointsEvent, Points!AddPointsEventFails
  <2>3. x + z \in Nat /\ y + z \in Nat /\ (x + z) + y = x + y + z /\ x + (y + z) = x + y + z
    OBVIOUS
  <2> QED
    BY <2>1, <2>2, <2>3
<1>6. pointEvents + unrecorded <= e + u /\ q.seen.points + q.pts <= e + u
      /\ q.seen.points <= e + u
  BY <1>2, <1>3, <1>5
<1>7. /\ spinPay \in [Txs -> Nat]
      /\ spinPay' = spinPay \/ (q.kind = "spin" /\ spinPay' = [spinPay EXCEPT ![q.tx] = 1])
  <2>1. spinPay' = spinPay
        \/ (q.kind = "spin" /\ spinPay' = [spinPay EXCEPT ![q.tx] = spinPay[q.tx] + 1])
    BY <1>1 DEF Points!AddPointsEvent, Points!AddPointsEventFails
  <2> QED
    BY <1>2, <2>1, PointTypes DEF PointsInv
<1>8. spinPay' \in [Txs -> Nat]
  BY <1>7
<1>9. Points!RewardsTypeOK'
  BY <1>1, <1>4, <1>5, <1>8, WritesTyped, PointTypes DEF PointsInv
<1>10. NothingLost /\ RowsKept /\ TablesRight'
  <2>1. \A d \in Days : checkInPay'[d] = 0 \/ (checkInPay'[d] = 1 /\ checkIns[d] # Nobody)
    BY <1>4 DEF TablesRight
  <2>2. \A t \in Txs : spinPay'[t] = 0 \/ (spinPay'[t] = 1 /\ spins[t] # {})
    BY <1>2, <1>7 DEF TablesRight
  <2> QED
    BY <1>4, <1>5, <1>6, <2>1, <2>2, LedgerGrows
<1>11. PointRight(q)'
  <2>1. Placed(q)
    BY <1>1, <1>2 DEF Placed
  <2>2. Backed(q.seen.streak, q.seen.last)'
    BY <1>2, <1>3, <1>10, BackedStays
  <2> QED
    BY <1>1, <1>2, <1>4, <1>5, <1>6, <2>1, <2>2 DEF PointRight
<1>12. \A s \in Requests : s # r => NotYetDone(pointReq[s]) /\ PointApart(q, pointReq[s])
                                                           /\ PointApart(pointReq[s], q)
  <2> SUFFICES ASSUME NEW s \in Requests, s # r
               PROVE  NotYetDone(pointReq[s]) /\ PointApart(q, pointReq[s])
                                             /\ PointApart(pointReq[s], q)
    OBVIOUS
  <2>1. Harmless(q)
    BY <1>1 DEF Harmless
  <2>2. q.kind = "spin" /\ pointReq[s].kind = "spin" /\ pointReq[s].at \in {"award", "addEvent"}
           => pointReq[s].tx # q.tx /\ pointReq[s].tx \in Txs
    BY <1>1, <1>2, ZenonT(30) DEF PointsInv, PointApart, PointRight, Placed
  <2> QED
    BY <1>4, <1>7, <2>1, <2>2, HarmlessApart DEF NotYetDone
<1> QED
  BY <1>1, <1>9, <1>10, <1>11, <1>12, PointMoves

LEMMA ChainKeeps ==
  ASSUME PointsInv, Points!NextDay \/ \E t \in Txs : Points!MineTx(t)
  PROVE  PointsInv'
<1> USE DEF Points!tables, Points!pointVars
<1>1. UNCHANGED <<user, checkIns, recoveries, spins, tickets, pointEvents, checkInPay,
                  spinPay, unrecorded, granted, pointFaults, restores, pointReq>>
  BY DEF Points!NextDay, Points!MineTx
<1>2. MaxDay \in Nat /\ day \in 1 .. MaxDay /\ minedOn \in [Txs -> Nat]
  BY PointTypes, AccountsAssumption DEF PointsInv, Points!RewardsAssumption, Days
<1>3. PICK d \in Days : day' = d /\ day <= d
  BY <1>2 DEF Points!NextDay, Points!MineTx, Days
<1>4. minedOn' \in [Txs -> Nat]
  BY <1>2 DEF Points!NextDay, Points!MineTx
<1>5. Points!RewardsTypeOK'
  BY <1>1, <1>3, <1>4, PointTypes DEF PointsInv, Points!RewardsTypeOK, Points!Days, Points!User,
     Points!Request, Points!AllKinds, Points!Places, PointRow, PointPlaces, PointRequest, Days
<1>6. RowsKept
  BY <1>1 DEF RowsKept
<1>7. PICK x \in Nat : x = pointEvents + unrecorded /\ pointEvents' + unrecorded' = x
  BY <1>1, PointTypes DEF PointsInv
<1>8. NothingLost
  BY <1>1, <1>3, <1>6, <1>7 DEF NothingLost
<1>9. TablesRight'
  <2>1. user.last \in Nat /\ d \in Nat /\ day \in Nat
    BY <1>2, <1>3, PointTypes DEF PointsInv, PointRow, Days
  <2>2. user.last <= d
    BY <1>3, <2>1 DEF PointsInv, TablesRight
  <2> QED
    BY <1>1, <1>3, <2>2 DEF PointsInv, TablesRight, Backed, DaysUpTo
<1>10. ASSUME NEW r \in Requests PROVE PointRight(pointReq[r])'
  <2>1. PICK q \in PointRequest : q = pointReq[r] /\ PointRight(q)
    BY PointTypes DEF PointsInv
  <2>2. PointRight(q)'
    BY <1>1, <1>5, <1>8, <2>1, PointStays DEF PointsInv, NotYetDone
  <2> QED
    BY <1>1, <2>1, <2>2 DEF PointRight
<1> QED
  BY <1>1, <1>5, <1>9, <1>10 DEF PointsInv, PointApart

LEMMA PointsStepsKeep == PointsInv /\ [Points!RewardsNext]_pointState => PointsInv'
<1> SUFFICES ASSUME PointsInv, [Points!RewardsNext]_pointState PROVE PointsInv'
  OBVIOUS
<1>1. CASE Points!RewardsNext
  <2>1. CASE Points!NextDay \/ \E t \in Txs : Points!MineTx(t)
    BY <2>1, ChainKeeps
  <2>2. CASE \E r \in Requests, w \in Wallets, t \in Txs :
                 Points!BeginCheckIn(r, w, t) \/ Points!BeginRecover(r, w, t)
                 \/ Points!BeginSpin(r, w, t)
    BY <2>2, BeginPointKeeps
  <2>3. CASE \E r \in Requests, w \in Wallets : Points!BeginReset(r, w) \/ Points!BeginEarn(r, w)
    BY <2>3, BeginOtherKeeps
  <2>4. CASE \E r \in Requests : Points!Step(r)
    <3>1. PICK r \in Requests : Points!Step(r)
      BY <2>4
    <3>2. CASE \/ Points!CheckInLookup(r) \/ Points!RecoverLookup(r) \/ Points!SpinLookup(r)
               \/ Points!SpinVerify(r) \/ Points!InsertSpinFails(r) \/ Points!TakeTicket(r)
               \/ Points!Interrupted(r) \/ Points!RefundTicket(r)
      BY <3>2, LookupKeeps
    <3>3. CASE Points!CheckInVerify(r) \/ Points!RecoverVerify(r)
      BY <3>3, PaymentKeeps
    <3>4. CASE Points!UpdateCheckedIn(r) \/ Points!ResetStreak(r) \/ Points!AddPointsUser(r)
      BY <3>4, UserKeeps
    <3>5. CASE Points!AddPointsEvent(r) \/ Points!AddPointsEventFails(r)
      BY <3>5, AddPointsEventKeeps
    <3>6. CASE Points!InsertCheckIn(r) \/ Points!InsertCheckInEvent(r) \/ Points!GrantTickets(r)
      BY <3>6, InsertCheckInKeeps, CheckInEventKeeps, GrantTicketsKeeps
    <3>7. CASE Points!InsertRecovery(r) \/ Points!UpsertRestoredDay(r) \/ Points!UpdateRestored(r)
      BY <3>7, InsertRecoveryKeeps, UpsertRestoredDayKeeps, UpdateRestoredKeeps
    <3>8. CASE Points!InsertSpin(r) \/ Points!AddPointsRead(r)
      BY <3>8, InsertSpinKeeps, AddPointsReadKeeps
    <3> QED
      BY <3>1, <3>2, <3>3, <3>4, <3>5, <3>6, <3>7, <3>8 DEF Points!Step
  <2> QED
    BY <1>1, <2>1, <2>2, <2>3, <2>4 DEF Points!RewardsNext
<1>2. CASE UNCHANGED pointState
  <2>1. UNCHANGED <<day, minedOn, user, checkIns, recoveries, spins, tickets, pointEvents,
                    checkInPay, spinPay, unrecorded, granted, pointFaults, restores, pointReq>>
    BY <1>2 DEF pointState
  <2>2. Points!RewardsTypeOK'
    BY <2>1 DEF PointsInv, Points!RewardsTypeOK
  <2> QED
    BY <2>1, <2>2, ZenonT(30) DEF PointsInv, TablesRight, PointRight, PointApart, Backed, DaysUpTo
<1> QED
  BY <1>1, <1>2

LEMMA PointsStartRight == Points!RewardsInit => PointsInv
<1> SUFFICES ASSUME Points!RewardsInit PROVE PointsInv
  OBVIOUS
<1> USE DEF Points!RewardsInit
<1>1. /\ user = [streak |-> 0, last |-> 0, points |-> 0] /\ user \in PointRow
      /\ 1 \in Days
  BY AccountsAssumption DEF PointRow, Points!RewardsAssumption, Days
<1>2. (CHOOSE w \in Wallets : TRUE) \in Wallets
  BY AccountsAssumption DEF Points!RewardsAssumption
<1>3. Points!Idle \in PointRequest
  BY <1>2 DEF Points!Idle, PointRequest, PointPlaces, PointRow
<1>4. Points!RewardsTypeOK
  BY <1>1, <1>3, PointTypes DEF Points!Days, Days
<1>5. Backed(0, 0)
  BY DaysCounted DEF Backed
<1>6. TablesRight
  BY <1>1, <1>5 DEF TablesRight, Points!Days, Days
<1>7. PointRight(Points!Idle) /\ Harmless(Points!Idle)
  BY <1>5 DEF Points!Idle, PointRight, Placed, Harmless
<1> QED
  BY <1>4, <1>6, <1>7, HarmlessApart DEF PointsInv

LEMMA PointsGoOn == [AccountsNext]_accountsVars => [Points!RewardsNext]_pointState
  BY DEF AccountsNext, accountsVars, PointsRun, ReferralsRun, LinksRun, QuestsRun, PayoutsRun,
     CampaignRun

LEMMA PointsInvAlways == AccountsSpec => []PointsInv
<1>1. AccountsInit => PointsInv
  BY PointsStartRight DEF AccountsInit
<1> QED
  BY <1>1, PointsStepsKeep, PointsGoOn, PTL DEF AccountsSpec

-----------------------------------------------------------------------------
\* Tickets

\* The requests that have taken a ticket and not come to use it or to give it back.
Spending(w) == {r \in Requests : pointReq[r].at \in {"history", "refund"} /\ pointReq[r].wallet = w}

Covered(w) ==
    /\ IsFiniteSet(Points!SpinsOf(w)) /\ IsFiniteSet(Spending(w))
    /\ tickets[w] + Cost * (Cardinality(Points!SpinsOf(w)) + Cardinality(Spending(w))) <= granted[w]

TicketsInv == PointsInv /\ \A w \in Wallets : Covered(w)

LEMMA CostTimes ==
  ASSUME NEW m \in Nat, NEW n \in Nat, m <= n
  PROVE  /\ Cost \in Nat /\ Cost * m \in Nat /\ Cost * n \in Nat /\ Cost * m <= Cost * n
         /\ Cost * (n + 1) = Cost * n + Cost
<1>1. Cost \in Nat
  BY AccountsAssumption DEF Points!RewardsAssumption
<1>2. PICK k \in Nat : n = m + k
  <2>1. n - m \in Nat /\ n = m + (n - m)
    OBVIOUS
  <2> QED
    BY <2>1
<1>3. Cost * k \in Nat /\ Cost * m \in Nat /\ Cost * n = Cost * m + Cost * k
  BY <1>1, <1>2
<1>4. Cost * (n + 1) = Cost * n + Cost
  BY <1>1
<1>5. PICK x \in Nat, y \in Nat : x = Cost * m /\ y = Cost * k /\ Cost * n = x + y
  BY <1>3
<1> QED
  BY <1>1, <1>4, <1>5

\* Nothing more is spent than was, and as much was granted as there is more.
LEMMA CoveredAgain ==
  ASSUME TicketsInv, NEW w \in Wallets, NEW b \in Nat, NEW g \in Nat,
         tickets'[w] = b, granted'[w] = g, NEW x \in Nat, NEW c \in Nat,
         IsFiniteSet(Points!SpinsOf(w)'), IsFiniteSet(Spending(w)'),
         Cardinality(Points!SpinsOf(w)) + Cardinality(Spending(w)) = x,
         Cardinality(Points!SpinsOf(w)') + Cardinality(Spending(w)') = c,
         \/ c <= x /\ \E y \in Nat : b = tickets[w] + y /\ g = granted[w] + y
         \/ x = c + 1 /\ b = tickets[w] + Cost /\ g = granted[w]
         \/ c = x + 1 /\ tickets[w] = b + Cost /\ g = granted[w]
  PROVE  Covered(w)'
<1>1. tickets[w] \in Nat /\ granted[w] \in Nat /\ tickets[w] + Cost * x <= granted[w]
  BY PointBasics, PointTypes DEF TicketsInv, Covered, PointsInv
<1>2. PICK p \in Nat, q \in Nat : p = tickets[w] /\ q = granted[w] /\ p + Cost * x <= q
  BY <1>1
<1>3. b + Cost * c <= g
  <2>1. CASE c <= x /\ \E y \in Nat : b = tickets[w] + y /\ g = granted[w] + y
    <3>1. PICK y \in Nat : b = p + y /\ g = q + y
      BY <1>2, <2>1
    <3>2. PICK e \in Nat, f \in Nat : e = Cost * c /\ f = Cost * x /\ e <= f
      BY <2>1, CostTimes
    <3>3. p + f <= q
      BY <1>2, <3>2
    <3>4. b + e <= g
      BY <3>1, <3>2, <3>3
    <3> QED
      BY <3>2, <3>4
  <2>2. CASE x = c + 1 /\ b = tickets[w] + Cost /\ g = granted[w]
    <3>1. PICK e \in Nat, k \in Nat : e = Cost * c /\ k = Cost /\ Cost * x = e + k
      BY <2>2, CostTimes
    <3>2. b = p + k /\ g = q /\ p + (e + k) <= q
      BY <1>2, <2>2, <3>1
    <3>3. b + e <= g
      BY <3>2
    <3> QED
      BY <3>1, <3>3
  <2>3. CASE c = x + 1 /\ tickets[w] = b + Cost /\ g = granted[w]
    <3>1. PICK e \in Nat, k \in Nat : e = Cost * x /\ k = Cost /\ Cost * c = e + k
      BY <2>3, CostTimes
    <3>2. p = b + k /\ g = q /\ p + e <= q
      BY <1>2, <2>3, <3>1
    <3>3. b + (e + k) <= g
      BY <3>2
    <3> QED
      BY <3>1, <3>3
  <2> QED
    BY <2>1, <2>2, <2>3
<1> QED
  BY <1>3 DEF Covered

LEMMA CoveredBasics ==
  ASSUME TicketsInv, NEW w \in Wallets
  PROVE  /\ IsFiniteSet(Points!SpinsOf(w)) /\ Cardinality(Points!SpinsOf(w)) \in Nat
         /\ IsFiniteSet(Spending(w)) /\ Cardinality(Spending(w)) \in Nat
         /\ tickets[w] \in Nat /\ granted[w] \in Nat /\ Cost \in Nat
  BY PointTypes, FS_CardinalityType, AccountsAssumption
     DEF TicketsInv, Covered, PointsInv, Points!RewardsAssumption

\* A step that spends nothing.
LEMMA CoveredStays ==
  ASSUME TicketsInv, NEW w \in Wallets, NEW y \in Nat,
         tickets'[w] = tickets[w] + y, granted'[w] = granted[w] + y,
         Points!SpinsOf(w)' = Points!SpinsOf(w), Spending(w)' \subseteq Spending(w)
  PROVE  Covered(w)'
<1> DEFINE S == Points!SpinsOf(w)
           T == Spending(w)
           U == Spending(w)'
<1>1. /\ IsFiniteSet(S) /\ Cardinality(S) \in Nat /\ IsFiniteSet(T) /\ Cardinality(T) \in Nat
      /\ tickets[w] \in Nat /\ granted[w] \in Nat
  BY CoveredBasics
<1> HIDE DEF S, T, U
<1>2. U \in SUBSET T
  BY DEF T, U
<1>3. IsFiniteSet(U) /\ Cardinality(U) \in Nat /\ Cardinality(U) <= Cardinality(T)
  BY <1>1, <1>2, FS_Subset, FS_CardinalityType
<1>4. PICK x \in Nat, c \in Nat : /\ x = Cardinality(S) + Cardinality(T)
                                 /\ c = Cardinality(S) + Cardinality(U) /\ c <= x
  BY <1>1, <1>3
<1>5. PICK b \in Nat, g \in Nat : /\ b = tickets[w] + y /\ g = granted[w] + y
                                 /\ tickets'[w] = b /\ granted'[w] = g
  BY <1>1
<1>6. IsFiniteSet(Points!SpinsOf(w)') /\ IsFiniteSet(Spending(w)')
  BY <1>1, <1>3 DEF S, U
<1>7. Cardinality(Points!SpinsOf(w)) + Cardinality(Spending(w)) = x
      /\ Cardinality(Points!SpinsOf(w)') + Cardinality(Spending(w)') = c
  BY <1>4 DEF S, T, U
<1> QED
  BY <1>4, <1>5, <1>6, <1>7, CoveredAgain

LEMMA SpentStays ==
  ASSUME TicketsInv, UNCHANGED <<tickets, granted, spins>>,
         \A r \in Requests : pointReq'[r].at \in {"history", "refund"}
             => pointReq[r].at \in {"history", "refund"} /\ pointReq'[r].wallet = pointReq[r].wallet
  PROVE  \A w \in Wallets : Covered(w)'
<1> SUFFICES ASSUME NEW w \in Wallets PROVE Covered(w)'
  OBVIOUS
<1>1. tickets'[w] = tickets[w] + 0 /\ granted'[w] = granted[w] + 0
  BY CoveredBasics
<1>2. Points!SpinsOf(w)' = Points!SpinsOf(w) /\ Spending(w)' \subseteq Spending(w)
  BY DEF Points!SpinsOf, Spending
<1> QED
  BY <1>1, <1>2, CoveredStays

\* Most steps write no tickets, and take a request away from where it owes one or leave it there.
LEMMA OwesNothing ==
  ASSUME TicketsInv, NEW r \in Requests,
         \/ Points!Finish(r)
         \/ \E place \in PointPlaces \ {"history"} :
                Points!Goto(r, place) /\ (place = "refund" => pointReq[r].at = "history")
  PROVE  \A s \in Requests : pointReq'[s].at \in {"history", "refund"}
             => pointReq[s].at \in {"history", "refund"} /\ pointReq'[s].wallet = pointReq[s].wallet
<1>1. pointReq \in [Requests -> PointRequest] /\ pointReq[r] \in PointRequest
  BY PointTypes DEF TicketsInv, PointsInv
<1>2. CASE Points!Finish(r)
  BY <1>1, <1>2 DEF Points!Finish, Points!Idle
<1>3. CASE \E place \in PointPlaces \ {"history"} :
                Points!Goto(r, place) /\ (place = "refund" => pointReq[r].at = "history")
  BY <1>1, <1>3, GoesTo DEF TicketsInv
<1> QED
  BY <1>2, <1>3

\* A ticket is taken, used, or given back.
LEMMA SpendKeeps ==
  ASSUME TicketsInv, NEW r \in Requests,
         Points!TakeTicket(r) \/ Points!InsertSpin(r) \/ Points!RefundTicket(r)
  PROVE  \A w \in Wallets : Covered(w)'
<1> USE DEF Points!chainVars, Points!tables, Points!pointVars, Points!At
<1>1. /\ pointReq \in [Requests -> PointRequest] /\ pointReq[r] \in PointRequest
      /\ tickets \in [Wallets -> Nat] /\ spins \in [Txs -> SUBSET Wallets]
      /\ PointRight(pointReq[r]) /\ pointReq[r].kind = "spin"
  BY PointTypes DEF TicketsInv, PointsInv, PointRight, Placed, Points!TakeTicket,
     Points!InsertSpin, Points!RefundTicket
<1>2. PICK w \in Wallets, t \in Txs : w = pointReq[r].wallet /\ t = pointReq[r].tx
  BY <1>1 DEF PointRequest, PointRight, Placed
<1>3. UNCHANGED granted
  BY DEF Points!TakeTicket, Points!InsertSpin, Points!RefundTicket
<1> DEFINE S == Points!SpinsOf(w)
           T == Spending(w)
<1>4. /\ IsFiniteSet(S) /\ Cardinality(S) \in Nat /\ IsFiniteSet(T) /\ Cardinality(T) \in Nat
      /\ tickets[w] \in Nat /\ granted[w] \in Nat /\ Cost \in Nat
  BY CoveredBasics
<1>5. CASE \/ Points!Finish(r) /\ UNCHANGED <<tickets, spins>>
           \/ Points!Goto(r, "refund") /\ pointReq[r].at = "history" /\ UNCHANGED <<tickets, spins>>
  BY <1>3, <1>5, OwesNothing, SpentStays DEF PointPlaces
<1>6. CASE /\ pointReq[r].at = "take" /\ Points!Goto(r, "history") /\ UNCHANGED spins
           /\ ~(tickets[w] < Cost) /\ tickets' = [tickets EXCEPT ![w] = @ - Cost]
  <2>1. PICK q \in PointRequest : /\ pointReq' = [pointReq EXCEPT ![r] = q] /\ q.at = "history"
                                 /\ q.wallet = w
    BY <1>2, <1>6, GoesTo DEF PointPlaces, TicketsInv
  <2>2. Points!SpinsOf(w)' = S /\ Spending(w)' = T \cup {r} /\ r \notin T
    BY <1>1, <1>2, <1>6, <2>1 DEF Points!SpinsOf, Spending
  <2>3. PICK b \in Nat : tickets[w] = b + Cost /\ tickets'[w] = b
    BY <1>1, <1>4, <1>6
  <2> HIDE DEF S, T
  <2>4. IsFiniteSet(T \cup {r}) /\ Cardinality(T \cup {r}) = Cardinality(T) + 1
    BY <1>4, <2>2, FS_AddElement
  <2>5. PICK x \in Nat, c \in Nat : /\ x = Cardinality(S) + Cardinality(T)
                                   /\ c = Cardinality(S) + Cardinality(T \cup {r}) /\ c = x + 1
    BY <1>4, <2>4
  <2>6. Covered(w)'
    BY <1>3, <1>4, <2>2, <2>3, <2>4, <2>5, CoveredAgain DEF S, T
  <2>7. ASSUME NEW v \in Wallets, v # w PROVE Covered(v)'
    <3>1. tickets'[v] = tickets[v] + 0 /\ granted'[v] = granted[v] + 0
      BY <1>1, <1>3, <1>6, <2>7, CoveredBasics
    <3>2. Points!SpinsOf(v)' = Points!SpinsOf(v) /\ Spending(v)' \subseteq Spending(v)
      BY <1>1, <1>6, <2>1, <2>7 DEF Points!SpinsOf, Spending
    <3> QED
      BY <3>1, <3>2, CoveredStays
  <2> QED
    BY <2>6, <2>7
<1>7. CASE /\ pointReq[r].at = "history" /\ spins[t] = {} /\ spins' = [spins EXCEPT ![t] = {w}]
           /\ Points!Goto(r, "award") /\ UNCHANGED tickets
  <2>1. PICK q \in PointRequest : /\ pointReq' = [pointReq EXCEPT ![r] = q] /\ q.at = "award"
                                 /\ q.wallet = w
    BY <1>2, <1>7, GoesTo DEF PointPlaces, TicketsInv
  <2>2. Points!SpinsOf(w)' = S \cup {t} /\ t \notin S /\ Spending(w)' = T \ {r} /\ r \in T
    BY <1>1, <1>2, <1>7, <2>1 DEF Points!SpinsOf, Spending
  <2>3. tickets'[w] = tickets[w] + 0 /\ granted'[w] = granted[w] + 0
    BY <1>3, <1>4, <1>7
  <2> HIDE DEF S, T
  <2>4. IsFiniteSet(S \cup {t}) /\ Cardinality(S \cup {t}) = Cardinality(S) + 1
    BY <1>4, <2>2, FS_AddElement
  <2>5. IsFiniteSet(T \ {r}) /\ Cardinality(T \ {r}) = Cardinality(T) - 1
    BY <1>4, <2>2, FS_RemoveElement
  <2>6. PICK x \in Nat : x = Cardinality(S) + Cardinality(T)
                         /\ x = Cardinality(S \cup {t}) + Cardinality(T \ {r})
    BY <1>4, <2>4, <2>5
  <2>7. PICK b \in Nat, g \in Nat : b = tickets[w] /\ g = granted[w]
                                    /\ tickets'[w] = b /\ granted'[w] = g /\ b = b + 0 /\ g = g + 0
    BY <1>3, <1>4, <1>7
  <2>8. x <= x /\ \E y \in Nat : b = tickets[w] + y /\ g = granted[w] + y
    BY <2>7
  <2>9. Covered(w)'
    BY <2>2, <2>4, <2>5, <2>6, <2>7, <2>8, CoveredAgain DEF S, T
  <2>10. ASSUME NEW v \in Wallets, v # w PROVE Covered(v)'
    <3>1. tickets'[v] = tickets[v] + 0 /\ granted'[v] = granted[v] + 0
      BY <1>1, <1>3, <1>7, CoveredBasics
    <3>2. Points!SpinsOf(v)' = Points!SpinsOf(v)
      BY <1>1, <1>7, <2>10 DEF Points!SpinsOf
    <3>3. Spending(v)' \subseteq Spending(v)
      BY <1>1, <2>1 DEF Spending
    <3> QED
      BY <3>1, <3>2, <3>3, CoveredStays
  <2> QED
    BY <2>9, <2>10
<1>8. CASE /\ pointReq[r].at = "refund" /\ Points!Finish(r) /\ UNCHANGED spins
           /\ tickets' = [tickets EXCEPT ![w] = @ + Cost]
  <2>1. pointReq' = [pointReq EXCEPT ![r] = Points!Idle] /\ Points!Idle.at = "idle"
    BY <1>8 DEF Points!Finish, Points!Idle
  <2>2. Points!SpinsOf(w)' = S /\ Spending(w)' = T \ {r} /\ r \in T
    BY <1>1, <1>2, <1>8, <2>1 DEF Points!SpinsOf, Spending
  <2>3. PICK b \in Nat : b = tickets[w] + Cost /\ tickets'[w] = b
    BY <1>1, <1>4, <1>8
  <2> HIDE DEF S, T
  <2>4. IsFiniteSet(T \ {r}) /\ Cardinality(T \ {r}) = Cardinality(T) - 1
    BY <1>4, <2>2, FS_RemoveElement
  <2>5. Cardinality(T \ {r}) \in Nat
    BY <2>4, FS_CardinalityType
  <2>6. PICK x \in Nat, c \in Nat : /\ x = Cardinality(S) + Cardinality(T)
                                   /\ c = Cardinality(S) + Cardinality(T \ {r}) /\ x = c + 1
    BY <1>4, <2>4, <2>5
  <2>7. Covered(w)'
    BY <1>3, <1>4, <2>2, <2>3, <2>4, <2>6, CoveredAgain DEF S, T
  <2>8. ASSUME NEW v \in Wallets, v # w PROVE Covered(v)'
    <3>1. tickets'[v] = tickets[v] + 0 /\ granted'[v] = granted[v] + 0
      BY <1>1, <1>3, <1>8, <2>8, CoveredBasics
    <3>2. Points!SpinsOf(v)' = Points!SpinsOf(v) /\ Spending(v)' \subseteq Spending(v)
      BY <1>1, <1>8, <2>1 DEF Points!SpinsOf, Spending
    <3> QED
      BY <3>1, <3>2, CoveredStays
  <2> QED
    BY <2>7, <2>8
<1> QED
  BY <1>2, <1>5, <1>6, <1>7, <1>8 DEF Points!TakeTicket, Points!InsertSpin, Points!RefundTicket

LEMMA GrantKeepsCovered ==
  ASSUME TicketsInv, NEW r \in Requests, Points!GrantTickets(r)
  PROVE  \A w \in Wallets : Covered(w)'
<1> USE DEF Points!pointVars, Points!At
<1>1. PICK w \in Wallets :
          /\ tickets' = [tickets EXCEPT ![w] = @ + PerCheckIn]
          /\ granted' = [granted EXCEPT ![w] = @ + PerCheckIn]
          /\ Points!Finish(r) \/ pointReq' = [pointReq EXCEPT ![r].topped = @ \cup {w}]
  BY DEF Points!GrantTickets
<1>2. /\ pointReq \in [Requests -> PointRequest] /\ pointReq[r].at = "tickets"
      /\ tickets \in [Wallets -> Nat] /\ granted \in [Wallets -> Nat] /\ UNCHANGED spins
      /\ PerCheckIn \in Nat
  BY PointTypes, AccountsAssumption
     DEF TicketsInv, PointsInv, Points!GrantTickets, Points!RewardsAssumption
<1>3. \A s \in Requests : pointReq'[s].at \in {"history", "refund"} => pointReq'[s] = pointReq[s]
  <2>1. CASE Points!Finish(r)
    BY <1>2, <2>1 DEF Points!Finish, Points!Idle
  <2>2. CASE pointReq' = [pointReq EXCEPT ![r].topped = @ \cup {w}]
    <3>1. pointReq'[r].at = "tickets"
      BY <1>2, <2>2 DEF PointRequest
    <3> QED
      BY <1>2, <2>2, <3>1
  <2> QED
    BY <1>1, <2>1, <2>2
<1>4. ASSUME NEW v \in Wallets PROVE Covered(v)'
  <2>1. PICK y \in Nat : tickets'[v] = tickets[v] + y /\ granted'[v] = granted[v] + y
    <3>1. CASE v = w
      BY <1>1, <1>2, <3>1
    <3>2. CASE v # w
      <4>1. tickets'[v] = tickets[v] + 0 /\ granted'[v] = granted[v] + 0
        BY <1>1, <1>2, <3>2
      <4> QED
        BY <4>1
    <3> QED
      BY <3>1, <3>2
  <2>2. Points!SpinsOf(v)' = Points!SpinsOf(v) /\ Spending(v)' \subseteq Spending(v)
    BY <1>2, <1>3 DEF Points!SpinsOf, Spending
  <2> QED
    BY <2>1, <2>2, CoveredStays
<1> QED
  BY <1>4

\* The other steps of a request.
LEMMA OthersKeepCovered ==
  ASSUME TicketsInv, NEW r \in Requests, Points!Step(r),
         ~Points!TakeTicket(r), ~Points!InsertSpin(r), ~Points!RefundTicket(r),
         ~Points!GrantTickets(r)
  PROVE  \A w \in Wallets : Covered(w)'
<1> USE DEF Points!chainVars, Points!tables, Points!pointVars, Points!At
<1>1. pointReq \in [Requests -> PointRequest] /\ pointReq[r] \in PointRequest
  BY PointTypes DEF TicketsInv, PointsInv
<1>2. UNCHANGED <<tickets, granted, spins>>
  BY DEF Points!Step, Points!CheckInLookup, Points!CheckInVerify, Points!InsertCheckIn,
     Points!InsertCheckInEvent, Points!UpdateCheckedIn, Points!RecoverLookup, Points!RecoverVerify,
     Points!InsertRecovery, Points!UpsertRestoredDay, Points!UpdateRestored, Points!ResetStreak,
     Points!SpinLookup, Points!SpinVerify, Points!InsertSpinFails, Points!AddPointsRead,
     Points!AddPointsEvent, Points!AddPointsEventFails, Points!AddPointsUser, Points!Interrupted
<1>3. \/ Points!Finish(r)
      \/ \E place \in PointPlaces \ {"history"} :
             Points!Goto(r, place) /\ (place = "refund" => pointReq[r].at = "history")
      \/ \E n : pointReq' = [pointReq EXCEPT ![r].at = "row", ![r].on = day, ![r].pts = n]
      \/ pointReq' = [pointReq EXCEPT ![r].at = "record", ![r].on = day - 1]
      \/ \E n : pointReq' = [pointReq EXCEPT ![r].at = "addEvent", ![r].seen = user, ![r].pts = n]
  <2>1. CASE Points!CheckInVerify(r)
    BY <2>1 DEF Points!CheckInVerify
  <2>2. CASE Points!RecoverVerify(r)
    BY <2>2 DEF Points!RecoverVerify
  <2>3. CASE Points!AddPointsRead(r)
    BY <2>3 DEF Points!AddPointsRead
  <2>4. CASE \/ Points!UpdateRestored(r) \/ Points!ResetStreak(r) \/ Points!AddPointsUser(r)
             \/ Points!Interrupted(r)
    BY <2>4 DEF Points!UpdateRestored, Points!ResetStreak, Points!AddPointsUser, Points!Interrupted
  <2>5. CASE \/ Points!CheckInLookup(r) \/ Points!RecoverLookup(r) \/ Points!SpinLookup(r)
             \/ Points!SpinVerify(r) \/ Points!InsertSpinFails(r)
    BY <2>5 DEF PointPlaces, Points!CheckInLookup, Points!RecoverLookup, Points!SpinLookup,
       Points!SpinVerify, Points!InsertSpinFails
  <2>6. CASE \/ Points!InsertCheckIn(r) \/ Points!InsertCheckInEvent(r) \/ Points!UpdateCheckedIn(r)
             \/ Points!InsertRecovery(r) \/ Points!UpsertRestoredDay(r) \/ Points!AddPointsEvent(r)
             \/ Points!AddPointsEventFails(r)
    BY <2>6 DEF PointPlaces, Points!InsertCheckIn, Points!InsertCheckInEvent,
       Points!UpdateCheckedIn, Points!InsertRecovery, Points!UpsertRestoredDay,
       Points!AddPointsEvent, Points!AddPointsEventFails
  <2> QED
    BY <2>1, <2>2, <2>3, <2>4, <2>5, <2>6 DEF Points!Step
<1>4. \A s \in Requests : pointReq'[s].at \in {"history", "refund"}
          => pointReq[s].at \in {"history", "refund"} /\ pointReq'[s].wallet = pointReq[s].wallet
  <2>1. ASSUME \A s \in Requests : s # r => pointReq'[s] = pointReq[s],
               pointReq'[r].at \notin {"history", "refund"}
        PROVE  \A s \in Requests : pointReq'[s].at \in {"history", "refund"}
                   => /\ pointReq[s].at \in {"history", "refund"}
                      /\ pointReq'[s].wallet = pointReq[s].wallet
    BY <2>1
  <2>2. CASE \E n : pointReq' = [pointReq EXCEPT ![r].at = "row", ![r].on = day, ![r].pts = n]
    <3>1. pointReq'[r].at = "row"
      BY <1>1, <2>2 DEF PointRequest
    <3> QED
      BY <1>1, <2>1, <2>2, <3>1
  <2>3. CASE pointReq' = [pointReq EXCEPT ![r].at = "record", ![r].on = day - 1]
    <3>1. pointReq'[r].at = "record"
      BY <1>1, <2>3 DEF PointRequest
    <3> QED
      BY <1>1, <2>1, <2>3, <3>1
  <2>4. CASE \E n : pointReq' = [pointReq EXCEPT ![r].at = "addEvent", ![r].seen = user, ![r].pts = n]
    <3>1. pointReq'[r].at = "addEvent"
      BY <1>1, <2>4 DEF PointRequest
    <3> QED
      BY <1>1, <2>1, <2>4, <3>1
  <2> QED
    BY <1>3, <2>2, <2>3, <2>4, OwesNothing
<1> QED
  BY <1>2, <1>4, SpentStays

LEMMA TicketStepsKeep == TicketsInv /\ [Points!RewardsNext]_pointState => TicketsInv'
<1> SUFFICES ASSUME TicketsInv, [Points!RewardsNext]_pointState PROVE TicketsInv'
  OBVIOUS
<1>1. PointsInv'
  BY PointsStepsKeep DEF TicketsInv
<1>2. CASE \E r \in Requests : Points!Step(r)
  BY <1>1, <1>2, SpendKeeps, GrantKeepsCovered, OthersKeepCovered DEF TicketsInv
<1>3. CASE Points!NextDay \/ \E t \in Txs : Points!MineTx(t)
  <2>1. UNCHANGED <<tickets, granted, spins, pointReq>>
    BY <1>3 DEF Points!NextDay, Points!MineTx, Points!tables
  <2> QED
    BY <1>1, <2>1, SpentStays DEF TicketsInv
<1>4. CASE \E r \in Requests, w \in Wallets, kind \in Points!AllKinds, t \in Txs \cup {Nobody} :
               Points!Begin(r, kind, w, t)
  <2>1. PICK r \in Requests, w \in Wallets, kind \in Points!AllKinds, t \in Txs \cup {Nobody} :
               Points!Begin(r, kind, w, t)
    BY <1>4
  <2>2. pointReq \in [Requests -> PointRequest]
    BY PointTypes DEF TicketsInv, PointsInv
  <2>3. UNCHANGED <<tickets, granted, spins>>
    BY <2>1 DEF Points!Begin, Points!tables
  <2>4. PICK q : pointReq' = [pointReq EXCEPT ![r] = q] /\ q.at \in {"award", "clear", "lookup"}
    <3> DEFINE p == IF kind = "earn" THEN "award" ELSE IF kind = "reset" THEN "clear" ELSE "lookup"
               n == IF kind = "recover" THEN user.streak + 1
                    ELSE IF Points!Continues(user) THEN user.streak + 1 ELSE 1
               v == [Points!Idle EXCEPT !.kind = kind, !.wallet = w, !.tx = t, !.seen = user,
                                        !.on = day, !.next = n, !.at = p]
    <3>1. p \in {"award", "clear", "lookup"}
      OBVIOUS
    <3>2. v.at = p
      BY DEF Points!Idle
    <3>3. pointReq' = [pointReq EXCEPT ![r] = v]
      BY <2>1 DEF Points!Begin
    <3> QED
      BY <3>1, <3>2, <3>3
  <2>5. \A s \in Requests : pointReq'[s].at \in {"history", "refund"} => pointReq'[s] = pointReq[s]
    BY <2>2, <2>4
  <2> QED
    BY <1>1, <2>3, <2>5, SpentStays DEF TicketsInv
<1> QED
  <2>1. \A r \in Requests, w \in Wallets, t \in Txs :
            \/ Points!BeginCheckIn(r, w, t) \/ Points!BeginRecover(r, w, t)
            \/ Points!BeginSpin(r, w, t)
            => \E kind \in Points!AllKinds : Points!Begin(r, kind, w, t)
    BY DEF Points!BeginCheckIn, Points!BeginRecover, Points!BeginSpin, Points!AllKinds
  <2>2. \A r \in Requests, w \in Wallets :
            Points!BeginReset(r, w) \/ Points!BeginEarn(r, w)
            => \E kind \in Points!AllKinds : Points!Begin(r, kind, w, Nobody)
    BY DEF Points!BeginReset, Points!BeginEarn, Points!AllKinds
  <2>3. CASE \E r \in Requests, w \in Wallets, t \in Txs :
                 Points!BeginCheckIn(r, w, t) \/ Points!BeginRecover(r, w, t)
                 \/ Points!BeginSpin(r, w, t)
    <3>1. PICK r \in Requests, w \in Wallets, t \in Txs :
                 Points!BeginCheckIn(r, w, t) \/ Points!BeginRecover(r, w, t)
                 \/ Points!BeginSpin(r, w, t)
      BY <2>3
    <3>2. PICK kind \in Points!AllKinds : Points!Begin(r, kind, w, t)
      BY <2>1, <3>1
    <3> QED
      BY <1>4, <3>2
  <2>4. CASE \E r \in Requests, w \in Wallets : Points!BeginReset(r, w) \/ Points!BeginEarn(r, w)
    <3>1. PICK r \in Requests, w \in Wallets : Points!BeginReset(r, w) \/ Points!BeginEarn(r, w)
      BY <2>4
    <3>2. PICK kind \in Points!AllKinds : Points!Begin(r, kind, w, Nobody)
      BY <2>2, <3>1
    <3>3. Nobody \in Txs \cup {Nobody}
      OBVIOUS
    <3> QED
      BY <1>4, <3>2, <3>3
  <2>5. CASE Points!NextDay \/ \E t \in Txs : Points!MineTx(t)
    BY <1>3, <2>5
  <2>6. CASE Points!RewardsNext
    BY <1>2, <2>3, <2>4, <2>5, <2>6 DEF Points!RewardsNext
  <2>7. CASE UNCHANGED pointState
    <3>1. UNCHANGED <<tickets, granted, spins, pointReq>>
      BY <2>7 DEF pointState
    <3> QED
      BY <1>1, <3>1, SpentStays DEF TicketsInv
  <2> QED
    BY <2>6, <2>7

LEMMA TicketsInvAlways == AccountsSpec => []TicketsInv
<1>1. AccountsInit => TicketsInv
  <2> SUFFICES ASSUME AccountsInit PROVE TicketsInv
    OBVIOUS
  <2>1. Points!RewardsInit
    BY DEF AccountsInit
  <2>2. PointsInv
    BY <2>1, PointsStartRight
  <2>3. ASSUME NEW w \in Wallets PROVE Covered(w)
    <3>1. Points!SpinsOf(w) = {} /\ Spending(w) = {}
      BY <2>1 DEF Points!RewardsInit, Points!SpinsOf, Spending, Points!Idle
    <3>2. IsFiniteSet({}) /\ Cardinality({}) = 0
      BY FS_EmptySet
    <3>3. tickets[w] = 0 /\ granted[w] = 0 /\ Cost \in Nat
      BY <2>1, AccountsAssumption DEF Points!RewardsInit, Points!RewardsAssumption
    <3> QED
      BY <3>1, <3>2, <3>3 DEF Covered
  <2> QED
    BY <2>2, <2>3 DEF TicketsInv
<1> QED
  BY <1>1, TicketStepsKeep, PointsGoOn, PTL DEF AccountsSpec

-----------------------------------------------------------------------------
\* What follows

\* The balance never shows more points than were awarded, whatever copy it is written from.
THEOREM PointsEarned == AccountsSpec => []Points!BalanceEarned
<1>1. PointsInv => Points!BalanceEarned
  BY DEF PointsInv, TablesRight, Points!BalanceEarned
<1> QED
  BY <1>1, PointsInvAlways, PTL

\* A streak has its check-ins behind it, also when a payment restores a day.
THEOREM StreaksEarned == AccountsSpec => []Points!StreakEarned
<1>1. PointsInv => Points!StreakEarned
  BY SameCount
     DEF PointsInv, TablesRight, Backed, DaysUpTo, Days, Points!StreakEarned, Points!Days
<1> QED
  BY <1>1, PointsInvAlways, PTL

\* A day is paid once, a payment restores once and a spin brings one prize.
THEOREM PointsRewardOnce ==
  AccountsSpec => []( /\ Points!CheckInPaidOnce /\ Points!OneRestorePerPayment
                      /\ Points!OnePrizePerSpin)
<1>1. PointsInv => Points!CheckInPaidOnce /\ Points!OneRestorePerPayment /\ Points!OnePrizePerSpin
  <2> SUFFICES ASSUME PointsInv
               PROVE  Points!CheckInPaidOnce /\ Points!OneRestorePerPayment /\ Points!OnePrizePerSpin
    OBVIOUS
  <2>1. ASSUME NEW t \in Txs PROVE spinPay[t] <= Cardinality(spins[t])
    <3>1. /\ spins[t] = {} \/ \E w \in Wallets : spins[t] = {w}
          /\ spinPay[t] = 0 \/ (spinPay[t] = 1 /\ spins[t] # {})
      BY DEF PointsInv, TablesRight
    <3>2. CASE spins[t] = {}
      <4>1. Cardinality(spins[t]) = 0
        BY <3>2, FS_EmptySet
      <4> QED
        BY <3>1, <3>2, <4>1
    <3>3. CASE \E w \in Wallets : spins[t] = {w}
      <4>1. Cardinality(spins[t]) = 1
        BY <3>3, FS_Singleton
      <4> QED
        BY <3>1, <4>1
    <3> QED
      BY <3>1, <3>2, <3>3
  <2>2. Points!OnePrizePerSpin
    BY <2>1, SameCount DEF Points!OnePrizePerSpin
  <2> QED
    BY <2>2 DEF PointsInv, TablesRight, Points!CheckInPaidOnce, Points!OneRestorePerPayment,
       Points!Days, Days
<1> QED
  BY <1>1, PointsInvAlways, PTL

\* What a wallet holds and what it spent on spins was granted to it.
THEOREM TicketsAlwaysCovered == AccountsSpec => []Points!TicketsCovered
<1>1. TicketsInv => Points!TicketsCovered
  <2> SUFFICES ASSUME TicketsInv, NEW w \in Wallets
               PROVE  tickets[w] + Cost * Cardinality(Points!SpinsOf(w)) <= granted[w]
    BY SameCount DEF Points!TicketsCovered
  <2>1. PICK s \in Nat, n \in Nat : /\ s = Cardinality(Points!SpinsOf(w))
                                   /\ n = s + Cardinality(Spending(w)) /\ s <= n
    BY CoveredBasics
  <2>2. PICK b \in Nat, g \in Nat, e \in Nat, f \in Nat :
            b = tickets[w] /\ g = granted[w] /\ e = Cost * s /\ f = Cost * n /\ e <= f
    BY <2>1, CoveredBasics, CostTimes
  <2>3. b + f <= g
    BY <2>1, <2>2 DEF TicketsInv, Covered
  <2>4. b + e <= g
    BY <2>2, <2>3
  <2> QED
    BY <2>1, <2>2, <2>4
<1> QED
  BY <1>1, TicketsInvAlways, PTL

-----------------------------------------------------------------------------
(***************************************************************************)
(* WalletLink for any wallets, accounts, tokens and requests.              *)
(*                                                                         *)
(* An account that was merged away never comes back, since ids are not     *)
(* used again, and what one that is in use was awarded only grows: what an *)
(* award has read stays backed until it writes it, or the account is gone  *)
(* (LinkRight).                                                            *)
(***************************************************************************)

LinkRow == [source : Links!Accounts \cup {Nobody}, wallet : LinkedWallets \cup {Nobody},
            status : {"unused", "pending", "consumed", "cancelled", "expired"}]
LinkRequest == [at : Links!Places, wallet : LinkedWallets \cup {Nobody},
                token : Links!Tokens \cup {Nobody}, account : Links!Accounts \cup {Nobody},
                seen : Nat]

\* What every account was awarded, whether or not the event of the award went in.
AwardedTo == [a \in Links!Accounts |-> ledger[a] + unlogged[a]]

LinkTypes ==
    /\ wallet \in [LinkedWallets -> [owner : Links!Accounts, primary : BOOLEAN]]
    /\ users \in [Links!Accounts -> [address : LinkedWallets \cup {Nobody}, points : Nat]]
    /\ lastId \in Links!Accounts
    /\ ledger \in [Links!Accounts -> Nat] /\ unlogged \in [Links!Accounts -> Nat]
    /\ AwardedTo \in [Links!Accounts -> Nat]
    /\ link \in [Links!Tokens -> LinkRow]
    /\ merged \subseteq LinkedWallets /\ bonuses \in [LinkedWallets -> Nat]
    /\ uses \in [Links!Tokens -> SUBSET LinkedWallets] /\ stray \in BOOLEAN
    /\ linkReq \in [Requests -> LinkRequest]

\* Every account that is named has an id that was given out.
SourcesGiven ==
    \A t \in Links!Tokens : link[t].status # "unused" =>
        link[t].source \in Links!Accounts /\ link[t].source <= lastId
IdsGiven == SourcesGiven /\ \A w \in LinkedWallets : wallet[w].owner <= lastId

Different == {"primary", "alone", "room", "lookup", "merge"}

LinkRight(q) ==
    /\ q.at # "idle" => q.wallet \in LinkedWallets
    /\ q.at \notin {"idle", "target"} => q.account \in Links!Accounts /\ q.account <= lastId
    /\ q.at \in {"target", "same", "answer"} \cup Different =>
           q.token \in Links!Tokens /\ link[q.token].status # "unused"
    /\ q.at \in Different => q.account # link[q.token].source
    /\ ~stray /\ q.at = "addEvent" /\ Links!Live(q.account) => q.seen <= AwardedTo[q.account]
    /\ ~stray /\ q.at = "addUser" /\ Links!Live(q.account) => q.seen + 1 <= AwardedTo[q.account]

BalancesHeld ==
    ~stray => \A a \in Links!Accounts : Links!Live(a) => users[a].points <= AwardedTo[a]

LinksInv ==
    /\ LinkTypes /\ IdsGiven
    /\ Links!BonusOncePerWallet /\ BalancesHeld
    /\ \A r \in Requests : LinkRight(linkReq[r])

LEMMA AwardedStays == UNCHANGED <<ledger, unlogged>> => AwardedTo' = AwardedTo
  BY DEF AwardedTo

LEMMA LinkBounds ==
  /\ MaxAccounts \in Nat /\ MaxTokens \in Nat /\ Links!Accounts = 1 .. MaxAccounts
  /\ Links!Tokens = 1 .. MaxTokens
  /\ Nobody \notin Links!Accounts /\ Nobody \notin LinkedWallets /\ Nobody \notin Links!Tokens
  /\ LinkBonus \in Nat \ {0}
  BY AccountsAssumption DEF Links!WalletLinkAssumption, Links!Accounts, Links!Tokens

-----------------------------------------------------------------------------
\* What a step has to keep for the requests it leaves alone

AccountsStay ==
    \A a \in Links!Accounts :
        a <= lastId /\ ~stray' /\ Links!Live(a)' => Links!Live(a) /\ AwardedTo[a] <= AwardedTo'[a]
SourcesStay ==
    \A t \in Links!Tokens : link[t].status # "unused" =>
        link'[t].status # "unused" /\ link'[t].source = link[t].source

LEMMA LinkRightStays ==
  ASSUME LinkTypes, LinkTypes', lastId <= lastId', stray => stray', AccountsStay, SourcesStay,
         NEW q \in LinkRequest, LinkRight(q)
  PROVE  LinkRight(q)'
<1>1. q.at \notin {"idle", "target"} =>
          q.account \in Links!Accounts /\ q.account <= lastId /\ q.account <= lastId'
  BY LinkBounds DEF LinkRight, LinkTypes
<1>2. q.at \in {"addEvent", "addUser"} /\ ~stray' /\ Links!Live(q.account)' =>
          /\ Links!Live(q.account) /\ q.account \in Links!Accounts
          /\ AwardedTo[q.account] <= AwardedTo'[q.account]
  BY <1>1 DEF AccountsStay
<1>3. \A a \in Links!Accounts : AwardedTo[a] \in Nat /\ AwardedTo'[a] \in Nat
  BY DEF LinkTypes
<1>4. q.seen \in Nat
  BY DEF LinkRequest
<1>5. q.at = "addEvent" /\ ~stray' /\ Links!Live(q.account)' => q.seen <= AwardedTo'[q.account]
  <2> SUFFICES ASSUME q.at = "addEvent", ~stray', Links!Live(q.account)'
               PROVE  q.seen <= AwardedTo'[q.account]
    OBVIOUS
  <2>1. PICK x \in Nat, y \in Nat : x = AwardedTo[q.account] /\ y = AwardedTo'[q.account] /\ x <= y
    BY <1>2, <1>3
  <2>2. q.seen <= x
    BY <1>2, <2>1 DEF LinkRight
  <2> QED
    BY <1>4, <2>1, <2>2
<1>6. q.at = "addUser" /\ ~stray' /\ Links!Live(q.account)' => q.seen + 1 <= AwardedTo'[q.account]
  <2> SUFFICES ASSUME q.at = "addUser", ~stray', Links!Live(q.account)'
               PROVE  q.seen + 1 <= AwardedTo'[q.account]
    OBVIOUS
  <2>1. PICK x \in Nat, y \in Nat : x = AwardedTo[q.account] /\ y = AwardedTo'[q.account] /\ x <= y
    BY <1>2, <1>3
  <2>2. q.seen + 1 <= x
    BY <1>2, <2>1 DEF LinkRight
  <2> QED
    BY <1>4, <2>1, <2>2
<1>7. q.at \in {"target", "same", "answer"} \cup Different =>
          q.token \in Links!Tokens /\ link'[q.token].status # "unused"
          /\ link'[q.token].source = link[q.token].source
  BY DEF LinkRight, SourcesStay
<1> QED
  BY <1>1, <1>5, <1>6, <1>7 DEF LinkRight, Different

LEMMA LinkMoves ==
  ASSUME LinksInv, LinkTypes', lastId <= lastId', stray => stray', AccountsStay, SourcesStay,
         IdsGiven', Links!BonusOncePerWallet', BalancesHeld',
         \A s \in Requests : linkReq'[s] = linkReq[s] \/ LinkRight(linkReq[s])'
  PROVE  LinksInv'
<1>1. ASSUME NEW s \in Requests PROVE LinkRight(linkReq[s])'
  <2>1. CASE linkReq'[s] = linkReq[s]
    <3>1. PICK q \in LinkRequest : q = linkReq[s] /\ LinkRight(q)
      BY DEF LinksInv, LinkTypes
    <3>2. LinkTypes
      BY DEF LinksInv
    <3>3. LinkRight(q)'
      BY <3>1, <3>2, LinkRightStays
    <3> QED
      BY <2>1, <3>1, <3>3 DEF LinkRight
  <2>2. CASE LinkRight(linkReq[s])'
    BY <2>2
  <2> QED
    BY <2>1, <2>2
<1> QED
  BY <1>1 DEF LinksInv

\* A request reads, or the rows of the link requests change.
LEMMA LinkReads ==
  ASSUME LinksInv, UNCHANGED <<wallet, users, lastId, ledger, unlogged, merged, bonuses, uses, stray>>,
         link' \in [Links!Tokens -> LinkRow], SourcesStay, SourcesGiven',
         linkReq' \in [Requests -> LinkRequest],
         \A s \in Requests : linkReq'[s] = linkReq[s] \/ LinkRight(linkReq[s])'
  PROVE  LinksInv'
<1>1. AwardedTo' = AwardedTo /\ LinkTypes'
  BY AwardedStays DEF LinksInv, LinkTypes
<1>2. lastId <= lastId'
  BY LinkBounds DEF LinksInv, LinkTypes
<1>3. AccountsStay
  <2> SUFFICES ASSUME NEW a \in Links!Accounts PROVE AwardedTo[a] <= AwardedTo'[a] /\ (Links!Live(a)' <=> Links!Live(a))
    BY DEF AccountsStay
  <2>1. AwardedTo[a] \in Nat /\ AwardedTo' = AwardedTo /\ users' = users
    BY <1>1 DEF LinksInv, LinkTypes
  <2> QED
    BY <2>1 DEF Links!Live
<1>4. Links!BonusOncePerWallet' /\ BalancesHeld'
  BY <1>1 DEF LinksInv, Links!BonusOncePerWallet, BalancesHeld, Links!Live
<1>5. IdsGiven'
  BY DEF LinksInv, IdsGiven
<1> QED
  BY <1>1, <1>2, <1>3, <1>4, <1>5, LinkMoves

\* One request reads, and goes on as q.
LEMMA OneReads ==
  ASSUME LinksInv, NEW r \in Requests, NEW q \in LinkRequest,
         UNCHANGED <<wallet, users, lastId, ledger, unlogged, merged, bonuses, uses, stray, link>>,
         linkReq' = [linkReq EXCEPT ![r] = q], LinkRight(q)
  PROVE  LinksInv'
<1>1. linkReq' \in [Requests -> LinkRequest]
  BY DEF LinksInv, LinkTypes
<1>2. \A s \in Requests : s # r => linkReq'[s] = linkReq[s]
  BY DEF LinksInv, LinkTypes
<1>3. linkReq'[r] = q
  BY DEF LinksInv, LinkTypes
<1>4. LinkRight(q)'
  BY AwardedStays DEF LinkRight, Links!Live
<1>5. LinkRight(linkReq[r])'
  BY <1>3, <1>4 DEF LinkRight
<1>6. SourcesStay /\ SourcesGiven' /\ link' \in [Links!Tokens -> LinkRow]
  BY DEF LinksInv, LinkTypes, SourcesStay, IdsGiven, SourcesGiven
<1> QED
  BY <1>1, <1>2, <1>5, <1>6, LinkReads

-----------------------------------------------------------------------------
\* Requests that only read

LEMMA IdleIsLink == Links!Idle \in LinkRequest /\ LinkRight(Links!Idle)
  BY DEF Links!Idle, LinkRequest, Links!Places, LinkRight, Different

\* The request ends.
LEMMA LinkReturns ==
  ASSUME LinksInv, NEW r \in Requests, Links!Return(r),
         UNCHANGED <<wallet, users, lastId, ledger, unlogged, merged, bonuses, uses, stray, link>>
  PROVE  LinksInv'
  BY IdleIsLink, OneReads DEF Links!Return

\* The request goes on, for the account and the token it has.
LEMMA LinkGoes ==
  ASSUME LinksInv, NEW r \in Requests, NEW place \in Links!Places, Links!Goto(r, place)
  PROVE  \E q \in LinkRequest :
             /\ linkReq' = [linkReq EXCEPT ![r] = q] /\ q.at = place
             /\ q.wallet = linkReq[r].wallet /\ q.token = linkReq[r].token
             /\ q.account = linkReq[r].account /\ q.seen = linkReq[r].seen
<1> DEFINE q == [linkReq[r] EXCEPT !.at = place]
<1>1. linkReq[r] \in LinkRequest /\ linkReq \in [Requests -> LinkRequest]
  BY DEF LinksInv, LinkTypes
<1>2. q \in LinkRequest /\ q.at = place /\ q.wallet = linkReq[r].wallet /\ q.token = linkReq[r].token
      /\ q.account = linkReq[r].account /\ q.seen = linkReq[r].seen
  BY <1>1 DEF LinkRequest
<1>3. linkReq' = [linkReq EXCEPT ![r] = q]
  BY DEF Links!Goto
<1> QED
  BY <1>2, <1>3

\* Where a lookup that refuses nothing goes on.
GoesOn(from, place) ==
    <<from, place>> \in {<<"countOwn", "cancel">>, <<"primary", "alone">>, <<"alone", "room">>,
                         <<"room", "lookup">>, <<"check", "detach">>}

LEMMA LooksKeep ==
  ASSUME LinksInv, NEW r \in Requests,
         \/ Links!Throws(r) \/ Links!CountOwn(r) \/ Links!CheckPrimary(r) \/ Links!CheckAlone(r)
         \/ Links!CheckRoom(r) \/ Links!Answer(r) \/ Links!CheckRow(r)
  PROVE  LinksInv'
<1> DEFINE still == UNCHANGED <<wallet, users, lastId, ledger, unlogged, merged, bonuses, uses, stray, link>>
<1>1. still
  BY DEF Links!Throws, Links!CountOwn, Links!CheckPrimary, Links!CheckAlone, Links!CheckRoom,
     Links!Answer, Links!CheckRow, Links!accountVars, Links!mergeVars
<1>2. \/ Links!Return(r)
      \/ linkReq[r].at = "countOwn" /\ Links!Goto(r, "cancel")
      \/ linkReq[r].at = "primary" /\ Links!Goto(r, "alone")
      \/ linkReq[r].at = "alone" /\ Links!Goto(r, "room")
      \/ linkReq[r].at = "room" /\ Links!Goto(r, "lookup")
      \/ linkReq[r].at = "check" /\ Links!Goto(r, "detach")
  BY DEF Links!Throws, Links!CountOwn, Links!CheckPrimary, Links!CheckAlone, Links!CheckRoom,
     Links!Answer, Links!CheckRow, Links!At
<1>3. ASSUME NEW from \in Links!Places, NEW place \in Links!Places, linkReq[r].at = from,
             Links!Goto(r, place),
             GoesOn(from, place)
      PROVE  LinksInv'
  <2>1. PICK q \in LinkRequest :
             /\ linkReq' = [linkReq EXCEPT ![r] = q] /\ q.at = place
             /\ q.wallet = linkReq[r].wallet /\ q.token = linkReq[r].token
             /\ q.account = linkReq[r].account /\ q.seen = linkReq[r].seen
    BY <1>3, LinkGoes
  <2>2. LinkRight(linkReq[r])
    BY DEF LinksInv
  <2>3. LinkRight(q)
    BY <1>3, <2>1, <2>2 DEF LinkRight, Different, GoesOn
  <2> QED
    BY <1>1, <2>1, <2>3, OneReads
<1>4. {"countOwn", "cancel", "primary", "alone", "room", "lookup", "check", "detach"} \subseteq Links!Places
  BY DEF Links!Places
<1>5. CASE Links!Return(r)
  BY <1>1, <1>5, LinkReturns
<1>6. CASE ~Links!Return(r)
  <2>1. PICK from \in Links!Places, place \in Links!Places :
            linkReq[r].at = from /\ Links!Goto(r, place) /\ GoesOn(from, place)
    BY <1>2, <1>4, <1>6 DEF GoesOn
  <2> QED
    BY <1>3, <2>1
<1> QED
  BY <1>5, <1>6

\* The request reads the row of its wallet or of its account.
LEMMA ReadsKeep ==
  ASSUME LinksInv, NEW r \in Requests, Links!ReadTarget(r) \/ Links!FindMerge(r)
  PROVE  LinksInv'
<1>1. UNCHANGED <<wallet, users, lastId, ledger, unlogged, merged, bonuses, uses, stray, link>>
  BY DEF Links!ReadTarget, Links!FindMerge, Links!accountVars, Links!mergeVars
<1>2. PICK p \in LinkRequest : p = linkReq[r] /\ LinkRight(p)
  BY DEF LinksInv, LinkTypes
<1>3. CASE Links!ReadTarget(r)
  <2>1. p.at = "target" /\ p.wallet \in LinkedWallets /\ p.token \in Links!Tokens
        /\ link[p.token].status # "unused"
    BY <1>2, <1>3 DEF Links!ReadTarget, Links!At, LinkRight
  <2>2. PICK o \in Links!Accounts : o = wallet[p.wallet].owner /\ o <= lastId
    BY <2>1 DEF LinksInv, LinkTypes, IdsGiven
  <2>3. PICK at \in {"same", "primary"} :
            at = IF o = link[p.token].source THEN "same" ELSE "primary"
    OBVIOUS
  <2> DEFINE q == [p EXCEPT !.account = o, !.at = at]
  <2>4. q \in LinkRequest /\ q.at = at /\ q.account = o /\ q.wallet = p.wallet /\ q.token = p.token
    BY <2>2, <2>3 DEF LinkRequest, Links!Places
  <2>5. linkReq' = [linkReq EXCEPT ![r] = q]
    BY <1>2, <1>3, <2>2, <2>3 DEF Links!ReadTarget, Links!Source
  <2> HIDE DEF q
  <2>6. LinkRight(q)
    BY <2>1, <2>2, <2>3, <2>4 DEF LinkRight, Different
  <2> QED
    BY <1>1, <2>4, <2>5, <2>6, OneReads
<1>4. CASE Links!FindMerge(r)
  <2>1. p.at = "lookup" /\ p.account \in Links!Accounts
    BY <1>2, <1>4 DEF Links!FindMerge, Links!At, LinkRight
  <2>2. PICK n \in Nat : n = users[p.account].points
    BY <2>1 DEF LinksInv, LinkTypes
  <2>3. PICK at \in {"answer", "merge"} : at = IF p.wallet \in merged THEN "answer" ELSE "merge"
    OBVIOUS
  <2> DEFINE q == [p EXCEPT !.at = at, !.seen = n]
  <2>4. q \in LinkRequest /\ q.at = at /\ q.account = p.account /\ q.wallet = p.wallet
        /\ q.token = p.token
    BY <2>2, <2>3 DEF LinkRequest, Links!Places
  <2>5. linkReq' = [linkReq EXCEPT ![r] = q]
    BY <1>2, <1>4, <2>2, <2>3 DEF Links!FindMerge
  <2> HIDE DEF q
  <2>6. LinkRight(q)
    BY <1>2, <2>1, <2>3, <2>4 DEF LinkRight, Different
  <2> QED
    BY <1>1, <2>4, <2>5, <2>6, OneReads
<1> QED
  BY <1>3, <1>4

\* A request begins.
LEMMA BeginsKeep ==
  ASSUME LinksInv, NEW r \in Requests, NEW w \in LinkedWallets,
         \/ Links!BeginCreate(r, w) \/ Links!ReadWalletRow(r, w) \/ Links!BeginAward(r, w)
         \/ \E t \in Links!Tokens : Links!LoadLink(r, w, t)
  PROVE  LinksInv'
<1>1. UNCHANGED <<wallet, users, lastId, ledger, unlogged, merged, bonuses, uses, stray, link>>
  BY DEF Links!BeginCreate, Links!ReadWalletRow, Links!BeginAward, Links!LoadLink,
     Links!accountVars, Links!mergeVars
<1>2. PICK o \in Links!Accounts : o = wallet[w].owner /\ o <= lastId
  BY DEF LinksInv, LinkTypes, IdsGiven
<1>3. PICK n \in Nat : n = users[o].points
  BY DEF LinksInv, LinkTypes
<1>4. ~stray /\ Links!Live(o) => n <= AwardedTo[o]
  BY <1>2, <1>3 DEF LinksInv, BalancesHeld
<1>5. CASE Links!BeginCreate(r, w) \/ Links!ReadWalletRow(r, w)
  <2>1. PICK at \in {"countOwn", "check"} :
            linkReq' = [linkReq EXCEPT ![r] = [Links!Idle EXCEPT !.at = at, !.wallet = w, !.account = o]]
    BY <1>2, <1>5 DEF Links!BeginCreate, Links!ReadWalletRow
  <2> DEFINE q == [Links!Idle EXCEPT !.at = at, !.wallet = w, !.account = o]
  <2>2. q \in LinkRequest /\ q.at = at /\ q.wallet = w /\ q.account = o
    BY DEF Links!Idle, LinkRequest, Links!Places
  <2>3. linkReq' = [linkReq EXCEPT ![r] = q]
    BY <2>1
  <2> HIDE DEF q
  <2>4. LinkRight(q)
    BY <1>2, <2>2 DEF LinkRight, Different
  <2> QED
    BY <1>1, <2>2, <2>3, <2>4, OneReads
<1>6. CASE Links!BeginAward(r, w)
  <2> DEFINE q == [Links!Idle EXCEPT !.at = "addEvent", !.wallet = w, !.account = o, !.seen = n]
  <2>1. q \in LinkRequest /\ q.at = "addEvent" /\ q.wallet = w /\ q.account = o /\ q.seen = n
    BY DEF Links!Idle, LinkRequest, Links!Places
  <2>2. linkReq' = [linkReq EXCEPT ![r] = q]
    BY <1>2, <1>3, <1>6 DEF Links!BeginAward
  <2> HIDE DEF q
  <2>3. LinkRight(q)
    BY <1>2, <1>4, <2>1 DEF LinkRight, Different
  <2> QED
    BY <1>1, <2>1, <2>2, <2>3, OneReads
<1>7. CASE \E t \in Links!Tokens : Links!LoadLink(r, w, t)
  <2>0. PICK t \in Links!Tokens : Links!LoadLink(r, w, t)
    BY <1>7
  <2> DEFINE q == [Links!Idle EXCEPT !.at = "target", !.wallet = w, !.token = t]
  <2>1. q \in LinkRequest /\ q.at = "target" /\ q.wallet = w /\ q.token = t
    BY DEF Links!Idle, LinkRequest, Links!Places
  <2>2. linkReq' = [linkReq EXCEPT ![r] = q] /\ link[t].status = "pending"
    BY <2>0 DEF Links!LoadLink
  <2> HIDE DEF q
  <2>3. LinkRight(q)
    BY <2>1, <2>2 DEF LinkRight, Different
  <2> QED
    BY <1>1, <2>1, <2>2, <2>3, OneReads
<1> QED
  BY <1>5, <1>6, <1>7

-----------------------------------------------------------------------------
\* The rows of the link requests

\* The other requests are as they were, and r is as q.
LEMMA LinkAsQ ==
  ASSUME LinksInv, NEW r \in Requests, NEW q \in LinkRequest, linkReq' = [linkReq EXCEPT ![r] = q],
         LinkRight(q)'
  PROVE  /\ linkReq' \in [Requests -> LinkRequest]
         /\ \A s \in Requests : linkReq'[s] = linkReq[s] \/ LinkRight(linkReq[s])'
<1>1. linkReq' \in [Requests -> LinkRequest]
  BY DEF LinksInv, LinkTypes
<1>2. \A s \in Requests : s # r => linkReq'[s] = linkReq[s]
  BY DEF LinksInv, LinkTypes
<1>3. linkReq'[r] = q
  BY DEF LinksInv, LinkTypes
<1>4. LinkRight(linkReq[r])'
  BY <1>3 DEF LinkRight
<1> QED
  BY <1>1, <1>2, <1>4

\* A row of a token that is in use keeps its account.
LEMMA RowsKeepSource ==
  ASSUME LinksInv, NEW n \in [Links!Tokens -> LinkRow], link' = n, lastId' = lastId,
         \A t \in Links!Tokens :
             \/ n[t] = link[t]
             \/ n[t].status # "unused" /\ link[t].status # "unused" /\ n[t].source = link[t].source
             \/ link[t].status = "unused" /\ n[t].source \in Links!Accounts /\ n[t].source <= lastId
  PROVE  SourcesStay /\ SourcesGiven' /\ link' \in [Links!Tokens -> LinkRow]
<1>1. \A t \in Links!Tokens : n[t].status # "unused" =>
          n[t].source \in Links!Accounts /\ n[t].source <= lastId
  BY DEF LinksInv, IdsGiven, SourcesGiven
<1> QED
  BY <1>1 DEF SourcesStay, SourcesGiven

LEMMA CancelKeeps ==
  ASSUME LinksInv, NEW r \in Requests, Links!CancelOlder(r)
  PROVE  LinksInv'
<1> DEFINE n == [t \in Links!Tokens |->
                   IF link[t].source = linkReq[r].account /\ link[t].status = "pending"
                   THEN [link[t] EXCEPT !.status = "cancelled"] ELSE link[t]]
<1>1. UNCHANGED <<wallet, users, lastId, ledger, unlogged, merged, bonuses, uses, stray>> /\ link' = n
  BY DEF Links!CancelOlder, Links!accountVars, Links!mergeVars
<1>2. \A t \in Links!Tokens : link[t] \in LinkRow
  BY DEF LinksInv, LinkTypes
<1>3. \A t \in Links!Tokens : n[t] \in LinkRow /\
          (\/ n[t] = link[t]
           \/ n[t].status # "unused" /\ link[t].status # "unused" /\ n[t].source = link[t].source)
  BY <1>2 DEF LinkRow
<1>4. n \in [Links!Tokens -> LinkRow]
  BY <1>3
<1> HIDE DEF n
<1>5. SourcesStay /\ SourcesGiven' /\ link' \in [Links!Tokens -> LinkRow]
  BY <1>1, <1>3, <1>4, RowsKeepSource
<1>6. "insert" \in Links!Places
  BY DEF Links!Places
<1>7. PICK q \in LinkRequest :
             /\ linkReq' = [linkReq EXCEPT ![r] = q] /\ q.at = "insert"
             /\ q.wallet = linkReq[r].wallet /\ q.token = linkReq[r].token
             /\ q.account = linkReq[r].account /\ q.seen = linkReq[r].seen
  BY <1>6, LinkGoes DEF Links!CancelOlder
<1>8. LinkRight(linkReq[r]) /\ linkReq[r].at = "cancel" /\ lastId' = lastId
  BY <1>1 DEF LinksInv, Links!CancelOlder, Links!At
<1>9. LinkRight(q)'
  BY <1>7, <1>8 DEF LinkRight, Different
<1> QED
  BY <1>1, <1>5, <1>7, <1>9, LinkAsQ, LinkReads

LEMMA IdleStaysRight == LinkRight(Links!Idle)'
  BY DEF Links!Idle, LinkRight, Different

LEMMA InsertLinkKeeps ==
  ASSUME LinksInv, NEW r \in Requests, NEW t \in Links!Tokens, Links!InsertLink(r, t)
  PROVE  LinksInv'
<1>1. PICK p \in LinkRequest : p = linkReq[r] /\ LinkRight(p) /\ p.at = "insert"
  BY DEF LinksInv, LinkTypes, Links!InsertLink, Links!At
<1>2. p.account \in Links!Accounts /\ p.account <= lastId /\ p.wallet \in LinkedWallets
  BY <1>1 DEF LinkRight
<1> DEFINE c == [source |-> p.account, wallet |-> p.wallet, status |-> "pending"]
           n == [link EXCEPT ![t] = c]
<1>3. c \in LinkRow /\ c.source = p.account
  BY <1>2 DEF LinkRow
<1>4. /\ UNCHANGED <<wallet, users, lastId, ledger, unlogged, merged, bonuses, uses, stray>>
      /\ link' = [link EXCEPT ![t] = c]
      /\ link[t].status = "unused" /\ linkReq' = [linkReq EXCEPT ![r] = Links!Idle]
  BY <1>1 DEF Links!InsertLink, Links!accountVars, Links!mergeVars, Links!Return, Links!Unused
<1> HIDE DEF c
<1>5. n \in [Links!Tokens -> LinkRow] /\ \A s \in Links!Tokens : n[s] = IF s = t THEN c ELSE link[s]
  BY <1>3 DEF LinksInv, LinkTypes
<1>6. link' = n
  BY <1>4
<1> HIDE DEF n
<1>7. SourcesStay /\ SourcesGiven' /\ link' \in [Links!Tokens -> LinkRow]
  BY <1>2, <1>3, <1>4, <1>5, <1>6, RowsKeepSource
<1> QED
  BY <1>4, <1>7, IdleIsLink, IdleStaysRight, LinkAsQ, LinkReads

\* A row of a token that is in use gets another status.
LEMMA StatusKeeps ==
  ASSUME LinksInv, NEW t \in Links!Tokens, NEW x \in {"consumed", "expired"},
         link[t].status # "unused", link' = [link EXCEPT ![t].status = x],
         lastId' = lastId
  PROVE  SourcesStay /\ SourcesGiven' /\ link' \in [Links!Tokens -> LinkRow]
<1> DEFINE c == [link[t] EXCEPT !.status = x]
           n == [link EXCEPT ![t] = c]
<1>1. link[t] \in LinkRow /\ link \in [Links!Tokens -> LinkRow]
  BY DEF LinksInv, LinkTypes
<1>2. c \in LinkRow /\ c.source = link[t].source /\ c.status = x
  BY <1>1 DEF LinkRow
<1>3. link' = [link EXCEPT ![t] = c]
  OBVIOUS
<1> HIDE DEF c
<1>4. n \in [Links!Tokens -> LinkRow] /\ \A s \in Links!Tokens : n[s] = IF s = t THEN c ELSE link[s]
  BY <1>1, <1>2
<1>5. link' = n
  BY <1>3
<1> HIDE DEF n
<1>6. \A s \in Links!Tokens :
          n[s] = link[s] \/ (n[s].status # "unused" /\ link[s].status # "unused"
                              /\ n[s].source = link[s].source)
  BY <1>2, <1>4
<1> QED
  BY <1>4, <1>5, <1>6, RowsKeepSource

LEMMA ConsumeKeeps ==
  ASSUME LinksInv, NEW r \in Requests, Links!ConsumeSame(r)
  PROVE  LinksInv'
<1>1. /\ UNCHANGED <<wallet, users, lastId, ledger, unlogged, merged, bonuses, uses, stray>>
      /\ link' = [link EXCEPT ![linkReq[r].token].status = "consumed"]
      /\ linkReq' = [linkReq EXCEPT ![r] = Links!Idle] /\ linkReq[r].at = "same"
  BY DEF Links!ConsumeSame, Links!accountVars, Links!mergeVars, Links!Return, Links!At
<1>2. linkReq[r].token \in Links!Tokens /\ link[linkReq[r].token].status # "unused"
  BY <1>1 DEF LinksInv, LinkRight
<1>3. SourcesStay /\ SourcesGiven' /\ link' \in [Links!Tokens -> LinkRow]
  BY <1>1, <1>2, StatusKeeps
<1> QED
  BY <1>1, <1>3, IdleIsLink, IdleStaysRight, LinkAsQ, LinkReads

LEMMA ExpireKeeps ==
  ASSUME LinksInv, NEW t \in Links!Tokens, Links!Expire(t)
  PROVE  LinksInv'
<1>1. /\ UNCHANGED <<wallet, users, lastId, ledger, unlogged, merged, bonuses, uses, stray, linkReq>>
      /\ link' = [link EXCEPT ![t].status = "expired"] /\ link[t].status = "pending"
  BY DEF Links!Expire, Links!accountVars, Links!mergeVars
<1>2. SourcesStay /\ SourcesGiven' /\ link' \in [Links!Tokens -> LinkRow]
  BY <1>1, StatusKeeps
<1>3. linkReq' \in [Requests -> LinkRequest]
  BY <1>1 DEF LinksInv, LinkTypes
<1> QED
  BY <1>1, <1>2, <1>3, LinkReads

-----------------------------------------------------------------------------
\* Awards and accounts

LEMMA AddEventKeeps ==
  ASSUME LinksInv, NEW r \in Requests, Links!AddEvent(r)
  PROVE  LinksInv'
<1>1. /\ UNCHANGED <<wallet, users, lastId, merged, bonuses, uses, stray, link>>
      /\ linkReq[r].at = "addEvent" /\ Links!Goto(r, "addUser")
  BY DEF Links!AddEvent, Links!mergeVars, Links!At
<1>2. PICK q \in LinkRequest :
             /\ linkReq' = [linkReq EXCEPT ![r] = q] /\ q.at = "addUser"
             /\ q.wallet = linkReq[r].wallet /\ q.token = linkReq[r].token
             /\ q.account = linkReq[r].account /\ q.seen = linkReq[r].seen
  BY <1>1, LinkGoes DEF Links!Places
<1>3. LinkRight(linkReq[r]) /\ q.account \in Links!Accounts /\ q.account <= lastId
      /\ q.wallet \in LinkedWallets /\ q.seen \in Nat
  BY <1>1, <1>2 DEF LinksInv, LinkRight, LinkRequest
<1>4. PICK n \in Nat : n = AwardedTo[q.account]
  BY <1>3 DEF LinksInv, LinkTypes
<1>5. /\ ledger' \in [Links!Accounts -> Nat] /\ unlogged' \in [Links!Accounts -> Nat]
      /\ AwardedTo' = [AwardedTo EXCEPT ![q.account] = n + 1]
  <2>1. PICK l \in Nat, u \in Nat : l = ledger[q.account] /\ u = unlogged[q.account] /\ n = l + u
    BY <1>3, <1>4 DEF LinksInv, LinkTypes, AwardedTo
  <2>2. \/ ledger' = [ledger EXCEPT ![q.account] = l + 1] /\ unlogged' = unlogged
        \/ unlogged' = [unlogged EXCEPT ![q.account] = u + 1] /\ ledger' = ledger
    BY <1>2, <2>1 DEF Links!AddEvent
  <2>3. ledger \in [Links!Accounts -> Nat] /\ unlogged \in [Links!Accounts -> Nat]
    BY DEF LinksInv, LinkTypes
  <2>4. /\ ledger' \in [Links!Accounts -> Nat] /\ unlogged' \in [Links!Accounts -> Nat]
        /\ ledger'[q.account] + unlogged'[q.account] = n + 1
        /\ \A a \in Links!Accounts : a # q.account =>
               ledger'[a] = ledger[a] /\ unlogged'[a] = unlogged[a]
    BY <1>3, <2>1, <2>2, <2>3
  <2>5. AwardedTo' = [a \in Links!Accounts |-> IF a = q.account THEN n + 1 ELSE AwardedTo[a]]
    BY <2>4 DEF AwardedTo
  <2>6. AwardedTo \in [Links!Accounts -> Nat]
    BY DEF LinksInv, LinkTypes
  <2> QED
    BY <2>4, <2>5, <2>6
<1>6. /\ AwardedTo' \in [Links!Accounts -> Nat] /\ AwardedTo'[q.account] = n + 1
      /\ \A a \in Links!Accounts : AwardedTo[a] <= AwardedTo'[a]
  <2>1. AwardedTo \in [Links!Accounts -> Nat]
    BY DEF LinksInv, LinkTypes
  <2> QED
    BY <1>3, <1>4, <1>5, <2>1
<1>7. LinkTypes' /\ lastId \in Nat
  <2>1. LinkTypes /\ lastId \in Nat
    BY LinkBounds DEF LinksInv, LinkTypes
  <2>2. linkReq' \in [Requests -> LinkRequest]
    BY <1>2, <2>1 DEF LinkTypes
  <2> QED
    BY <1>1, <1>5, <1>6, <2>1, <2>2 DEF LinkTypes
<1>8. AccountsStay /\ SourcesStay /\ lastId <= lastId' /\ IdsGiven'
  BY <1>1, <1>6, <1>7 DEF AccountsStay, SourcesStay, Links!Live, LinksInv, IdsGiven, SourcesGiven
<1>9. BalancesHeld' /\ Links!BonusOncePerWallet'
  <2>1. ASSUME NEW a \in Links!Accounts, users[a].points <= AwardedTo[a]
        PROVE  users'[a].points <= AwardedTo'[a]
    <3>1. PICK x \in Nat, y \in Nat, z \in Nat : x = users[a].points /\ y = AwardedTo[a] /\ z = AwardedTo'[a]
      BY <1>6 DEF LinksInv, LinkTypes
    <3>2. x <= y /\ y <= z /\ users'[a].points = x
      BY <1>1, <1>6, <2>1, <3>1
    <3> QED
      BY <3>1, <3>2
  <2> QED
    BY <1>1, <2>1 DEF LinksInv, BalancesHeld, Links!BonusOncePerWallet, Links!Live
<1>10. LinkRight(q)'
  <2>1. q.seen <= n => q.seen + 1 <= AwardedTo'[q.account]
    BY <1>3, <1>4, <1>6
  <2>2. ~stray /\ Links!Live(q.account) => q.seen <= n
    BY <1>1, <1>2, <1>3, <1>4 DEF LinkRight
  <2>3. ~stray' /\ Links!Live(q.account)' => q.seen + 1 <= AwardedTo'[q.account]
    BY <1>1, <2>1, <2>2 DEF Links!Live
  <2> QED
    BY <1>1, <1>2, <1>3, <2>3 DEF LinkRight, Different
<1>11. \A s \in Requests : linkReq'[s] = linkReq[s] \/ LinkRight(linkReq[s])'
  BY <1>2, <1>10, LinkAsQ
<1>12. stray => stray'
  BY <1>1
<1> QED
  BY <1>7, <1>8, <1>9, <1>11, <1>12, LinkMoves

LEMMA AddUserKeeps ==
  ASSUME LinksInv, NEW r \in Requests, Links!AddUser(r)
  PROVE  LinksInv'
<1>1. /\ UNCHANGED <<wallet, lastId, ledger, unlogged, merged, bonuses, uses, stray, link>>
      /\ linkReq[r].at = "addUser" /\ linkReq' = [linkReq EXCEPT ![r] = Links!Idle]
      /\ users' = [users EXCEPT ![linkReq[r].account].points = linkReq[r].seen + 1]
  BY DEF Links!AddUser, Links!mergeVars, Links!At, Links!Return
<1>2. PICK p \in LinkRequest : p = linkReq[r] /\ LinkRight(p)
  BY DEF LinksInv, LinkTypes
<1>3. PICK a \in Links!Accounts, n \in Nat :
          /\ a = p.account /\ n = p.seen + 1 /\ (~stray /\ Links!Live(a) => n <= AwardedTo[a])
  <2>1. p.account \in Links!Accounts
    BY <1>1, <1>2 DEF LinkRight
  <2>2. p.seen + 1 \in Nat
    BY <1>2 DEF LinkRequest
  <2>3. ~stray /\ Links!Live(p.account) => p.seen + 1 <= AwardedTo[p.account]
    BY <1>1, <1>2 DEF LinkRight
  <2> QED
    BY <2>1, <2>2, <2>3
<1> DEFINE c == [users[a] EXCEPT !.points = n]
<1>4. /\ users[a] \in [address : LinkedWallets \cup {Nobody}, points : Nat]
      /\ users \in [Links!Accounts -> [address : LinkedWallets \cup {Nobody}, points : Nat]]
  BY DEF LinksInv, LinkTypes
<1>5. c \in [address : LinkedWallets \cup {Nobody}, points : Nat] /\ c.address = users[a].address
      /\ c.points = n
  BY <1>4
<1>6. users' = [users EXCEPT ![a] = c]
  BY <1>1, <1>2, <1>3
<1> HIDE DEF c
<1>7. /\ users' \in [Links!Accounts -> [address : LinkedWallets \cup {Nobody}, points : Nat]]
      /\ \A b \in Links!Accounts : users'[b] = IF b = a THEN c ELSE users[b]
  BY <1>4, <1>5, <1>6
<1>8. LinkTypes' /\ lastId \in Nat
  <2>1. linkReq' \in [Requests -> LinkRequest]
    BY <1>1, LinkAsQ, IdleIsLink, IdleStaysRight
  <2>2. lastId \in Nat
    BY LinkBounds DEF LinksInv, LinkTypes
  <2>3. /\ ledger' \in [Links!Accounts -> Nat] /\ unlogged' \in [Links!Accounts -> Nat]
        /\ AwardedTo' \in [Links!Accounts -> Nat] /\ link' \in [Links!Tokens -> LinkRow]
        /\ wallet' \in [LinkedWallets -> [owner : Links!Accounts, primary : BOOLEAN]]
        /\ lastId' \in Links!Accounts
    BY <1>1, AwardedStays DEF LinksInv, LinkTypes
  <2>4. merged' \subseteq LinkedWallets /\ bonuses' \in [LinkedWallets -> Nat]
        /\ uses' \in [Links!Tokens -> SUBSET LinkedWallets] /\ stray' \in BOOLEAN
    BY <1>1 DEF LinksInv, LinkTypes
  <2> QED
    BY <1>7, <2>1, <2>2, <2>3, <2>4 DEF LinkTypes
<1>9. \A b \in Links!Accounts : Links!Live(b)' <=> Links!Live(b)
  BY <1>5, <1>7 DEF Links!Live
<1>10. \A b \in Links!Accounts : AwardedTo[b] <= AwardedTo'[b]
  BY <1>1, AwardedStays DEF LinksInv, LinkTypes
<1>11. AccountsStay /\ SourcesStay /\ lastId <= lastId' /\ IdsGiven'
  BY <1>1, <1>8, <1>9, <1>10 DEF AccountsStay, SourcesStay, LinksInv, IdsGiven, SourcesGiven
<1>12. BalancesHeld' /\ Links!BonusOncePerWallet'
  <2>1. ASSUME NEW b \in Links!Accounts, ~stray, Links!Live(b) PROVE users'[b].points <= AwardedTo[b]
    <3>1. CASE b = a
      BY <1>3, <1>5, <1>7, <2>1, <3>1
    <3>2. CASE b # a
      BY <1>7, <2>1, <3>2 DEF LinksInv, BalancesHeld
    <3> QED
      BY <3>1, <3>2
  <2> QED
    BY <1>1, <1>9, <2>1, AwardedStays DEF LinksInv, BalancesHeld, Links!BonusOncePerWallet
<1>13. \A s \in Requests : linkReq'[s] = linkReq[s] \/ LinkRight(linkReq[s])'
  BY <1>1, IdleIsLink, IdleStaysRight, LinkAsQ
<1>14. stray => stray'
  BY <1>1
<1> QED
  BY <1>8, <1>11, <1>12, <1>13, <1>14, LinkMoves

LEMMA MergeKeeps ==
  ASSUME LinksInv, NEW r \in Requests, Links!MergeAccounts(r)
  PROVE  LinksInv'
<1>1. PICK p \in LinkRequest : p = linkReq[r] /\ LinkRight(p) /\ p.at = "merge"
  BY DEF LinksInv, LinkTypes, Links!MergeAccounts, Links!At
<1>2. PICK a \in Links!Accounts, w \in LinkedWallets, t \in Links!Tokens :
          /\ a = p.account /\ w = p.wallet /\ t = p.token /\ a <= lastId
          /\ link[t].status # "unused" /\ a # link[t].source
  BY <1>1 DEF LinkRight, Different
<1>3. PICK s \in Links!Accounts : s = link[t].source /\ s <= lastId /\ s # a
  BY <1>2 DEF LinksInv, IdsGiven, SourcesGiven
<1> DEFINE Account == [address : LinkedWallets \cup {Nobody}, points : Nat]
           Bonus == Links!Bonus(w)
<1>4. /\ users \in [Links!Accounts -> Account] /\ AwardedTo \in [Links!Accounts -> Nat]
      /\ bonuses \in [LinkedWallets -> Nat]
  BY DEF LinksInv, LinkTypes
<1>5. PICK us \in Nat, ua \in Nat, ls \in Nat, la \in Nat :
          us = users[s].points /\ ua = users[a].points /\ ls = AwardedTo[s] /\ la = AwardedTo[a]
  BY <1>4
<1>6. PICK b \in Nat, k \in Nat :
          /\ b = Bonus /\ k = (IF Bonus > 0 THEN bonuses[w] + 1 ELSE bonuses[w]) /\ k <= 1
  <2>1. PICK n \in Nat : n = bonuses[w] /\ n <= 1
    BY <1>4 DEF LinksInv, Links!BonusOncePerWallet
  <2>2. PICK l \in Nat : l = LinkBonus /\ l > 0
    BY LinkBounds
  <2>3. CASE n = 0
    BY <2>1, <2>2, <2>3 DEF Links!Bonus
  <2>4. CASE n = 1
    BY <2>1, <2>2, <2>4 DEF Links!Bonus
  <2> QED
    BY <2>1, <2>3, <2>4
<1> DEFINE c == [users[s] EXCEPT !.points = us + ua + b]
           d == [address |-> Nobody, points |-> 0]
<1>7. c \in Account /\ d \in Account /\ c.address = users[s].address /\ c.points = us + ua + b
      /\ d.address = Nobody
  BY <1>4, SMTT(30)
<1>8. /\ users' = [users EXCEPT ![s] = c, ![a] = d]
      /\ wallet' = [wallet EXCEPT ![w] = [owner |-> s, primary |-> FALSE]]
      /\ bonuses' = [bonuses EXCEPT ![w] = k]
      /\ merged' = merged \cup {w} /\ uses' = [uses EXCEPT ![t] = uses[t] \cup {w}]
      /\ stray' = (stray \/ (~Links!Live(a) /\ ua > la))
      /\ link' = [link EXCEPT ![t].status = "consumed"]
      /\ lastId' = lastId /\ Links!Goto(r, "answer")
  <2>1. Links!Awarded(a) = la
    BY <1>5 DEF Links!Awarded, AwardedTo
  <2> QED
    BY <1>1, <1>2, <1>3, <1>5, <1>6, <2>1 DEF Links!MergeAccounts, Links!Source, Links!Moving
<1> HIDE DEF c, d, Bonus
<1>9. /\ users' \in [Links!Accounts -> Account]
      /\ \A x \in Links!Accounts : users'[x] = IF x = a THEN d ELSE IF x = s THEN c ELSE users[x]
  <2> HIDE DEF Account
  <2> QED
    BY <1>4, <1>7, <1>8
<1>10. /\ ledger' \in [Links!Accounts -> Nat] /\ unlogged' \in [Links!Accounts -> Nat]
       /\ AwardedTo' \in [Links!Accounts -> Nat]
       /\ \A x \in Links!Accounts :
              AwardedTo'[x] = IF x = a THEN 0 ELSE IF x = s THEN ls + la + b ELSE AwardedTo[x]
  <2>1. PICK es \in Nat, ea \in Nat, os \in Nat, oa \in Nat :
            /\ es = ledger[s] /\ ea = ledger[a] /\ os = unlogged[s] /\ oa = unlogged[a]
            /\ ls = es + os /\ la = ea + oa
    BY <1>5 DEF LinksInv, LinkTypes, AwardedTo
  <2>2. /\ ledger' = [ledger EXCEPT ![s] = es + ea + b, ![a] = 0]
        /\ unlogged' = [unlogged EXCEPT ![s] = os + oa, ![a] = 0]
    BY <1>1, <1>2, <1>3, <1>6, <2>1 DEF Links!MergeAccounts, Links!Source, Bonus
  <2>3. ledger \in [Links!Accounts -> Nat] /\ unlogged \in [Links!Accounts -> Nat]
    BY DEF LinksInv, LinkTypes
  <2>4. es + ea + b \in Nat /\ os + oa \in Nat /\ ls + la + b = (es + ea + b) + (os + oa)
    BY <2>1
  <2>5. /\ ledger' \in [Links!Accounts -> Nat] /\ unlogged' \in [Links!Accounts -> Nat]
        /\ \A x \in Links!Accounts :
               /\ ledger'[x] = IF x = a THEN 0 ELSE IF x = s THEN es + ea + b ELSE ledger[x]
               /\ unlogged'[x] = IF x = a THEN 0 ELSE IF x = s THEN os + oa ELSE unlogged[x]
    BY <2>2, <2>3, <2>4
  <2>6. \A x \in Links!Accounts : /\ AwardedTo[x] = ledger[x] + unlogged[x]
                                  /\ AwardedTo'[x] = ledger'[x] + unlogged'[x]
    BY DEF AwardedTo
  <2>7. \A x \in Links!Accounts :
            AwardedTo'[x] = IF x = a THEN 0 ELSE IF x = s THEN ls + la + b ELSE AwardedTo[x]
    BY <2>4, <2>5, <2>6
  <2>8. AwardedTo' \in [Links!Accounts -> Nat]
    BY <2>5 DEF AwardedTo
  <2> QED
    BY <2>5, <2>7, <2>8
<1>11. /\ wallet' \in [LinkedWallets -> [owner : Links!Accounts, primary : BOOLEAN]]
       /\ \A v \in LinkedWallets : wallet'[v].owner <= lastId'
  BY <1>3, <1>8 DEF LinksInv, LinkTypes, IdsGiven
<1>12. SourcesStay /\ SourcesGiven' /\ link' \in [Links!Tokens -> LinkRow]
  BY <1>2, <1>8, StatusKeeps
<1>13. bonuses' \in [LinkedWallets -> Nat] /\ Links!BonusOncePerWallet'
  BY <1>4, <1>6, <1>8 DEF LinksInv, Links!BonusOncePerWallet
<1>14. PICK q \in LinkRequest :
             /\ linkReq' = [linkReq EXCEPT ![r] = q] /\ q.at = "answer"
             /\ q.wallet = p.wallet /\ q.token = p.token /\ q.account = p.account
  BY <1>1, <1>8, LinkGoes DEF Links!Places
<1>15. LinkRight(q)'
  <2>1. link'[t].status # "unused"
    BY <1>2, <1>12 DEF SourcesStay
  <2> QED
    BY <1>2, <1>8, <1>14, <2>1 DEF LinkRight, Different
<1>16. /\ linkReq' \in [Requests -> LinkRequest]
       /\ \A z \in Requests : linkReq'[z] = linkReq[z] \/ LinkRight(linkReq[z])'
  BY <1>14, <1>15, LinkAsQ
<1>17. merged' \subseteq LinkedWallets /\ uses' \in [Links!Tokens -> SUBSET LinkedWallets]
       /\ stray' \in BOOLEAN /\ (stray => stray') /\ lastId' \in Links!Accounts /\ lastId <= lastId'
  <2>1. lastId \in Links!Accounts /\ lastId \in Nat /\ merged \subseteq LinkedWallets
        /\ uses \in [Links!Tokens -> SUBSET LinkedWallets] /\ stray \in BOOLEAN
    BY LinkBounds DEF LinksInv, LinkTypes
  <2>2. uses[t] \cup {w} \in SUBSET LinkedWallets
    BY <2>1
  <2> QED
    BY <1>8, <2>1, <2>2
<1>18. LinkTypes'
  BY <1>9, <1>10, <1>11, <1>12, <1>13, <1>16, <1>17 DEF LinkTypes
<1>19. AccountsStay
  <2> SUFFICES ASSUME NEW x \in Links!Accounts, Links!Live(x)'
               PROVE  Links!Live(x) /\ AwardedTo[x] <= AwardedTo'[x]
    BY DEF AccountsStay
  <2>1. x # a
    BY <1>7, <1>9 DEF Links!Live
  <2>2. CASE x = s
    <3>1. Links!Live(x) /\ AwardedTo'[x] = ls + la + b
      BY <1>7, <1>9, <1>10, <2>1, <2>2 DEF Links!Live
    <3> QED
      BY <1>5, <2>2, <3>1
  <2>3. CASE x # s
    <3>1. Links!Live(x) /\ AwardedTo'[x] = AwardedTo[x] /\ AwardedTo[x] \in Nat
      BY <1>4, <1>9, <1>10, <2>1, <2>3 DEF Links!Live
    <3> QED
      BY <3>1
  <2> QED
    BY <2>2, <2>3
<1>20. BalancesHeld'
  <2> SUFFICES ASSUME ~stray', NEW x \in Links!Accounts, Links!Live(x)'
               PROVE  users'[x].points <= AwardedTo'[x]
    BY DEF BalancesHeld
  <2>1. x # a /\ ~stray
    BY <1>7, <1>8, <1>9 DEF Links!Live
  <2>2. \A y \in Links!Accounts : Links!Live(y) => users[y].points <= AwardedTo[y]
    BY <2>1 DEF LinksInv, BalancesHeld
  <2>3. CASE x = s
    <3>1. Links!Live(s) /\ users'[x].points = us + ua + b /\ AwardedTo'[x] = ls + la + b
      BY <1>7, <1>9, <1>10, <2>1, <2>3 DEF Links!Live
    <3>2. us <= ls
      BY <1>5, <2>2, <3>1
    <3>3. ua <= la
      <4>1. Links!Live(a) \/ ~(ua > la)
        BY <1>8
      <4>2. Links!Live(a) => ua <= la
        BY <1>5, <2>2
      <4> QED
        BY <1>5, <4>1, <4>2
    <3> QED
      BY <1>5, <3>1, <3>2, <3>3
  <2>4. CASE x # s
    BY <1>9, <1>10, <2>1, <2>2, <2>4 DEF Links!Live
  <2> QED
    BY <2>3, <2>4
<1> QED
  BY <1>11, <1>12, <1>13, <1>16, <1>17, <1>18, <1>19, <1>20, LinkMoves DEF IdsGiven

LEMMA DetachKeeps ==
  ASSUME LinksInv, NEW r \in Requests, Links!Detach(r)
  PROVE  LinksInv'
<1>1. PICK w \in LinkedWallets : w = linkReq[r].wallet
  BY DEF LinksInv, LinkRight, Links!Detach, Links!At
<1>2. PICK l \in Nat, k \in Links!Accounts : l = lastId /\ k = l + 1 /\ k \in Nat /\ l <= k
  BY LinkBounds DEF Links!Detach, LinksInv, LinkTypes
<1> DEFINE Account == [address : LinkedWallets \cup {Nobody}, points : Nat]
           d == [address |-> w, points |-> 0]
<1>3. /\ UNCHANGED <<ledger, unlogged, link, merged, bonuses, uses, stray>> /\ lastId' = k
      /\ users' = [users EXCEPT ![k] = d]
      /\ wallet' = [wallet EXCEPT ![w] = [owner |-> k, primary |-> TRUE]]
      /\ linkReq' = [linkReq EXCEPT ![r] = Links!Idle]
  BY <1>1, <1>2 DEF Links!Detach, Links!mergeVars, Links!Return
<1>4. d \in Account /\ d.points = 0
  OBVIOUS
<1> HIDE DEF d
<1>5. /\ users' \in [Links!Accounts -> Account]
      /\ \A x \in Links!Accounts : users'[x] = IF x = k THEN d ELSE users[x]
  BY <1>3, <1>4 DEF LinksInv, LinkTypes
<1>6. /\ wallet' \in [LinkedWallets -> [owner : Links!Accounts, primary : BOOLEAN]]
      /\ \A v \in LinkedWallets : wallet'[v].owner = k \/ wallet'[v] = wallet[v]
  BY <1>2, <1>3 DEF LinksInv, LinkTypes
<1>7. \A v \in LinkedWallets : wallet'[v].owner <= lastId'
  <2> SUFFICES ASSUME NEW v \in LinkedWallets PROVE wallet'[v].owner <= k
    BY <1>3
  <2>1. PICK o \in Links!Accounts : o = wallet[v].owner /\ o <= l /\ o \in Nat
    BY <1>2, LinkBounds DEF LinksInv, LinkTypes, IdsGiven
  <2> QED
    BY <1>2, <1>6, <2>1
<1>8. SourcesStay /\ SourcesGiven'
  <2>1. ASSUME NEW t \in Links!Tokens, link[t].status # "unused"
        PROVE  link[t].source \in Links!Accounts /\ link[t].source <= k
    <3>1. PICK o \in Links!Accounts : o = link[t].source /\ o <= l /\ o \in Nat
      BY <1>2, <2>1, LinkBounds DEF LinksInv, IdsGiven, SourcesGiven
    <3> QED
      BY <1>2, <3>1
  <2> QED
    BY <1>3, <2>1 DEF SourcesStay, SourcesGiven
<1>9. /\ linkReq' \in [Requests -> LinkRequest]
      /\ \A z \in Requests : linkReq'[z] = linkReq[z] \/ LinkRight(linkReq[z])'
  BY <1>3, IdleIsLink, IdleStaysRight, LinkAsQ
<1>10. LinkTypes'
  BY <1>2, <1>3, <1>5, <1>6, <1>9, AwardedStays DEF LinksInv, LinkTypes
<1>11. \A x \in Links!Accounts : AwardedTo'[x] = AwardedTo[x] /\ AwardedTo[x] \in Nat
  BY <1>3, AwardedStays DEF LinksInv, LinkTypes
<1>12. AccountsStay
  <2> SUFFICES ASSUME NEW x \in Links!Accounts, x <= l, Links!Live(x)'
               PROVE  Links!Live(x) /\ AwardedTo[x] <= AwardedTo'[x]
    BY <1>2 DEF AccountsStay
  <2>1. x # k
    BY <1>2, LinkBounds
  <2> QED
    BY <1>5, <1>11, <2>1 DEF Links!Live
<1>13. BalancesHeld' /\ Links!BonusOncePerWallet'
  <2>1. ASSUME ~stray, NEW x \in Links!Accounts, Links!Live(x)'
        PROVE  users'[x].points <= AwardedTo'[x]
    <3>1. CASE x = k
      BY <1>4, <1>5, <1>11, <3>1
    <3>2. CASE x # k
      BY <1>5, <1>11, <2>1, <3>2 DEF LinksInv, BalancesHeld, Links!Live
    <3> QED
      BY <3>1, <3>2
  <2> QED
    BY <1>3, <2>1 DEF LinksInv, BalancesHeld, Links!BonusOncePerWallet
<1>14. lastId <= lastId' /\ (stray => stray')
  BY <1>2, <1>3
<1> QED
  BY <1>7, <1>8, <1>9, <1>10, <1>12, <1>13, <1>14, LinkMoves DEF IdsGiven

-----------------------------------------------------------------------------
\* The invariant, and what follows

LEMMA LinkStepsKeep == LinksInv /\ [Links!WalletLinkNext]_linkState => LinksInv'
<1> SUFFICES ASSUME LinksInv, [Links!WalletLinkNext]_linkState PROVE LinksInv'
  OBVIOUS
<1>1. CASE Links!WalletLinkNext
  <2>1. CASE \E t \in Links!Tokens : Links!Expire(t)
    BY <2>1, ExpireKeeps
  <2>2. CASE ~\E t \in Links!Tokens : Links!Expire(t)
    <3>1. PICK r \in Requests :
            \/ Links!Throws(r) \/ Links!CountOwn(r) \/ Links!CancelOlder(r) \/ Links!ReadTarget(r)
            \/ Links!ConsumeSame(r) \/ Links!CheckPrimary(r) \/ Links!CheckAlone(r)
            \/ Links!CheckRoom(r) \/ Links!FindMerge(r) \/ Links!MergeAccounts(r)
            \/ Links!Answer(r) \/ Links!CheckRow(r) \/ Links!Detach(r) \/ Links!AddEvent(r)
            \/ Links!AddUser(r)
            \/ \E w \in LinkedWallets :
                   \/ Links!BeginCreate(r, w) \/ Links!ReadWalletRow(r, w) \/ Links!BeginAward(r, w)
                   \/ \E t \in Links!Tokens : Links!LoadLink(r, w, t)
            \/ \E t \in Links!Tokens : Links!InsertLink(r, t)
      BY <1>1, <2>2 DEF Links!WalletLinkNext
    <3>2. CASE \/ Links!Throws(r) \/ Links!CountOwn(r) \/ Links!CheckPrimary(r)
               \/ Links!CheckAlone(r) \/ Links!CheckRoom(r) \/ Links!Answer(r) \/ Links!CheckRow(r)
      BY <3>2, LooksKeep
    <3>3. CASE Links!ReadTarget(r) \/ Links!FindMerge(r)
      BY <3>3, ReadsKeep
    <3>4. CASE Links!CancelOlder(r) \/ Links!ConsumeSame(r)
      BY <3>4, CancelKeeps, ConsumeKeeps
    <3>5. CASE \/ Links!MergeAccounts(r) \/ Links!Detach(r) \/ Links!AddEvent(r) \/ Links!AddUser(r)
      BY <3>5, MergeKeeps, DetachKeeps, AddEventKeeps, AddUserKeeps
    <3>6. CASE \E w \in LinkedWallets :
                   \/ Links!BeginCreate(r, w) \/ Links!ReadWalletRow(r, w) \/ Links!BeginAward(r, w)
                   \/ \E t \in Links!Tokens : Links!LoadLink(r, w, t)
      BY <3>6, BeginsKeep
    <3>7. CASE \E t \in Links!Tokens : Links!InsertLink(r, t)
      BY <3>7, InsertLinkKeeps
    <3> QED
      BY <3>1, <3>2, <3>3, <3>4, <3>5, <3>6, <3>7
  <2> QED
    BY <2>1, <2>2
<1>2. CASE UNCHANGED linkState
  BY <1>2 DEF linkState, LinksInv, LinkTypes, IdsGiven, SourcesGiven, LinkRight, Different,
     Links!Live, Links!BonusOncePerWallet, BalancesHeld, AwardedTo
<1> QED
  BY <1>1, <1>2

LEMMA FirstIds ==
  /\ Links!Cardinality(LinkedWallets) \in Links!Accounts
  /\ HomeOf \in [LinkedWallets -> Links!Accounts]
  /\ \A w \in LinkedWallets : HomeOf[w] <= Links!Cardinality(LinkedWallets)
<1>1. Links!IsFiniteSet(LinkedWallets) /\ LinkedWallets # {}
  BY AccountsAssumption DEF Links!WalletLinkAssumption
<1>2. IsFiniteSet(LinkedWallets)
  BY <1>1 DEF Links!IsFiniteSet, IsFiniteSet
<1>3. Links!Cardinality(LinkedWallets) = Cardinality(LinkedWallets)
  BY DEF Links!Cardinality, Cardinality
<1>4. PICK n \in Nat : n = Cardinality(LinkedWallets) /\ n # 0
  BY <1>1, <1>2, FS_CardinalityType, FS_EmptySet
<1>5. n <= MaxAccounts /\ HomeOf \in [LinkedWallets -> 1 .. n] /\ MaxAccounts \in Nat
  BY <1>3, <1>4, AccountsAssumption DEF Links!WalletLinkAssumption
<1>6. n \in 1 .. MaxAccounts /\ \A i \in 1 .. n : i \in 1 .. MaxAccounts /\ i <= n
  BY <1>4, <1>5
<1>7. \A w \in LinkedWallets : HomeOf[w] \in 1 .. n
  BY <1>5
<1> QED
  BY <1>3, <1>4, <1>5, <1>6, <1>7 DEF Links!Accounts

LEMMA LinksStartRight == Links!WalletLinkInit => LinksInv
<1> SUFFICES ASSUME Links!WalletLinkInit PROVE LinksInv
  OBVIOUS
<1> USE DEF Links!WalletLinkInit
<1>1. \A a \in Links!Accounts :
          users[a] \in [address : LinkedWallets \cup {Nobody}, points : Nat] /\ users[a].points \in Nat
  <2> SUFFICES ASSUME NEW a \in Links!Accounts
               PROVE  users[a] \in [address : LinkedWallets \cup {Nobody}, points : Nat]
    OBVIOUS
  <2>1. CASE \E w \in LinkedWallets : HomeOf[w] = a
    <3>1. PICK v \in LinkedWallets : v = CHOOSE w \in LinkedWallets : HomeOf[w] = a
      BY <2>1
    <3> QED
      BY <2>1, <3>1
  <2>2. CASE ~\E w \in LinkedWallets : HomeOf[w] = a
    BY <2>2
  <2> QED
    BY <2>1, <2>2
<1>2. users \in [Links!Accounts -> [address : LinkedWallets \cup {Nobody}, points : Nat]]
  BY <1>1
<1>3. Links!Unused \in LinkRow /\ Links!Unused.status = "unused"
  BY DEF Links!Unused, LinkRow
<1>4. LinkTypes /\ \A a \in Links!Accounts : AwardedTo[a] = users[a].points
  <2>1. /\ ledger \in [Links!Accounts -> Nat] /\ unlogged \in [Links!Accounts -> Nat]
        /\ \A a \in Links!Accounts : ledger[a] + unlogged[a] = users[a].points
    BY <1>1
  <2>2. /\ AwardedTo \in [Links!Accounts -> Nat]
        /\ \A a \in Links!Accounts : AwardedTo[a] = users[a].points
    BY <2>1 DEF AwardedTo
  <2> QED
    BY <1>1, <1>2, <1>3, <2>1, <2>2, FirstIds, IdleIsLink DEF LinkTypes
<1>5. IdsGiven
  BY <1>3, FirstIds DEF IdsGiven, SourcesGiven
<1>6. BalancesHeld /\ Links!BonusOncePerWallet
  BY <1>1, <1>4 DEF BalancesHeld, Links!BonusOncePerWallet
<1> QED
  BY <1>4, <1>5, <1>6, IdleIsLink DEF LinksInv

LEMMA LinksGoOn == [AccountsNext]_accountsVars => [Links!WalletLinkNext]_linkState
  BY DEF AccountsNext, accountsVars, PointsRun, ReferralsRun, LinksRun, QuestsRun, PayoutsRun,
     CampaignRun

LEMMA LinksInvAlways == AccountsSpec => []LinksInv
<1>1. AccountsInit => LinksInv
  BY LinksStartRight DEF AccountsInit
<1> QED
  BY <1>1, LinkStepsKeep, LinksGoOn, PTL DEF AccountsSpec

\* confirmLink and merge_accounts: the link bonus of a wallet is paid once, whatever
\* confirmations, merges and unlinks overlap.
THEOREM BonusPaidOnce == AccountsSpec => []Links!BonusOncePerWallet
<1>1. LinksInv => Links!BonusOncePerWallet
  BY DEF LinksInv
<1> QED
  BY <1>1, LinksInvAlways, PTL

\* addPoints and merge_accounts: no account in use shows more points than it was awarded,
\* the awards whose event did not go in included (addPoints does not look), unless a merge
\* has moved what an award wrote to an account after it was merged away (stray).
THEOREM LiveBalancesAlwaysBacked == AccountsSpec => []Links!LiveBalancesBacked
<1>1. LinksInv => Links!LiveBalancesBacked
  BY DEF LinksInv, BalancesHeld, AwardedTo, Links!LiveBalancesBacked, Links!Awarded
<1> QED
  BY <1>1, LinksInvAlways, PTL

-----------------------------------------------------------------------------
(***************************************************************************)
(* Referrals for any accounts, codes, processes and requests.              *)
(*                                                                         *)
(* A request that has linked an account is the only one to pay for the     *)
(* link (CodeApart), and finds nothing paid yet (CodeRight); an update of  *)
(* a row adds what its request still owes exactly when the row is as the   *)
(* request has read it (Books).                                            *)
(***************************************************************************)

CodeRequest == [at : Codes!Places, process : ApiProcesses \cup {Nobody},
                account : Members \cup {Nobody}, code : Members \cup {Bogus, Nobody},
                add : Nat, seen : Nat, tries : Nat]

CodesTypes ==
    /\ activated \subseteq Members /\ referredBy \in [Members -> Members \cup {Nobody}]
    /\ referrals \in [Members -> Codes!Row \cup {Nobody}]
    /\ welcomed \subseteq Members /\ brought \subseteq Members \X Members
    /\ welcome \in [Members -> Nat] /\ signup \in [Members -> [Members -> Nat]]
    /\ commission \in [Members -> Nat] /\ missed \in [Members -> Nat]
    /\ inflight \in [ApiProcesses -> [Members -> Requests \cup {Nobody}]]
    /\ recent \in [ApiProcesses -> SUBSET (Members \X Codes!Codes \X {"applied", "refused"})]
    /\ referralReq \in [Requests -> CodeRequest]

\* A request that has linked an account, and one that adds to a row.
Linked == {"ensure", "welcome", "addWelcome", "signup", "addSignup"}
Adding == {"ensureRow", "load", "compare"}

CodeRight(q) ==
    /\ q.at # "idle" => /\ q.process \in ApiProcesses /\ q.account \in Members
                        /\ q.code \in Members \cup {Bogus}
    /\ q.at \notin {"idle", "referrer"} => q.code \in Members
    /\ q.at \in Linked \cup Adding \cup {"commission"} => referredBy[q.account] = q.code
    /\ q.at \in Linked => \A b \in Members : signup[b][q.account] = 0
    /\ q.at \in {"ensure", "welcome", "addWelcome"} => welcome[q.account] = 0
    /\ q.at \in Adding => q.add \in {Signup, Commission}
    /\ q.at \in {"load", "compare"} => referrals[q.account] # Nobody

CodeApart(p, q) == p.at \in Linked /\ q.at \in Linked => p.account # q.account

AccountRight(a) ==
    /\ referredBy[a] = Nobody => welcome[a] = 0
    /\ welcome[a] <= 1
    /\ \A b \in Members : signup[b][a] = 0 \/ (signup[b][a] = 1 /\ b = referredBy[a])
    /\ referrals[a] # Nobody => referrals[a].referrer = referredBy[a]

\* What a request owes to the row of an account, and what the requests of R owe.
Owes(q, a) == IF q.account = a /\ q.at \in Adding THEN q.add ELSE 0
OfSignups(f, R, a) == {r \in R : f[r].account = a /\ Owes(f[r], a) > 0 /\ f[r].add = Signup}
OfCommissions(f, R, a) == {r \in R : f[r].account = a /\ Owes(f[r], a) > 0 /\ f[r].add # Signup}
OwedBy(f, R, a) ==
    Signup * Cardinality(OfSignups(f, R, a)) + Commission * Cardinality(OfCommissions(f, R, a))

RowEarned(a) == IF referrals[a] = Nobody THEN 0 ELSE referrals[a].earned
Due(a) == IF \E b \in Members : signup[b][a] > 0 THEN Signup ELSE 0
Books ==
    \A a \in Members :
        RowEarned(a) + OwedBy(referralReq, Requests, a) + missed[a] = Due(a) + commission[a]

CodesInv ==
    /\ CodesTypes /\ Books
    /\ \A a \in Members : AccountRight(a)
    /\ \A r \in Requests : CodeRight(referralReq[r])
    /\ \A r, s \in Requests : r # s => CodeApart(referralReq[r], referralReq[s])

LEMMA SameFinite == ASSUME NEW S PROVE Codes!IsFiniteSet(S) <=> IsFiniteSet(S)
  BY DEF Codes!IsFiniteSet, IsFiniteSet

LEMMA SameSize == ASSUME NEW S PROVE Codes!Cardinality(S) = Cardinality(S)
  BY DEF Codes!Cardinality, Cardinality

LEMMA CodesBasics ==
  /\ IsFiniteSet(Requests) /\ Nobody \notin Members /\ Nobody \notin Requests /\ Bogus \notin Members
  /\ Nobody \notin Codes!Row /\ Signup \in Nat \ {0} /\ Commission \in Nat \ {0}
  /\ Referees \subseteq Members /\ Applied \subseteq Members \cup {Bogus}
  BY AccountsAssumption, SameFinite DEF Codes!ReferralAssumption, Codes!Row

-----------------------------------------------------------------------------
\* What is owed adds up

LEMMA OwedType ==
  ASSUME NEW f, NEW R \in SUBSET Requests, NEW a
  PROVE  /\ IsFiniteSet(OfSignups(f, R, a)) /\ IsFiniteSet(OfCommissions(f, R, a))
         /\ Cardinality(OfSignups(f, R, a)) \in Nat /\ Cardinality(OfCommissions(f, R, a)) \in Nat
         /\ OwedBy(f, R, a) \in Nat
<1>1. OfSignups(f, R, a) \in SUBSET Requests /\ OfCommissions(f, R, a) \in SUBSET Requests
  BY DEF OfSignups, OfCommissions
<1>2. IsFiniteSet(OfSignups(f, R, a)) /\ IsFiniteSet(OfCommissions(f, R, a))
  BY <1>1, CodesBasics, FS_Subset
<1>3. PICK m \in Nat, n \in Nat :
          m = Cardinality(OfSignups(f, R, a)) /\ n = Cardinality(OfCommissions(f, R, a))
  BY <1>2, FS_CardinalityType
<1>4. PICK x \in Nat, y \in Nat : x = Signup * m /\ y = Commission * n
  BY CodesBasics
<1>5. OwedBy(f, R, a) = x + y
  BY <1>3, <1>4 DEF OwedBy
<1> QED
  BY <1>2, <1>3, <1>4, <1>5

LEMMA OwedSplit ==
  ASSUME NEW f, NEW R \in SUBSET Requests, NEW E \in SUBSET R, NEW a
  PROVE  OwedBy(f, R, a) = OwedBy(f, E, a) + OwedBy(f, R \ E, a)
<1>1. ASSUME NEW S, NEW T, IsFiniteSet(S), IsFiniteSet(T), S \cap T = {}
      PROVE  Cardinality(S \cup T) = Cardinality(S) + Cardinality(T)
  <2>1. PICK m \in Nat, n \in Nat : m = Cardinality(S) /\ n = Cardinality(T)
    BY <1>1, FS_CardinalityType
  <2>2. Cardinality(S \cap T) = 0
    BY <1>1, FS_EmptySet
  <2>3. Cardinality(S \cup T) = Cardinality(S) + (Cardinality(T) - Cardinality(S \cap T))
    BY <1>1, FS_Union
  <2>4. Cardinality(S \cup T) = m + (n - 0)
    BY <2>1, <2>2, <2>3
  <2> QED
    BY <2>1, <2>4
<1>2. E \in SUBSET Requests /\ (R \ E) \in SUBSET Requests
  OBVIOUS
<1> DEFINE S1 == OfSignups(f, E, a)  S2 == OfSignups(f, R \ E, a)
           C1 == OfCommissions(f, E, a)  C2 == OfCommissions(f, R \ E, a)
<1>3. OfSignups(f, R, a) = S1 \cup S2 /\ S1 \cap S2 = {}
  BY DEF OfSignups
<1>4. OfCommissions(f, R, a) = C1 \cup C2 /\ C1 \cap C2 = {}
  BY DEF OfCommissions
<1>5. IsFiniteSet(S1) /\ IsFiniteSet(S2) /\ IsFiniteSet(C1) /\ IsFiniteSet(C2)
  BY <1>2, OwedType
<1>6. PICK s1 \in Nat, s2 \in Nat, c1 \in Nat, c2 \in Nat :
          s1 = Cardinality(S1) /\ s2 = Cardinality(S2) /\ c1 = Cardinality(C1) /\ c2 = Cardinality(C2)
  BY <1>5, FS_CardinalityType
<1>7. Cardinality(OfSignups(f, R, a)) = s1 + s2 /\ Cardinality(OfCommissions(f, R, a)) = c1 + c2
  <2> HIDE DEF S1, S2, C1, C2
  <2>1. Cardinality(S1 \cup S2) = Cardinality(S1) + Cardinality(S2)
    BY <1>1, <1>3, <1>5
  <2>2. Cardinality(C1 \cup C2) = Cardinality(C1) + Cardinality(C2)
    BY <1>1, <1>4, <1>5
  <2> QED
    BY <1>3, <1>4, <1>6, <2>1, <2>2
<1>8. Signup * (s1 + s2) = Signup * s1 + Signup * s2
      /\ Commission * (c1 + c2) = Commission * c1 + Commission * c2
  BY CodesBasics
<1>9. PICK x1 \in Nat, x2 \in Nat, y1 \in Nat, y2 \in Nat :
          x1 = Signup * s1 /\ x2 = Signup * s2 /\ y1 = Commission * c1 /\ y2 = Commission * c2
  BY CodesBasics
<1>10. OwedBy(f, R, a) = (x1 + x2) + (y1 + y2)
  BY <1>7, <1>8, <1>9 DEF OwedBy
<1>11. OwedBy(f, E, a) = x1 + y1 /\ OwedBy(f, R \ E, a) = x2 + y2
  BY <1>6, <1>9 DEF OwedBy
<1> QED
  BY <1>10, <1>11

LEMMA OwedByOne ==
  ASSUME NEW f, NEW r \in Requests, NEW a,
         f[r].at \in Adding => f[r].add \in {Signup, Commission}
  PROVE  OwedBy(f, {r}, a) = Owes(f[r], a)
<1>1. Signup \in Nat /\ Signup > 0 /\ Commission \in Nat /\ Commission > 0
  BY CodesBasics
<1>2. Cardinality({}) = 0 /\ Cardinality({r}) = 1
  BY FS_EmptySet, FS_Singleton
<1>3. CASE f[r].account = a /\ f[r].at \in Adding /\ f[r].add = Signup
  <2>1. OfSignups(f, {r}, a) = {r} /\ OfCommissions(f, {r}, a) = {} /\ Owes(f[r], a) = Signup
    BY <1>1, <1>3 DEF OfSignups, OfCommissions, Owes
  <2> QED
    BY <1>1, <1>2, <2>1 DEF OwedBy
<1>4. CASE f[r].account = a /\ f[r].at \in Adding /\ f[r].add = Commission /\ Commission # Signup
  <2>1. OfSignups(f, {r}, a) = {} /\ OfCommissions(f, {r}, a) = {r} /\ Owes(f[r], a) = Commission
    BY <1>1, <1>4 DEF OfSignups, OfCommissions, Owes
  <2> QED
    BY <1>1, <1>2, <2>1 DEF OwedBy
<1>5. CASE ~(f[r].account = a /\ f[r].at \in Adding)
  <2>1. OfSignups(f, {r}, a) = {} /\ OfCommissions(f, {r}, a) = {} /\ Owes(f[r], a) = 0
    BY <1>1, <1>5 DEF OfSignups, OfCommissions, Owes
  <2> QED
    BY <1>1, <1>2, <2>1 DEF OwedBy
<1> QED
  BY <1>3, <1>4, <1>5

\* Requests that are the same owe the same.
LEMMA OwedAlike ==
  ASSUME NEW f, NEW g, NEW R \in SUBSET Requests, NEW a, \A r \in R : f[r] = g[r]
  PROVE  OwedBy(f, R, a) = OwedBy(g, R, a)
<1>1. OfSignups(f, R, a) = OfSignups(g, R, a) /\ OfCommissions(f, R, a) = OfCommissions(g, R, a)
  BY DEF OfSignups, OfCommissions
<1> QED
  BY <1>1 DEF OwedBy

\* The requests of E end, the others stay as they are.
LEMMA OwedEnds ==
  ASSUME NEW f, NEW g, NEW E \in SUBSET Requests, NEW a,
         \A r \in Requests \ E : g[r] = f[r], \A r \in E : g[r].at = "idle"
  PROVE  OwedBy(f, Requests, a) = OwedBy(f, E, a) + OwedBy(g, Requests, a)
<1>1. OwedBy(f, Requests, a) = OwedBy(f, E, a) + OwedBy(f, Requests \ E, a)
  BY OwedSplit
<1>2. OwedBy(g, Requests, a) = OwedBy(g, E, a) + OwedBy(g, Requests \ E, a)
  BY OwedSplit
<1>3. OwedBy(f, Requests \ E, a) = OwedBy(g, Requests \ E, a)
  BY OwedAlike
<1>4. OwedBy(g, E, a) = 0
  <2>1. OfSignups(g, E, a) = {} /\ OfCommissions(g, E, a) = {}
    BY DEF OfSignups, OfCommissions, Owes, Adding
  <2>2. Cardinality({}) = 0 /\ Signup * 0 = 0 /\ Commission * 0 = 0
    BY FS_EmptySet, CodesBasics
  <2> QED
    BY <2>1, <2>2 DEF OwedBy
<1>5. (Requests \ E) \in SUBSET Requests
  OBVIOUS
<1>6. OwedBy(g, Requests \ E, a) \in Nat
  BY <1>5, OwedType
<1> QED
  BY <1>1, <1>2, <1>3, <1>4, <1>6

\* The names of the module for these.
LEMMA UnderWayOwed ==
  ASSUME NEW a \in Members
  PROVE  Codes!UnderWay(a) = OwedBy(referralReq, Requests, a)
<1>1. \A r \in Requests : referralReq[r].account = a =>
          Codes!Left(r) = Owes(referralReq[r], a)
  BY DEF Codes!Left, Owes, Adding
<1>2. {r \in {s \in Requests : referralReq[s].account = a /\ Codes!Left(s) > 0} :
           referralReq[r].add = Signup} = OfSignups(referralReq, Requests, a)
  BY <1>1 DEF OfSignups
<1>3. {r \in {s \in Requests : referralReq[s].account = a /\ Codes!Left(s) > 0} :
           referralReq[r].add # Signup} = OfCommissions(referralReq, Requests, a)
  BY <1>1 DEF OfCommissions
<1> QED
  BY <1>2, <1>3, SameSize DEF Codes!UnderWay, OwedBy

LEMMA MissedOwed ==
  ASSUME NEW E \in SUBSET Requests
  PROVE  Codes!MissedBy(E) = [a \in Members |-> missed[a] + OwedBy(referralReq, E, a)]
<1> SUFFICES ASSUME NEW a \in Members
             PROVE  Codes!MissedBy(E)[a] = missed[a] + OwedBy(referralReq, E, a)
  BY DEF Codes!MissedBy
<1> DEFINE mine == {r \in E : referralReq[r].account = a /\ Codes!Left(r) > 0}
<1>1. \A r \in Requests : referralReq[r].account = a =>
          Codes!Left(r) = Owes(referralReq[r], a)
  BY DEF Codes!Left, Owes, Adding
<1>2. {r \in mine : referralReq[r].add = Signup} = OfSignups(referralReq, E, a)
  BY <1>1 DEF OfSignups
<1>3. {r \in mine : referralReq[r].add # Signup} = OfCommissions(referralReq, E, a)
  BY <1>1 DEF OfCommissions
<1>4. Codes!MissedBy(E)[a] = missed[a] +
          (Signup * Codes!Cardinality({r \in mine : referralReq[r].add = Signup})
           + Commission * Codes!Cardinality({r \in mine : referralReq[r].add # Signup}))
  BY DEF Codes!MissedBy
<1> QED
  BY <1>2, <1>3, <1>4, SameSize DEF OwedBy

-----------------------------------------------------------------------------
\* What a step has to keep for the requests it leaves alone

LinkStands ==
    \A a \in Members :
        /\ referredBy[a] # Nobody => referredBy'[a] = referredBy[a]
        /\ referrals[a] # Nobody => referrals'[a] # Nobody
Spared(q) ==
    q.at \in Linked => /\ \A b \in Members : signup'[b][q.account] = signup[b][q.account]
                       /\ welcome'[q.account] = welcome[q.account]

LEMMA CodeRightStays ==
  ASSUME CodesTypes, LinkStands, NEW q \in CodeRequest, CodeRight(q), Spared(q)
  PROVE  CodeRight(q)'
<1>1. q.at \in Linked \cup Adding \cup {"commission"} =>
          q.account \in Members /\ q.code \in Members /\ referredBy[q.account] = q.code
  BY DEF CodeRight, Linked, Adding
<1>2. q.at \in Linked \cup Adding \cup {"commission"} => referredBy'[q.account] = q.code
  BY <1>1, CodesBasics DEF LinkStands
<1>3. q.at \in {"load", "compare"} => referrals'[q.account] # Nobody
  BY <1>1 DEF LinkStands, CodeRight, Adding
<1>4. q.at \in Linked => /\ \A b \in Members : signup'[b][q.account] = 0
                         /\ q.at \in {"ensure", "welcome", "addWelcome"} => welcome'[q.account] = 0
  BY DEF CodeRight, Spared
<1> QED
  BY <1>2, <1>3, <1>4 DEF CodeRight, Linked

LEMMA BalanceKept ==
  ASSUME CodesInv, CodesTypes', NEW r \in Requests, NEW q \in CodeRequest,
         referralReq' = [referralReq EXCEPT ![r] = q],
         q.at \in Adding => q.add \in {Signup, Commission},
         \A a \in Members :
             (RowEarned(a)' + Owes(q, a) + missed'[a]) + (Due(a) + commission[a])
             = (RowEarned(a) + Owes(referralReq[r], a) + missed[a]) + (Due(a)' + commission'[a])
  PROVE  Books'
<1> SUFFICES ASSUME NEW a \in Members
             PROVE  RowEarned(a)' + OwedBy(referralReq', Requests, a) + missed'[a]
                        = Due(a)' + commission'[a]
  BY DEF Books, OwedBy, OfSignups, OfCommissions, Owes
<1>1. PICK f \in [Requests -> CodeRequest], g \in [Requests -> CodeRequest] :
          /\ f = referralReq /\ g = referralReq' /\ g[r] = q
          /\ \A s \in Requests \ {r} : f[s] = g[s]
  BY DEF CodesInv, CodesTypes
<1>2. PICK o \in Nat : o = OwedBy(f, Requests \ {r}, a) /\ o = OwedBy(g, Requests \ {r}, a)
  <2> DEFINE R == Requests \ {r}
  <2>1. R \in SUBSET Requests /\ \A s \in R : f[s] = g[s]
    BY <1>1
  <2> HIDE DEF R
  <2>2. OwedBy(f, R, a) = OwedBy(g, R, a)
    BY <2>1, OwedAlike
  <2>3. OwedBy(f, R, a) \in Nat
    BY <2>1, OwedType
  <2> QED
    BY <2>2, <2>3 DEF R
<1>3. {r} \in SUBSET Requests
  OBVIOUS
<1>4. PICK x \in Nat, y \in Nat :
          /\ x = Owes(f[r], a) /\ x = OwedBy(f, {r}, a)
          /\ y = Owes(q, a) /\ y = OwedBy(g, {r}, a)
  <2>1. CodeRight(f[r])
    BY <1>1 DEF CodesInv
  <2>2. OwedBy(f, {r}, a) = Owes(f[r], a)
    BY <2>1, OwedByOne DEF CodeRight
  <2>3. OwedBy(g, {r}, a) = Owes(q, a)
    BY <1>1, OwedByOne
  <2>4. OwedBy(f, {r}, a) \in Nat /\ OwedBy(g, {r}, a) \in Nat
    BY <1>3, OwedType
  <2> QED
    BY <2>2, <2>3, <2>4
<1>5. OwedBy(f, Requests, a) = x + o /\ OwedBy(g, Requests, a) = y + o
  <2>1. OwedBy(f, Requests, a) = OwedBy(f, {r}, a) + OwedBy(f, Requests \ {r}, a)
    BY <1>3, OwedSplit
  <2>2. OwedBy(g, Requests, a) = OwedBy(g, {r}, a) + OwedBy(g, Requests \ {r}, a)
    BY <1>3, OwedSplit
  <2> QED
    BY <1>2, <1>4, <2>1, <2>2
<1>6. PICK e \in Nat, m \in Nat, d \in Nat, c \in Nat :
          e = RowEarned(a) /\ m = missed[a] /\ d = Due(a) /\ c = commission[a]
  BY CodesBasics DEF CodesInv, CodesTypes, RowEarned, Due, Codes!Row
<1>7. PICK e1 \in Nat, m1 \in Nat, d1 \in Nat, c1 \in Nat :
          e1 = RowEarned(a)' /\ m1 = missed'[a] /\ d1 = Due(a)' /\ c1 = commission'[a]
  BY CodesBasics DEF CodesTypes, RowEarned, Due, Codes!Row
<1>8. (e1 + y + m1) + (d + c) = (e + x + m) + (d1 + c1)
  BY <1>1, <1>4, <1>6, <1>7
<1>9. e + (x + o) + m = d + c
  BY <1>1, <1>5, <1>6 DEF CodesInv, Books
<1>10. e1 + (y + o) + m1 = d1 + c1
  BY <1>8, <1>9
<1> QED
  BY <1>1, <1>5, <1>7, <1>10

LEMMA CodesMove ==
  ASSUME CodesInv, CodesTypes', LinkStands, Books', \A a \in Members : AccountRight(a)',
         NEW n \in [Requests -> CodeRequest], referralReq' = n,
         \A s \in Requests : (n[s] = referralReq[s] /\ Spared(n[s])) \/ CodeRight(n[s])',
         \A s, t \in Requests : s # t => CodeApart(n[s], n[t])
  PROVE  CodesInv'
<1>1. ASSUME NEW s \in Requests PROVE CodeRight(n[s])'
  <2>1. CASE n[s] = referralReq[s] /\ Spared(n[s])
    <3>1. n[s] \in CodeRequest /\ CodeRight(n[s]) /\ CodesTypes
      BY <2>1 DEF CodesInv
    <3> QED
      BY <2>1, <3>1, CodeRightStays
  <2> QED
    BY <2>1
<1>2. ASSUME NEW s \in Requests PROVE CodeRight(referralReq[s])'
  BY <1>1 DEF CodeRight
<1>3. ASSUME NEW s \in Requests, NEW t \in Requests, s # t
      PROVE  CodeApart(referralReq[s], referralReq[t])'
  BY <1>3 DEF CodeApart
<1> QED
  BY <1>2, <1>3 DEF CodesInv

LEMMA OneCode ==
  ASSUME CodesInv, CodesTypes', LinkStands, \A a \in Members : AccountRight(a)',
         NEW r \in Requests, NEW q \in CodeRequest,
         referralReq' = [referralReq EXCEPT ![r] = q], CodeRight(q)',
         \A s \in Requests : s # r => CodeApart(q, referralReq[s]) /\ Spared(referralReq[s]),
         \A a \in Members :
             (RowEarned(a)' + Owes(q, a) + missed'[a]) + (Due(a) + commission[a])
             = (RowEarned(a) + Owes(referralReq[r], a) + missed[a]) + (Due(a)' + commission'[a])
  PROVE  CodesInv'
<1>1. PICK n \in [Requests -> CodeRequest] :
          referralReq' = n /\ \A s \in Requests : n[s] = IF s = r THEN q ELSE referralReq[s]
  BY DEF CodesInv, CodesTypes
<1>2. q.at \in Adding => q.add \in {Signup, Commission}
  BY DEF CodeRight
<1>3. Books'
  BY <1>2, BalanceKept
<1>4. \A s \in Requests : (n[s] = referralReq[s] /\ Spared(n[s])) \/ CodeRight(n[s])'
  BY <1>1
<1>5. \A s, t \in Requests : s # t => CodeApart(n[s], n[t])
  BY <1>1 DEF CodesInv, CodeApart
<1> QED
  BY <1>1, <1>3, <1>4, <1>5, CodesMove

\* A step that leaves the tables alone.
LEMMA CodeQuiet ==
  ASSUME CodesInv, UNCHANGED <<referredBy, referrals, welcomed, brought, welcome, signup,
                               commission, missed>>,
         activated' \subseteq Members,
         inflight' \in [ApiProcesses -> [Members -> Requests \cup {Nobody}]],
         recent' \in [ApiProcesses -> SUBSET (Members \X Codes!Codes \X {"applied", "refused"})],
         NEW r \in Requests, NEW q \in CodeRequest,
         referralReq' = [referralReq EXCEPT ![r] = q], CodeRight(q),
         \A s \in Requests : s # r => CodeApart(q, referralReq[s]),
         \A a \in Members : Owes(q, a) = Owes(referralReq[r], a)
  PROVE  CodesInv'
<1>1. CodesTypes'
  BY DEF CodesInv, CodesTypes
<1>2. LinkStands /\ \A s \in Requests : Spared(referralReq[s])
  BY DEF LinkStands, Spared
<1>3. \A a \in Members : AccountRight(a)'
  BY DEF CodesInv, AccountRight
<1>4. CodeRight(q)'
  BY DEF CodeRight
<1>5. \A a \in Members :
             (RowEarned(a)' + Owes(q, a) + missed'[a]) + (Due(a) + commission[a])
             = (RowEarned(a) + Owes(referralReq[r], a) + missed[a]) + (Due(a)' + commission'[a])
  BY DEF RowEarned, Due
<1> QED
  BY <1>1, <1>2, <1>3, <1>4, <1>5, OneCode

-----------------------------------------------------------------------------
\* Requests that begin, end, or only look

LEMMA IdleIsCode ==
  /\ Codes!Idle \in CodeRequest /\ Codes!Idle.at = "idle" /\ CodeRight(Codes!Idle)
  /\ CodeRight(Codes!Idle)' /\ \A q : CodeApart(Codes!Idle, q)
  /\ \A a : Owes(Codes!Idle, a) = 0
  BY DEF Codes!Idle, CodeRequest, Codes!Places, CodeRight, CodeApart, Owes, Linked, Adding

\* Memory stays well formed when a request ends, whether it is remembered or not.
LEMMA MemoryTyped ==
  ASSUME CodesInv, NEW r \in Requests, referralReq[r].at # "idle",
         \/ Codes!Return(r) /\ UNCHANGED recent
         \/ \E result \in {"applied", "refused"} : Codes!Remember(r, result)
  PROVE  /\ inflight' \in [ApiProcesses -> [Members -> Requests \cup {Nobody}]]
         /\ recent' \in [ApiProcesses -> SUBSET (Members \X Codes!Codes \X {"applied", "refused"})]
         /\ referralReq' = [referralReq EXCEPT ![r] = Codes!Idle]
<1>1. PICK p \in ApiProcesses, a \in Members, c \in Members \cup {Bogus} :
          p = referralReq[r].process /\ a = referralReq[r].account /\ c = referralReq[r].code
  BY DEF CodesInv, CodeRight
<1>2. Codes!Return(r)
  BY DEF Codes!Remember
<1>3. /\ inflight \in [ApiProcesses -> [Members -> Requests \cup {Nobody}]]
      /\ recent \in [ApiProcesses -> SUBSET (Members \X Codes!Codes \X {"applied", "refused"})]
  BY DEF CodesInv, CodesTypes
<1>4. inflight' \in [ApiProcesses -> [Members -> Requests \cup {Nobody}]]
  <2> DEFINE h == [b \in Members |-> IF inflight[p][b] = r THEN Nobody ELSE inflight[p][b]]
  <2>1. h \in [Members -> Requests \cup {Nobody}]
    BY <1>3
  <2>2. inflight' = [inflight EXCEPT ![p] = h]
    BY <1>1, <1>2 DEF Codes!Return, Codes!Released
  <2> QED
    BY <1>3, <2>1, <2>2
<1>5. recent' \in [ApiProcesses -> SUBSET (Members \X Codes!Codes \X {"applied", "refused"})]
  <2>1. CASE UNCHANGED recent
    BY <1>3, <2>1
  <2>2. CASE \E result \in {"applied", "refused"} : Codes!Remember(r, result)
    <3>1. PICK result \in {"applied", "refused"} : Codes!Remember(r, result)
      BY <2>2
    <3> DEFINE h == recent[p] \cup {<<a, c, result>>}
    <3>2. <<a, c, result>> \in Members \X Codes!Codes \X {"applied", "refused"}
      BY DEF Codes!Codes
    <3>3. h \in SUBSET (Members \X Codes!Codes \X {"applied", "refused"})
      BY <1>3, <3>2
    <3>4. recent' = [recent EXCEPT ![p] = h]
      BY <1>1, <3>1 DEF Codes!Remember
    <3> QED
      BY <1>3, <3>3, <3>4
  <2> QED
    BY <2>1, <2>2
<1> QED
  BY <1>2, <1>4, <1>5 DEF Codes!Return

\* A request goes on at another place.
LEMMA CodeGoes ==
  ASSUME CodesInv, NEW r \in Requests, NEW place \in Codes!Places, Codes!Goto(r, place)
  PROVE  \E q \in CodeRequest :
             /\ referralReq' = [referralReq EXCEPT ![r] = q] /\ q.at = place
             /\ q.process = referralReq[r].process /\ q.account = referralReq[r].account
             /\ q.code = referralReq[r].code /\ q.add = referralReq[r].add
             /\ q.seen = referralReq[r].seen /\ q.tries = referralReq[r].tries
<1> DEFINE q == [referralReq[r] EXCEPT !.at = place]
<1>1. referralReq[r] \in CodeRequest /\ referralReq \in [Requests -> CodeRequest]
  BY DEF CodesInv, CodesTypes
<1>2. /\ q \in CodeRequest /\ q.at = place
      /\ q.process = referralReq[r].process /\ q.account = referralReq[r].account
      /\ q.code = referralReq[r].code /\ q.add = referralReq[r].add
      /\ q.seen = referralReq[r].seen /\ q.tries = referralReq[r].tries
  BY <1>1 DEF CodeRequest
<1>3. referralReq' = [referralReq EXCEPT ![r] = q]
  BY DEF Codes!Goto
<1> QED
  BY <1>2, <1>3

\* Where a look at the tables leads, and a link that comes too late.
LooksOn(from, place) ==
    <<from, place>> \in {<<"referrer", "user">>, <<"user", "row">>, <<"row", "activation">>,
                         <<"activation", "link">>, <<"link", "relook">>, <<"welcome", "addWelcome">>,
                         <<"welcome", "signup">>, <<"signup", "addSignup">>}

LEMMA LookGoesOn ==
  ASSUME CodesInv, NEW r \in Requests, NEW from \in Codes!Places, NEW place \in Codes!Places,
         referralReq[r].at = from, LooksOn(from, place), Codes!Goto(r, place),
         place = "user" => referralReq[r].code \in Members,
         UNCHANGED <<activated, referredBy, referrals, welcomed, brought, welcome, signup,
                     commission, missed,
                     inflight, recent>>
  PROVE  CodesInv'
<1>1. PICK q \in CodeRequest :
             /\ referralReq' = [referralReq EXCEPT ![r] = q] /\ q.at = place
             /\ q.process = referralReq[r].process /\ q.account = referralReq[r].account
             /\ q.code = referralReq[r].code /\ q.add = referralReq[r].add
  BY CodeGoes
<1>2. CodeRight(referralReq[r]) /\ \A s \in Requests : s # r => CodeApart(referralReq[r], referralReq[s])
  BY DEF CodesInv
<1>3. CodeRight(q)
  BY <1>1, <1>2 DEF CodeRight, LooksOn, Linked, Adding
<1>4. \A s \in Requests : s # r => CodeApart(q, referralReq[s])
  BY <1>1, <1>2 DEF CodeApart, LooksOn, Linked
<1>5. \A a \in Members : Owes(q, a) = Owes(referralReq[r], a)
  BY <1>1 DEF Owes, LooksOn, Adding
<1>6. activated' \subseteq Members
      /\ inflight' \in [ApiProcesses -> [Members -> Requests \cup {Nobody}]]
      /\ recent' \in [ApiProcesses -> SUBSET (Members \X Codes!Codes \X {"applied", "refused"})]
  BY DEF CodesInv, CodesTypes
<1> QED
  BY <1>1, <1>3, <1>4, <1>5, <1>6, CodeQuiet

\* A request that owes nothing ends.
LEMMA CodeEnds ==
  ASSUME CodesInv, NEW r \in Requests, referralReq[r].at \notin Adding \cup {"idle"},
         \/ Codes!Return(r) /\ UNCHANGED recent
         \/ \E result \in {"applied", "refused"} : Codes!Remember(r, result),
         UNCHANGED <<activated, referredBy, referrals, welcomed, brought, welcome, signup,
                     commission, missed>>
  PROVE  CodesInv'
<1>1. /\ inflight' \in [ApiProcesses -> [Members -> Requests \cup {Nobody}]]
      /\ recent' \in [ApiProcesses -> SUBSET (Members \X Codes!Codes \X {"applied", "refused"})]
      /\ referralReq' = [referralReq EXCEPT ![r] = Codes!Idle]
  BY MemoryTyped
<1>2. \A a \in Members : Owes(Codes!Idle, a) = Owes(referralReq[r], a)
  BY IdleIsCode DEF Owes
<1>3. activated' \subseteq Members
  BY DEF CodesInv, CodesTypes
<1> QED
  BY <1>1, <1>2, <1>3, IdleIsCode, CodeQuiet

LEMMA CodeLooksKeep ==
  ASSUME CodesInv, NEW r \in Requests,
         \/ Codes!FindReferrer(r) \/ Codes!ReadUser(r) \/ Codes!ReadRow(r)
         \/ Codes!CheckActivation(r) \/ Codes!LookAgain(r) \/ Codes!FindWelcome(r)
         \/ Codes!FindSignup(r)
  PROVE  CodesInv'
<1>1. UNCHANGED <<activated, referredBy, referrals, welcomed, brought, welcome, signup,
                  commission, missed>>
  BY DEF Codes!FindReferrer, Codes!ReadUser, Codes!ReadRow, Codes!CheckActivation,
     Codes!LookAgain, Codes!FindWelcome, Codes!FindSignup, Codes!database
<1>2. referralReq[r].at \notin Adding \cup {"idle"}
  BY DEF Codes!FindReferrer, Codes!ReadUser, Codes!ReadRow, Codes!CheckActivation,
     Codes!LookAgain, Codes!FindWelcome, Codes!FindSignup, Codes!At, Adding
<1>3. CASE \/ Codes!Return(r) /\ UNCHANGED recent
           \/ \E result \in {"applied", "refused"} : Codes!Remember(r, result)
  BY <1>1, <1>2, <1>3, CodeEnds
<1>4. ASSUME NEW from \in Codes!Places, NEW place \in Codes!Places, referralReq[r].at = from,
             LooksOn(from, place), Codes!Goto(r, place), UNCHANGED <<inflight, recent>>,
             place = "user" => referralReq[r].code \in Members
      PROVE  CodesInv'
  BY <1>1, <1>4, LookGoesOn
<1>5. {"referrer", "user", "row", "activation", "link", "welcome", "addWelcome", "signup", "addSignup"}
          \subseteq Codes!Places
  BY DEF Codes!Places
<1>6. CASE Codes!FindReferrer(r)
  <2>1. CASE referralReq[r].code \in {Bogus, referralReq[r].account}
    BY <1>3, <1>6, <2>1 DEF Codes!FindReferrer
  <2>2. CASE referralReq[r].code \notin {Bogus, referralReq[r].account}
    <3>1. referralReq[r].code \in Members
      BY <1>2, <2>2 DEF CodesInv, CodeRight
    <3>2. /\ referralReq[r].at = "referrer" /\ LooksOn("referrer", "user") /\ Codes!Goto(r, "user")
          /\ UNCHANGED <<inflight, recent>>
      BY <1>6, <2>2 DEF Codes!FindReferrer, Codes!At, Codes!memory, LooksOn
    <3> QED
      BY <1>4, <1>5, <3>1, <3>2
  <2> QED
    BY <2>1, <2>2
<1>7. CASE Codes!ReadUser(r)
  <2>1. CASE referredBy[referralReq[r].account] # Nobody
    BY <1>3, <1>7, <2>1 DEF Codes!ReadUser
  <2>2. CASE referredBy[referralReq[r].account] = Nobody
    <3>1. /\ referralReq[r].at = "user" /\ LooksOn("user", "row") /\ Codes!Goto(r, "row")
          /\ UNCHANGED <<inflight, recent>>
      BY <1>7, <2>2 DEF Codes!ReadUser, Codes!At, Codes!memory, LooksOn
    <3> QED
      BY <1>4, <1>5, <3>1
  <2> QED
    BY <2>1, <2>2
<1>8. CASE Codes!ReadRow(r)
  <2>1. CASE referrals[referralReq[r].account] # Nobody
    BY <1>3, <1>8, <2>1 DEF Codes!ReadRow
  <2>2. CASE referrals[referralReq[r].account] = Nobody
    <3>1. /\ referralReq[r].at = "row" /\ LooksOn("row", "activation") /\ Codes!Goto(r, "activation")
          /\ UNCHANGED <<inflight, recent>>
      BY <1>8, <2>2 DEF Codes!ReadRow, Codes!At, Codes!memory, LooksOn
    <3> QED
      BY <1>4, <1>5, <3>1
  <2> QED
    BY <2>1, <2>2
<1>9. CASE Codes!CheckActivation(r)
  <2>1. CASE referralReq[r].account \notin activated
    BY <1>3, <1>9, <2>1 DEF Codes!CheckActivation
  <2>2. CASE referralReq[r].account \in activated
    <3>1. /\ referralReq[r].at = "activation" /\ LooksOn("activation", "link")
          /\ Codes!Goto(r, "link") /\ UNCHANGED <<inflight, recent>>
      BY <1>9, <2>2 DEF Codes!CheckActivation, Codes!At, LooksOn
    <3> QED
      BY <1>4, <1>5, <3>1
  <2> QED
    BY <2>1, <2>2
<1>10. CASE Codes!LookAgain(r)
  BY <1>3, <1>10 DEF Codes!LookAgain
<1>11. CASE Codes!FindWelcome(r)
  <2>1. PICK place \in {"addWelcome", "signup"} : Codes!Goto(r, place)
    BY <1>11 DEF Codes!FindWelcome
  <2>2. /\ referralReq[r].at = "welcome" /\ LooksOn("welcome", place) /\ UNCHANGED <<inflight,
                                                                                     recent>>
    BY <1>11 DEF Codes!FindWelcome, Codes!At, Codes!memory, LooksOn
  <2> QED
    BY <1>4, <1>5, <2>1, <2>2
<1>12. CASE Codes!FindSignup(r)
  <2>1. CASE <<referralReq[r].code, referralReq[r].account>> \in brought
    BY <1>3, <1>12, <2>1 DEF Codes!FindSignup
  <2>2. CASE <<referralReq[r].code, referralReq[r].account>> \notin brought
    <3>1. /\ referralReq[r].at = "signup" /\ LooksOn("signup", "addSignup")
          /\ Codes!Goto(r, "addSignup") /\ UNCHANGED <<inflight, recent>>
      BY <1>12, <2>2 DEF Codes!FindSignup, Codes!At, Codes!memory, LooksOn
    <3> QED
      BY <1>4, <1>5, <3>1
  <2> QED
    BY <2>1, <2>2
<1> QED
  BY <1>6, <1>7, <1>8, <1>9, <1>10, <1>11, <1>12

LEMMA CodeBeginsKeep ==
  ASSUME CodesInv, NEW r \in Requests, NEW p \in ApiProcesses, NEW a \in Referees,
         Codes!Earn(r, p, a) \/ \E c \in Applied : Codes!BeginApply(r, p, a, c)
  PROVE  CodesInv'
<1>1. UNCHANGED <<referredBy, referrals, welcomed, brought, welcome, signup, commission, missed,
                  activated, recent>>
  BY DEF Codes!Earn, Codes!BeginApply, Codes!database, Codes!memory
<1>2. /\ inflight \in [ApiProcesses -> [Members -> Requests \cup {Nobody}]] /\ a \in Members
      /\ activated' \subseteq Members
      /\ recent' \in [ApiProcesses -> SUBSET (Members \X Codes!Codes \X {"applied", "refused"})]
  BY <1>1, CodesBasics DEF CodesInv, CodesTypes
<1>3. referralReq[r].at = "idle" /\ referralReq \in [Requests -> CodeRequest]
  BY DEF Codes!Earn, Codes!BeginApply, Codes!At, CodesInv, CodesTypes
<1>4. CASE \E c \in Applied : Codes!BeginApply(r, p, a, c)
  <2>1. PICK c \in Members \cup {Bogus} : Codes!BeginApply(r, p, a, c)
    BY <1>4, CodesBasics
  <2> DEFINE q == [Codes!Idle EXCEPT !.at = "referrer", !.process = p, !.account = a, !.code = c]
             h == [inflight[p] EXCEPT ![a] = r]
  <2>2. q \in CodeRequest /\ q.at = "referrer" /\ q.process = p /\ q.account = a /\ q.code = c
    BY <1>2 DEF Codes!Idle, CodeRequest, Codes!Places
  <2>3. referralReq' = [referralReq EXCEPT ![r] = q] /\ inflight' = [inflight EXCEPT ![p] = h]
    BY <2>1 DEF Codes!BeginApply
  <2>4. inflight' \in [ApiProcesses -> [Members -> Requests \cup {Nobody}]]
    <3>1. h \in [Members -> Requests \cup {Nobody}]
      BY <1>2
    <3> HIDE DEF h
    <3> QED
      BY <1>2, <2>3, <3>1
  <2> HIDE DEF q
  <2>5. CodeRight(q)
    BY <1>2, <2>2 DEF CodeRight, Linked, Adding
  <2>6. \A s \in Requests : CodeApart(q, referralReq[s])
    BY <2>2 DEF CodeApart, Linked
  <2>7. \A m \in Members : Owes(q, m) = Owes(referralReq[r], m)
    BY <1>3, <2>2 DEF Owes, Adding
  <2> QED
    BY <1>1, <1>2, <2>2, <2>3, <2>4, <2>5, <2>6, <2>7, CodeQuiet
<1>5. CASE Codes!Earn(r, p, a)
  <2>0. inflight' \in [ApiProcesses -> [Members -> Requests \cup {Nobody}]]
    BY <1>2, <1>5 DEF Codes!Earn, Codes!memory
  <2>1. CASE referredBy[a] = Nobody
    <3>1. referralReq' = [referralReq EXCEPT ![r] = referralReq[r]] /\ referralReq[r] \in CodeRequest
      BY <1>3, <1>5, <2>1 DEF Codes!Earn
    <3>2. CodeRight(referralReq[r])
          /\ \A s \in Requests : s # r => CodeApart(referralReq[r], referralReq[s])
      BY DEF CodesInv
    <3> QED
      BY <1>1, <1>2, <2>0, <3>1, <3>2, CodeQuiet
  <2>2. CASE referredBy[a] # Nobody
    <3>1. PICK c \in Members : c = referredBy[a]
      BY <1>2, <2>2 DEF CodesInv, CodesTypes
    <3> DEFINE q == [Codes!Idle EXCEPT !.at = "commission", !.process = p, !.account = a, !.code = c]
    <3>2. q \in CodeRequest /\ q.at = "commission" /\ q.process = p /\ q.account = a /\ q.code = c
      BY <1>2, <3>1 DEF Codes!Idle, CodeRequest, Codes!Places
    <3>3. referralReq' = [referralReq EXCEPT ![r] = q]
      BY <1>5, <2>2, <3>1 DEF Codes!Earn
    <3> HIDE DEF q
    <3>4. CodeRight(q)
      BY <1>2, <3>1, <3>2 DEF CodeRight, Linked, Adding
    <3>5. \A s \in Requests : CodeApart(q, referralReq[s])
      BY <3>2 DEF CodeApart, Linked
    <3>6. \A m \in Members : Owes(q, m) = Owes(referralReq[r], m)
      BY <1>3, <3>2 DEF Owes, Adding
    <3> QED
      BY <1>1, <1>2, <2>0, <3>2, <3>3, <3>4, <3>5, <3>6, CodeQuiet
  <2> QED
    BY <2>1, <2>2
<1> QED
  BY <1>4, <1>5

-----------------------------------------------------------------------------
\* Requests that write

\* A request is cut off: what it owes is missed.
LEMMA CutOffKeeps ==
  ASSUME CodesInv, NEW r \in Requests, referralReq[r].at # "idle", Codes!Return(r),
         missed' = Codes!MissedBy({r}),
         UNCHANGED <<activated, referredBy, referrals, welcomed, brought, welcome, signup,
                     commission, recent>>
  PROVE  CodesInv'
<1>1. /\ inflight' \in [ApiProcesses -> [Members -> Requests \cup {Nobody}]]
      /\ recent' \in [ApiProcesses -> SUBSET (Members \X Codes!Codes \X {"applied", "refused"})]
      /\ referralReq' = [referralReq EXCEPT ![r] = Codes!Idle]
  BY MemoryTyped
<1>2. PICK f : f = referralReq /\ CodeRight(f[r]) /\ f[r] \in CodeRequest
  BY DEF CodesInv, CodesTypes
<1>3. missed' = [a \in Members |-> missed[a] + OwedBy(f, {r}, a)]
  BY <1>2, MissedOwed
<1>4. \A a \in Members : OwedBy(f, {r}, a) = Owes(f[r], a) /\ Owes(f[r], a) \in Nat
  <2> SUFFICES ASSUME NEW a \in Members
               PROVE  OwedBy(f, {r}, a) = Owes(f[r], a) /\ OwedBy(f, {r}, a) \in Nat
    OBVIOUS
  <2>1. {r} \in SUBSET Requests
    OBVIOUS
  <2> QED
    BY <1>2, <2>1, OwedByOne, OwedType DEF CodeRight
<1>5. missed \in [Members -> Nat]
  BY DEF CodesInv, CodesTypes
<1>6. missed' \in [Members -> Nat] /\ \A a \in Members : missed'[a] = missed[a] + Owes(f[r], a)
  <2>1. \A a \in Members : missed[a] + OwedBy(f, {r}, a) \in Nat
    <3> SUFFICES ASSUME NEW a \in Members PROVE missed[a] + OwedBy(f, {r}, a) \in Nat
      OBVIOUS
    <3>1. PICK m \in Nat, o \in Nat : m = missed[a] /\ o = OwedBy(f, {r}, a)
      BY <1>4, <1>5
    <3> QED
      BY <3>1
  <2>2. \A a \in Members : missed'[a] = missed[a] + OwedBy(f, {r}, a)
    BY <1>3
  <2>3. missed' \in [Members -> Nat]
    BY <1>3, <2>1
  <2> QED
    BY <1>4, <2>2, <2>3
<1>7. referralReq' \in [Requests -> CodeRequest]
  BY <1>1, IdleIsCode DEF CodesInv, CodesTypes
<1>8. CodesTypes'
  BY <1>1, <1>6, <1>7 DEF CodesInv, CodesTypes
<1>9. LinkStands /\ (\A s \in Requests : Spared(referralReq[s])) /\ (\A a \in Members : AccountRight(a)')
  BY DEF LinkStands, Spared, CodesInv, AccountRight
<1>10. \A a \in Members :
             (RowEarned(a)' + Owes(Codes!Idle, a) + missed'[a]) + (Due(a) + commission[a])
             = (RowEarned(a) + Owes(referralReq[r], a) + missed[a]) + (Due(a)' + commission'[a])
  <2> TAKE a \in Members
  <2>1. PICK e \in Nat, m \in Nat, o \in Nat :
            e = RowEarned(a) /\ m = missed[a] /\ o = Owes(f[r], a)
    BY <1>4, CodesBasics DEF CodesInv, CodesTypes, RowEarned, Codes!Row
  <2>2. RowEarned(a)' = e /\ missed'[a] = m + o /\ Owes(Codes!Idle, a) = 0
    BY <1>6, <2>1, IdleIsCode DEF RowEarned
  <2>3. PICK x : x = Due(a) + commission[a] /\ x = Due(a)' + commission'[a]
    BY DEF Due
  <2>4. e + 0 + (m + o) = e + o + m
    BY <2>1
  <2> QED
    BY <1>2, <2>1, <2>2, <2>3, <2>4
<1> QED
  BY <1>1, <1>8, <1>9, <1>10, IdleIsCode, OneCode

\* The place a writing request is at, and goes to.
LEMMA WriterIs ==
  ASSUME CodesInv, NEW r \in Requests, referralReq[r].at \notin {"idle", "referrer"}
  PROVE  \E p \in CodeRequest, a \in Members, c \in Members :
             /\ p = referralReq[r] /\ CodeRight(p) /\ a = p.account /\ c = p.code
             /\ p.process \in ApiProcesses
             /\ \A s \in Requests : s # r => CodeApart(p, referralReq[s]) /\ CodeApart(referralReq[s], p)
<1>1. referralReq[r] \in CodeRequest /\ CodeRight(referralReq[r])
  BY DEF CodesInv, CodesTypes
<1>2. \A s \in Requests : s # r =>
          CodeApart(referralReq[r], referralReq[s]) /\ CodeApart(referralReq[s], referralReq[r])
  BY DEF CodesInv
<1> QED
  BY <1>1, <1>2 DEF CodeRight

LEMMA LinkUserKeeps ==
  ASSUME CodesInv, NEW r \in Requests, Codes!LinkUser(r)
  PROVE  CodesInv'
<1>0. referralReq[r].at = "link"
  BY DEF Codes!LinkUser, Codes!At
<1>1. PICK p \in CodeRequest, a \in Members, c \in Members :
             /\ p = referralReq[r] /\ CodeRight(p) /\ a = p.account /\ c = p.code
             /\ p.process \in ApiProcesses
             /\ \A s \in Requests : s # r => CodeApart(p, referralReq[s]) /\ CodeApart(referralReq[s], p)
  BY <1>0, WriterIs
<1>2. /\ UNCHANGED <<activated, referrals, welcomed, brought, welcome, signup, commission,
                     missed, inflight, recent>>
  BY DEF Codes!LinkUser, Codes!memory
<1>3. CASE referredBy[a] # Nobody
  <2>1. Codes!Goto(r, "relook") /\ UNCHANGED referredBy
    BY <1>1, <1>3 DEF Codes!LinkUser
  <2>2. LooksOn("link", "relook") /\ "link" \in Codes!Places /\ "relook" \in Codes!Places
    BY DEF LooksOn, Codes!Places
  <2> QED
    BY <1>0, <1>2, <2>1, <2>2, LookGoesOn
<1>4. CASE referredBy[a] = Nobody
  <2>1. Codes!Goto(r, "ensure") /\ referredBy' = [referredBy EXCEPT ![a] = c]
    BY <1>1, <1>4 DEF Codes!LinkUser
  <2>2. PICK q \in CodeRequest :
             /\ referralReq' = [referralReq EXCEPT ![r] = q] /\ q.at = "ensure"
             /\ q.process = p.process /\ q.account = a /\ q.code = c
    BY <1>1, <2>1, CodeGoes DEF Codes!Places
  <2>3. /\ referredBy' \in [Members -> Members \cup {Nobody}] /\ referredBy'[a] = c
        /\ \A m \in Members : m # a => referredBy'[m] = referredBy[m]
    BY <2>1 DEF CodesInv, CodesTypes
  <2>4. referralReq' \in [Requests -> CodeRequest]
    BY <2>2 DEF CodesInv, CodesTypes
  <2>5. CodesTypes'
    BY <1>2, <2>3, <2>4 DEF CodesInv, CodesTypes
  <2>6. LinkStands /\ \A s \in Requests : Spared(referralReq[s])
    BY <1>2, <1>4, <2>3 DEF LinkStands, Spared
  <2>7. /\ welcome[a] = 0 /\ (\A b \in Members : signup[b][a] = 0) /\ referrals[a] = Nobody
    <3>1. AccountRight(a) /\ referrals[a] \in Codes!Row \cup {Nobody}
      BY DEF CodesInv, CodesTypes
    <3> QED
      BY <1>4, <3>1, CodesBasics DEF AccountRight, Codes!Row
  <2>8. ASSUME NEW m \in Members PROVE AccountRight(m)'
    <3>1. CASE m = a
      BY <1>2, <2>7, <3>1 DEF AccountRight
    <3>2. CASE m # a
      BY <1>2, <2>3, <3>2 DEF AccountRight, CodesInv
    <3> QED
      BY <3>1, <3>2
  <2>9. CodeRight(q)'
    BY <1>1, <1>2, <2>2, <2>3, <2>7 DEF CodeRight, Linked, Adding
  <2>10. \A s \in Requests : s # r => CodeApart(q, referralReq[s])
    <3>1. ASSUME NEW s \in Requests, referralReq[s].at \in Linked PROVE referralReq[s].account # a
      BY <1>4, <3>1, CodesBasics DEF CodesInv, CodeRight, Linked
    <3> QED
      BY <2>2, <3>1 DEF CodeApart
  <2>11. \A m \in Members :
             (RowEarned(m)' + Owes(q, m) + missed'[m]) + (Due(m) + commission[m])
             = (RowEarned(m) + Owes(referralReq[r], m) + missed[m]) + (Due(m)' + commission'[m])
    <3>1. \A m \in Members : Owes(q, m) = Owes(referralReq[r], m)
      BY <1>0, <2>2 DEF Owes, Adding
    <3> QED
      BY <1>2, <3>1 DEF RowEarned, Due
  <2> QED
    BY <2>2, <2>5, <2>6, <2>8, <2>9, <2>10, <2>11, OneCode
<1> QED
  BY <1>3, <1>4

\* The row of the account is there: it was, or it is inserted.
LEMMA EnsureKeeps ==
  ASSUME CodesInv, NEW r \in Requests, Codes!EnsureLinkRow(r) \/ Codes!EnsureRow(r)
  PROVE  CodesInv'
<1>0. PICK from \in {"ensure", "ensureRow"}, place \in {"welcome", "load"} :
          /\ referralReq[r].at = from /\ Codes!Goto(r, place)
          /\ from = "ensure" <=> place = "welcome"
  BY DEF Codes!EnsureLinkRow, Codes!EnsureRow, Codes!At
<1>1. PICK p \in CodeRequest, a \in Members, c \in Members :
             /\ p = referralReq[r] /\ CodeRight(p) /\ a = p.account /\ c = p.code
             /\ p.process \in ApiProcesses
             /\ \A s \in Requests : s # r => CodeApart(p, referralReq[s]) /\ CodeApart(referralReq[s], p)
  BY <1>0, WriterIs
<1>2. UNCHANGED <<activated, referredBy, welcomed, brought, welcome, signup, commission, missed,
                  inflight, recent>>
  BY DEF Codes!EnsureLinkRow, Codes!EnsureRow, Codes!memory
<1>3. PICK q \in CodeRequest :
             /\ referralReq' = [referralReq EXCEPT ![r] = q] /\ q.at = place
             /\ q.process = p.process /\ q.account = a /\ q.code = c /\ q.add = p.add
  BY <1>0, <1>1, CodeGoes DEF Codes!Places
<1>4. referredBy[a] = c
  BY <1>0, <1>1 DEF CodeRight, Linked, Adding
<1> DEFINE d == [referrer |-> c, earned |-> 0]
<1>5. d \in Codes!Row /\ d.referrer = c /\ d.earned = 0
  BY DEF Codes!Row
<1>6. referrals' = (IF referrals[a] = Nobody THEN [referrals EXCEPT ![a] = d] ELSE referrals)
  BY <1>1 DEF Codes!EnsureLinkRow, Codes!EnsureRow, Codes!WithRow
<1> HIDE DEF d
<1>7. /\ referrals' \in [Members -> Codes!Row \cup {Nobody}] /\ referrals'[a] # Nobody
      /\ \A m \in Members : referrals'[m] = referrals[m]
                             \/ (m = a /\ referrals[m] = Nobody /\ referrals'[m] = d)
  <2>1. referrals \in [Members -> Codes!Row \cup {Nobody}]
    BY DEF CodesInv, CodesTypes
  <2>2. CASE referrals[a] = Nobody
    BY <1>5, <1>6, <2>1, <2>2, CodesBasics
  <2>3. CASE referrals[a] # Nobody
    BY <1>6, <2>1, <2>3
  <2> QED
    BY <2>2, <2>3
<1>8. referralReq' \in [Requests -> CodeRequest]
  BY <1>3 DEF CodesInv, CodesTypes
<1>9. CodesTypes'
  BY <1>2, <1>7, <1>8 DEF CodesInv, CodesTypes
<1>10. LinkStands /\ \A s \in Requests : Spared(referralReq[s])
  BY <1>2, <1>5, <1>7, CodesBasics DEF LinkStands, Spared
<1>11. ASSUME NEW m \in Members PROVE AccountRight(m)'
  <2>1. AccountRight(m)
    BY DEF CodesInv
  <2> QED
    BY <1>2, <1>4, <1>5, <1>7, <2>1 DEF AccountRight
<1>12. CodeRight(q)'
  BY <1>0, <1>1, <1>2, <1>3, <1>7 DEF CodeRight, Linked, Adding
<1>13. \A s \in Requests : s # r => CodeApart(q, referralReq[s])
  BY <1>0, <1>1, <1>3 DEF CodeApart, Linked
<1>14. \A m \in Members : Owes(q, m) = Owes(referralReq[r], m) /\ RowEarned(m)' = RowEarned(m)
  <2> TAKE m \in Members
  <2>1. Owes(q, m) = Owes(referralReq[r], m)
    BY <1>0, <1>1, <1>3 DEF Owes, Adding
  <2>2. RowEarned(m)' = RowEarned(m)
    BY <1>5, <1>7, CodesBasics DEF RowEarned
  <2> QED
    BY <2>1, <2>2
<1>15. \A m \in Members :
             (RowEarned(m)' + Owes(q, m) + missed'[m]) + (Due(m) + commission[m])
             = (RowEarned(m) + Owes(referralReq[r], m) + missed[m]) + (Due(m)' + commission'[m])
  BY <1>2, <1>14 DEF Due
<1> QED
  BY <1>3, <1>9, <1>10, <1>11, <1>12, <1>13, <1>15, OneCode

LEMMA AddWelcomeKeeps ==
  ASSUME CodesInv, NEW r \in Requests, Codes!AddWelcome(r)
  PROVE  CodesInv'
<1>0. referralReq[r].at = "addWelcome"
  BY DEF Codes!AddWelcome, Codes!At
<1>1. PICK p \in CodeRequest, a \in Members, c \in Members :
             /\ p = referralReq[r] /\ CodeRight(p) /\ a = p.account /\ c = p.code
             /\ p.process \in ApiProcesses
             /\ \A s \in Requests : s # r => CodeApart(p, referralReq[s]) /\ CodeApart(referralReq[s], p)
  BY <1>0, WriterIs
<1>2. /\ UNCHANGED <<activated, referredBy, referrals, brought, signup, commission, missed,
                     inflight,
                    recent>>
      /\ welcomed' \subseteq Members
  <2>1. welcomed \subseteq Members
    BY DEF CodesInv, CodesTypes
  <2> QED
    BY <1>1, <2>1 DEF Codes!AddWelcome, Codes!memory
<1>3. PICK q \in CodeRequest :
             /\ referralReq' = [referralReq EXCEPT ![r] = q] /\ q.at = "signup"
             /\ q.process = p.process /\ q.account = a /\ q.code = c /\ q.add = p.add
  BY <1>1, CodeGoes DEF Codes!AddWelcome, Codes!Places
<1>4. welcome[a] = 0 /\ referredBy[a] = c
  BY <1>0, <1>1 DEF CodeRight, Linked
<1>5. /\ welcome' \in [Members -> Nat] /\ welcome'[a] = 1
      /\ \A m \in Members : m # a => welcome'[m] = welcome[m]
  <2>1. welcome' = [welcome EXCEPT ![a] = welcome[a] + 1] /\ welcome \in [Members -> Nat]
    BY <1>1 DEF Codes!AddWelcome, CodesInv, CodesTypes
  <2> QED
    BY <1>4, <2>1
<1>6. referralReq' \in [Requests -> CodeRequest]
  BY <1>3 DEF CodesInv, CodesTypes
<1>7. CodesTypes'
  BY <1>2, <1>5, <1>6 DEF CodesInv, CodesTypes
<1>8. LinkStands
  BY <1>2 DEF LinkStands
<1>9. \A s \in Requests : s # r => CodeApart(q, referralReq[s]) /\ Spared(referralReq[s])
  <2> SUFFICES ASSUME NEW s \in Requests, s # r
               PROVE  CodeApart(q, referralReq[s]) /\ Spared(referralReq[s])
    OBVIOUS
  <2>1. referralReq[s].at \in Linked => referralReq[s].account # a /\ referralReq[s].account \in Members
    BY <1>0, <1>1 DEF CodeApart, Linked, CodesInv, CodeRight
  <2> QED
    BY <1>2, <1>3, <1>5, <2>1 DEF CodeApart, Spared
<1>10. ASSUME NEW m \in Members PROVE AccountRight(m)'
  <2>1. AccountRight(m) /\ c # Nobody
    BY CodesBasics DEF CodesInv
  <2> QED
    BY <1>2, <1>4, <1>5, <2>1 DEF AccountRight
<1>11. CodeRight(q)'
  BY <1>0, <1>1, <1>2, <1>3 DEF CodeRight, Linked, Adding
<1>12. \A m \in Members : Owes(q, m) = Owes(referralReq[r], m)
  BY <1>0, <1>3 DEF Owes, Adding
<1>13. \A m \in Members :
             (RowEarned(m)' + Owes(q, m) + missed'[m]) + (Due(m) + commission[m])
             = (RowEarned(m) + Owes(referralReq[r], m) + missed[m]) + (Due(m)' + commission'[m])
  BY <1>2, <1>12 DEF Due, RowEarned
<1> QED
  BY <1>3, <1>7, <1>8, <1>9, <1>10, <1>11, <1>13, OneCode

LEMMA AddSignupKeeps ==
  ASSUME CodesInv, NEW r \in Requests, Codes!AddSignup(r)
  PROVE  CodesInv'
<1>0. referralReq[r].at = "addSignup"
  BY DEF Codes!AddSignup, Codes!At
<1>1. PICK p \in CodeRequest, a \in Members, c \in Members :
             /\ p = referralReq[r] /\ CodeRight(p) /\ a = p.account /\ c = p.code
             /\ p.process \in ApiProcesses
             /\ \A s \in Requests : s # r => CodeApart(p, referralReq[s]) /\ CodeApart(referralReq[s], p)
  BY <1>0, WriterIs
<1>2. /\ UNCHANGED <<activated, referredBy, referrals, welcomed, welcome, commission, missed,
                     inflight,
                    recent>>
      /\ brought' \subseteq Members \X Members
  <2>1. brought \subseteq Members \X Members
    BY DEF CodesInv, CodesTypes
  <2> QED
    BY <1>1, <2>1 DEF Codes!AddSignup, Codes!memory
<1> DEFINE q == [p EXCEPT !.at = "ensureRow", !.add = Signup]
<1>3. /\ q \in CodeRequest /\ q.at = "ensureRow" /\ q.add = Signup
      /\ q.process = p.process /\ q.account = a /\ q.code = c
  BY <1>1, CodesBasics DEF CodeRequest, Codes!Places
<1>4. referralReq' = [referralReq EXCEPT ![r] = q]
  BY <1>1 DEF Codes!AddSignup
<1> HIDE DEF q
<1>5. (\A b \in Members : signup[b][a] = 0) /\ referredBy[a] = c
  BY <1>0, <1>1 DEF CodeRight, Linked
<1>6. /\ signup' \in [Members -> [Members -> Nat]] /\ signup'[c][a] = 1
      /\ \A b, m \in Members : b # c \/ m # a => signup'[b][m] = signup[b][m]
  <2> DEFINE h == [signup[c] EXCEPT ![a] = signup[c][a] + 1]
  <2>1. signup' = [signup EXCEPT ![c] = h]
    BY <1>1 DEF Codes!AddSignup
  <2>2. signup \in [Members -> [Members -> Nat]] /\ signup[c][a] = 0
    BY <1>5 DEF CodesInv, CodesTypes
  <2>3. h \in [Members -> Nat] /\ h[a] = 1 /\ \A m \in Members : m # a => h[m] = signup[c][m]
    BY <2>2
  <2> HIDE DEF h
  <2> QED
    BY <2>1, <2>2, <2>3
<1>7. referralReq' \in [Requests -> CodeRequest]
  BY <1>3, <1>4 DEF CodesInv, CodesTypes
<1>8. CodesTypes'
  BY <1>2, <1>6, <1>7 DEF CodesInv, CodesTypes
<1>9. LinkStands
  BY <1>2 DEF LinkStands
<1>10. \A s \in Requests : s # r => CodeApart(q, referralReq[s]) /\ Spared(referralReq[s])
  <2> SUFFICES ASSUME NEW s \in Requests, s # r
               PROVE  CodeApart(q, referralReq[s]) /\ Spared(referralReq[s])
    OBVIOUS
  <2>1. referralReq[s].at \in Linked => referralReq[s].account # a /\ referralReq[s].account \in Members
    BY <1>0, <1>1 DEF CodeApart, Linked, CodesInv, CodeRight
  <2>2. CodeApart(q, referralReq[s])
    BY <1>3 DEF CodeApart, Linked
  <2> QED
    BY <1>2, <1>6, <2>1, <2>2 DEF Spared
<1>11. ASSUME NEW m \in Members PROVE AccountRight(m)'
  <2>1. AccountRight(m) /\ c # Nobody
    BY CodesBasics DEF CodesInv
  <2>2. \A b \in Members : signup'[b][m] = 0 \/ (signup'[b][m] = 1 /\ b = referredBy'[m])
    BY <1>2, <1>5, <1>6, <2>1 DEF AccountRight
  <2> QED
    BY <1>2, <2>1, <2>2 DEF AccountRight
<1>12. CodeRight(q)'
  BY <1>1, <1>2, <1>3, <1>5 DEF CodeRight, Linked, Adding
<1>13. \A m \in Members :
             (RowEarned(m)' + Owes(q, m) + missed'[m]) + (Due(m) + commission[m])
             = (RowEarned(m) + Owes(referralReq[r], m) + missed[m]) + (Due(m)' + commission'[m])
  <2> TAKE m \in Members
  <2>1. PICK e \in Nat, i \in Nat, x \in Nat, s \in Nat :
            e = RowEarned(m) /\ i = missed[m] /\ x = commission[m] /\ s = Signup
    BY CodesBasics DEF CodesInv, CodesTypes, RowEarned, Codes!Row
  <2>2. RowEarned(m)' = e /\ missed'[m] = i /\ commission'[m] = x
    BY <1>2, <2>1 DEF RowEarned
  <2>3. Owes(referralReq[r], m) = 0
    BY <1>0 DEF Owes, Adding
  <2>4. CASE m = a
    <3>1. Owes(q, m) = s /\ Due(m) = 0
      BY <1>3, <1>5, <2>1, <2>4 DEF Owes, Adding, Due
    <3>2. Due(m)' = s
      BY <1>6, <2>1, <2>4 DEF Due
    <3>3. (e + s + i) + (0 + x) = (e + 0 + i) + (s + x)
      BY <2>1
    <3> QED
      BY <2>1, <2>2, <2>3, <3>1, <3>2, <3>3
  <2>5. CASE m # a
    <3>1. Owes(q, m) = 0 /\ Due(m)' = Due(m)
      BY <1>3, <1>6, <2>5 DEF Owes, Due
    <3> QED
      BY <2>1, <2>2, <2>3, <3>1
  <2> QED
    BY <2>4, <2>5
<1> QED
  BY <1>3, <1>4, <1>8, <1>9, <1>10, <1>11, <1>12, <1>13, OneCode

LEMMA AddCommissionKeeps ==
  ASSUME CodesInv, NEW r \in Requests, Codes!AddCommission(r)
  PROVE  CodesInv'
<1>0. referralReq[r].at = "commission"
  BY DEF Codes!AddCommission, Codes!At
<1>1. PICK p \in CodeRequest, a \in Members, c \in Members :
             /\ p = referralReq[r] /\ CodeRight(p) /\ a = p.account /\ c = p.code
             /\ p.process \in ApiProcesses
             /\ \A s \in Requests : s # r => CodeApart(p, referralReq[s]) /\ CodeApart(referralReq[s], p)
  BY <1>0, WriterIs
<1>2. UNCHANGED <<activated, referredBy, referrals, welcomed, brought, welcome, signup, missed,
                  inflight, recent>>
  BY DEF Codes!AddCommission, Codes!memory
<1> DEFINE q == [p EXCEPT !.at = "ensureRow", !.add = Commission]
<1>3. /\ q \in CodeRequest /\ q.at = "ensureRow" /\ q.add = Commission
      /\ q.process = p.process /\ q.account = a /\ q.code = c
  BY <1>1, CodesBasics DEF CodeRequest, Codes!Places
<1>4. referralReq' = [referralReq EXCEPT ![r] = q]
  BY <1>1 DEF Codes!AddCommission
<1> HIDE DEF q
<1>5. referredBy[a] = c
  BY <1>0, <1>1 DEF CodeRight
<1>6. PICK x \in Nat, k \in Nat : x = commission[a] /\ k = Commission
  BY CodesBasics DEF CodesInv, CodesTypes
<1>7. /\ commission' \in [Members -> Nat] /\ commission'[a] = x + k
      /\ \A m \in Members : m # a => commission'[m] = commission[m]
  <2>1. commission' = [commission EXCEPT ![a] = x + k] /\ commission \in [Members -> Nat]
    BY <1>1, <1>6 DEF Codes!AddCommission, CodesInv, CodesTypes
  <2> QED
    BY <2>1
<1>8. referralReq' \in [Requests -> CodeRequest]
  BY <1>3, <1>4 DEF CodesInv, CodesTypes
<1>9. CodesTypes'
  BY <1>2, <1>7, <1>8 DEF CodesInv, CodesTypes
<1>10. LinkStands /\ (\A s \in Requests : Spared(referralReq[s])) /\ (\A m \in Members : AccountRight(m)')
  BY <1>2 DEF LinkStands, Spared, CodesInv, AccountRight
<1>11. CodeRight(q)'
  BY <1>1, <1>2, <1>3, <1>5 DEF CodeRight, Linked, Adding
<1>12. \A s \in Requests : s # r => CodeApart(q, referralReq[s])
  BY <1>3 DEF CodeApart, Linked
<1>13. \A m \in Members :
             (RowEarned(m)' + Owes(q, m) + missed'[m]) + (Due(m) + commission[m])
             = (RowEarned(m) + Owes(referralReq[r], m) + missed[m]) + (Due(m)' + commission'[m])
  <2> TAKE m \in Members
  <2>1. PICK e \in Nat, i \in Nat, d \in Nat :
            e = RowEarned(m) /\ i = missed[m] /\ d = Due(m)
    BY CodesBasics DEF CodesInv, CodesTypes, RowEarned, Due, Codes!Row
  <2>2. RowEarned(m)' = e /\ missed'[m] = i /\ Due(m)' = d
    BY <1>2, <2>1 DEF RowEarned, Due
  <2>3. Owes(referralReq[r], m) = 0
    BY <1>0 DEF Owes, Adding
  <2>4. CASE m = a
    <3>1. Owes(q, m) = k
      BY <1>3, <1>6, <2>4 DEF Owes, Adding
    <3>2. (e + k + i) + (d + x) = (e + 0 + i) + (d + (x + k))
      BY <1>6, <2>1
    <3> QED
      BY <1>6, <1>7, <2>1, <2>2, <2>3, <2>4, <3>1, <3>2
  <2>5. CASE m # a
    <3>1. Owes(q, m) = 0 /\ commission'[m] = commission[m]
      BY <1>3, <1>7, <2>5 DEF Owes
    <3> QED
      BY <2>1, <2>2, <2>3, <3>1
  <2> QED
    BY <2>4, <2>5
<1> QED
  BY <1>3, <1>4, <1>9, <1>10, <1>11, <1>12, <1>13, OneCode

\* A step that changes no request and nothing that the requests rely on.
LEMMA CodesStill ==
  ASSUME CodesInv, UNCHANGED <<referredBy, referrals, welcomed, brought, welcome, signup,
                               commission, missed, referralReq>>,
         activated' \subseteq Members,
         inflight' \in [ApiProcesses -> [Members -> Requests \cup {Nobody}]],
         recent' \in [ApiProcesses -> SUBSET (Members \X Codes!Codes \X {"applied", "refused"})]
  PROVE  CodesInv'
<1>1. CodesTypes'
  BY DEF CodesInv, CodesTypes
<1>2. LinkStands /\ \A s \in Requests : Spared(referralReq[s])
  BY DEF LinkStands, Spared
<1>3. \A a \in Members : AccountRight(a)'
  BY DEF CodesInv, AccountRight
<1>4. Books'
  BY DEF CodesInv, Books, RowEarned, Due, OwedBy, OfSignups, OfCommissions, Owes
<1>5. PICK n \in [Requests -> CodeRequest] : n = referralReq /\ n = referralReq'
  BY DEF CodesInv, CodesTypes
<1>6. \A s \in Requests : n[s] = referralReq[s] /\ Spared(n[s])
  BY <1>2, <1>5
<1>7. \A s, t \in Requests : s # t => CodeApart(n[s], n[t])
  BY <1>5 DEF CodesInv
<1> QED
  BY <1>1, <1>2, <1>3, <1>4, <1>5, <1>6, <1>7, CodesMove

LEMMA LoadRowKeeps ==
  ASSUME CodesInv, NEW r \in Requests, Codes!LoadRow(r)
  PROVE  CodesInv'
<1>0. referralReq[r].at = "load"
  BY DEF Codes!LoadRow, Codes!At
<1>1. PICK p \in CodeRequest, a \in Members, c \in Members :
             /\ p = referralReq[r] /\ CodeRight(p) /\ a = p.account /\ c = p.code
             /\ p.process \in ApiProcesses
             /\ \A s \in Requests : s # r => CodeApart(p, referralReq[s]) /\ CodeApart(referralReq[s], p)
  BY <1>0, WriterIs
<1>2. UNCHANGED <<activated, referredBy, referrals, welcomed, brought, welcome, signup,
                  commission, recent>>
  BY DEF Codes!LoadRow
<1>3. PICK d \in Codes!Row : d = referrals[a]
  BY <1>0, <1>1 DEF CodeRight, CodesInv, CodesTypes
<1>4. CASE d.referrer # c
  BY <1>0, <1>1, <1>2, <1>3, <1>4, CutOffKeeps DEF Codes!LoadRow
<1>5. CASE d.referrer = c
  <2> DEFINE q == [p EXCEPT !.at = "compare", !.seen = d.earned]
  <2>1. /\ q \in CodeRequest /\ q.at = "compare" /\ q.add = p.add
        /\ q.process = p.process /\ q.account = a /\ q.code = c
    BY <1>1, <1>3 DEF CodeRequest, Codes!Places, Codes!Row
  <2>2. referralReq' = [referralReq EXCEPT ![r] = q] /\ UNCHANGED <<missed, inflight>>
    BY <1>1, <1>3, <1>5 DEF Codes!LoadRow
  <2> HIDE DEF q
  <2>3. CodeRight(q)
    BY <1>0, <1>1, <2>1 DEF CodeRight, Linked, Adding
  <2>4. \A s \in Requests : s # r => CodeApart(q, referralReq[s])
    BY <2>1 DEF CodeApart, Linked
  <2>5. \A m \in Members : Owes(q, m) = Owes(referralReq[r], m)
    BY <1>0, <1>1, <2>1 DEF Owes, Adding
  <2>6. activated' \subseteq Members
        /\ inflight' \in [ApiProcesses -> [Members -> Requests \cup {Nobody}]]
        /\ recent' \in [ApiProcesses -> SUBSET (Members \X Codes!Codes \X {"applied", "refused"})]
    BY <1>2, <2>2 DEF CodesInv, CodesTypes
  <2> QED
    BY <1>2, <2>1, <2>2, <2>3, <2>4, <2>5, <2>6, CodeQuiet
<1> QED
  BY <1>4, <1>5

LEMMA TryAgainKeeps ==
  ASSUME CodesInv, NEW r \in Requests, Codes!TryAgain(r)
  PROVE  CodesInv'
<1>0. referralReq[r].at = "compare"
  BY DEF Codes!TryAgain, Codes!At
<1>1. PICK p \in CodeRequest, a \in Members, c \in Members :
             /\ p = referralReq[r] /\ CodeRight(p) /\ a = p.account /\ c = p.code
             /\ p.process \in ApiProcesses
             /\ \A s \in Requests : s # r => CodeApart(p, referralReq[s]) /\ CodeApart(referralReq[s], p)
  BY <1>0, WriterIs
<1>2. UNCHANGED <<activated, referredBy, referrals, welcomed, brought, welcome, signup,
                  commission, recent>>
  BY DEF Codes!TryAgain
<1>4. CASE ~(referralReq[r].tries + 1 < LedgerAttempts)
  BY <1>0, <1>2, <1>4, CutOffKeeps DEF Codes!TryAgain
<1>5. CASE referralReq[r].tries + 1 < LedgerAttempts
  <2>0. PICK n \in Nat : n = p.tries + 1
    BY DEF CodeRequest
  <2> DEFINE q == [p EXCEPT !.at = "load", !.tries = n]
  <2>1. /\ q \in CodeRequest /\ q.at = "load" /\ q.add = p.add
        /\ q.process = p.process /\ q.account = a /\ q.code = c
    BY <1>1 DEF CodeRequest, Codes!Places
  <2>2. referralReq' = [referralReq EXCEPT ![r] = q] /\ UNCHANGED <<missed, inflight>>
    BY <1>1, <1>5, <2>0 DEF Codes!TryAgain
  <2> HIDE DEF q
  <2>3. CodeRight(q)
    BY <1>0, <1>1, <2>1 DEF CodeRight, Linked, Adding
  <2>4. \A s \in Requests : s # r => CodeApart(q, referralReq[s])
    BY <2>1 DEF CodeApart, Linked
  <2>5. \A m \in Members : Owes(q, m) = Owes(referralReq[r], m)
    BY <1>0, <1>1, <2>1 DEF Owes, Adding
  <2>6. activated' \subseteq Members
        /\ inflight' \in [ApiProcesses -> [Members -> Requests \cup {Nobody}]]
        /\ recent' \in [ApiProcesses -> SUBSET (Members \X Codes!Codes \X {"applied", "refused"})]
    BY <1>2, <2>2 DEF CodesInv, CodesTypes
  <2> QED
    BY <1>2, <2>1, <2>2, <2>3, <2>4, <2>5, <2>6, CodeQuiet
<1> QED
  BY <1>4, <1>5

LEMMA ThrowsKeeps ==
  ASSUME CodesInv, NEW r \in Requests, Codes!Throws(r)
  PROVE  CodesInv'
<1>1. /\ referralReq[r].at # "idle" /\ Codes!Return(r) /\ missed' = Codes!MissedBy({r})
      /\ UNCHANGED <<activated, referredBy, referrals, welcomed, brought, welcome, signup,
                     commission, recent>>
  BY DEF Codes!Throws, Codes!At
<1> QED
  BY <1>1, CutOffKeeps

\* The row has what the request has read: it takes what the request adds.
LEMMA SetEarnedKeeps ==
  ASSUME CodesInv, NEW r \in Requests, Codes!SetEarned(r)
  PROVE  CodesInv'
<1>0. referralReq[r].at = "compare"
  BY DEF Codes!SetEarned, Codes!At
<1>1. PICK p \in CodeRequest, a \in Members, c \in Members :
             /\ p = referralReq[r] /\ CodeRight(p) /\ a = p.account /\ c = p.code
             /\ p.process \in ApiProcesses
             /\ \A s \in Requests : s # r => CodeApart(p, referralReq[s]) /\ CodeApart(referralReq[s], p)
  BY <1>0, WriterIs
<1>2. UNCHANGED <<activated, referredBy, welcomed, brought, welcome, signup, commission, missed>>
  BY DEF Codes!SetEarned
<1>3. PICK d \in Codes!Row : d = referrals[a]
  BY <1>0, <1>1 DEF CodeRight, CodesInv, CodesTypes
<1>4. PICK x \in Nat, y \in Nat : x = d.earned /\ x = p.seen /\ y = p.add
  BY <1>1, <1>3 DEF Codes!SetEarned, Codes!Row, CodeRequest
<1>5. PICK z \in Nat : z = x + y
  OBVIOUS
<1> DEFINE g == [d EXCEPT !.earned = z]
<1>6. g \in Codes!Row /\ g.earned = z /\ g.referrer = d.referrer
  BY <1>3 DEF Codes!Row
<1>7. referrals' = [referrals EXCEPT ![a] = g]
  BY <1>1, <1>3, <1>4, <1>5 DEF Codes!SetEarned
<1> HIDE DEF g
<1>8. /\ referrals' \in [Members -> Codes!Row \cup {Nobody}] /\ referrals'[a] = g
      /\ \A m \in Members : m # a => referrals'[m] = referrals[m]
  BY <1>6, <1>7 DEF CodesInv, CodesTypes
<1>9. /\ inflight' \in [ApiProcesses -> [Members -> Requests \cup {Nobody}]]
      /\ recent' \in [ApiProcesses -> SUBSET (Members \X Codes!Codes \X {"applied", "refused"})]
      /\ referralReq' = [referralReq EXCEPT ![r] = Codes!Idle]
  <2>1. Codes!Updated(r)
    BY DEF Codes!SetEarned
  <2>2. CASE Codes!Remember(r, "applied")
    BY <1>0, <2>2, MemoryTyped
  <2>3. CASE Codes!Return(r) /\ UNCHANGED recent
    BY <1>0, <2>3, MemoryTyped
  <2> QED
    BY <2>1, <2>2, <2>3 DEF Codes!Updated
<1>10. referralReq' \in [Requests -> CodeRequest]
  BY <1>9, IdleIsCode DEF CodesInv, CodesTypes
<1>11. CodesTypes'
  BY <1>2, <1>8, <1>9, <1>10 DEF CodesInv, CodesTypes
<1>12. LinkStands /\ \A s \in Requests : Spared(referralReq[s])
  BY <1>2, <1>6, <1>8, CodesBasics DEF LinkStands, Spared
<1>13. ASSUME NEW m \in Members PROVE AccountRight(m)'
  <2>1. AccountRight(m) /\ d # Nobody
    BY <1>3, CodesBasics DEF CodesInv
  <2> QED
    BY <1>2, <1>3, <1>6, <1>8, <2>1 DEF AccountRight
<1>14. \A m \in Members :
             (RowEarned(m)' + Owes(Codes!Idle, m) + missed'[m]) + (Due(m) + commission[m])
             = (RowEarned(m) + Owes(referralReq[r], m) + missed[m]) + (Due(m)' + commission'[m])
  <2> TAKE m \in Members
  <2>1. PICK i \in Nat, d1 \in Nat, k \in Nat :
            i = missed[m] /\ d1 = Due(m) /\ k = commission[m]
    BY CodesBasics DEF CodesInv, CodesTypes, Due
  <2>2. missed'[m] = i /\ commission'[m] = k /\ Due(m)' = d1 /\ Owes(Codes!Idle, m) = 0
    BY <1>2, <2>1, IdleIsCode DEF Due
  <2>3. CASE m = a
    <3>1. RowEarned(m)' = z /\ RowEarned(m) = x
      BY <1>3, <1>4, <1>6, <1>8, <2>3, CodesBasics DEF RowEarned
    <3>2. Owes(referralReq[r], m) = y
      BY <1>0, <1>1, <1>4, <2>3 DEF Owes, Adding
    <3>3. (z + 0 + i) + (d1 + k) = (x + y + i) + (d1 + k)
      BY <1>5, <2>1
    <3> QED
      BY <2>1, <2>2, <3>1, <3>2, <3>3
  <2>4. CASE m # a
    <3>1. RowEarned(m)' = RowEarned(m)
      BY <1>8, <2>4 DEF RowEarned
    <3>2. Owes(referralReq[r], m) = 0
      BY <1>1, <2>4 DEF Owes
    <3> QED
      BY <2>1, <2>2, <3>1, <3>2
  <2> QED
    BY <2>3, <2>4
<1> QED
  BY <1>9, <1>11, <1>12, <1>13, <1>14, IdleIsCode, OneCode

\* A process restarts: what its requests owe is missed.
LEMMA ProcessRestartKeeps ==
  ASSUME CodesInv, NEW p \in ApiProcesses, Codes!Restart(p)
  PROVE  CodesInv'
<1> DEFINE E == {r \in Requests : referralReq[r].process = p /\ referralReq[r].at # "idle"}
<1>1. E \in SUBSET Requests
  OBVIOUS
<1>2. /\ referralReq' = [r \in Requests |-> IF r \in E THEN Codes!Idle ELSE referralReq[r]]
      /\ missed' = Codes!MissedBy(E)
  BY DEF Codes!Restart, Codes!At
<1>3. UNCHANGED <<activated, referredBy, referrals, welcomed, brought, welcome, signup,
                  commission>>
  BY DEF Codes!Restart
<1>4. inflight' \in [ApiProcesses -> [Members -> Requests \cup {Nobody}]]
  <2> DEFINE h == [a \in Members |-> Nobody]
  <2>1. h \in [Members -> Requests \cup {Nobody}]
    OBVIOUS
  <2>2. inflight' = [inflight EXCEPT ![p] = h]
    BY DEF Codes!Restart
  <2> HIDE DEF h
  <2> QED
    BY <2>1, <2>2 DEF CodesInv, CodesTypes
<1>5. recent' \in [ApiProcesses -> SUBSET (Members \X Codes!Codes \X {"applied", "refused"})]
  <2>1. recent' = [recent EXCEPT ![p] = {}]
    BY DEF Codes!Restart
  <2> QED
    BY <2>1 DEF CodesInv, CodesTypes
<1> HIDE DEF E
<1>6. PICK f, n \in [Requests -> CodeRequest] :
          /\ f = referralReq /\ n = referralReq'
          /\ \A r \in E : n[r] = Codes!Idle
          /\ \A r \in Requests \ E : n[r] = f[r]
  <2>1. referralReq \in [Requests -> CodeRequest]
    BY DEF CodesInv, CodesTypes
  <2>2. referralReq' \in [Requests -> CodeRequest]
    BY <1>2, <2>1, IdleIsCode
  <2> QED
    BY <1>1, <1>2, <2>1, <2>2
<1>7. missed' = [a \in Members |-> missed[a] + OwedBy(f, E, a)]
  BY <1>1, <1>2, <1>6, MissedOwed
<1>8. missed' \in [Members -> Nat]
  <2>1. \A a \in Members : missed[a] + OwedBy(f, E, a) \in Nat
    <3> SUFFICES ASSUME NEW a \in Members PROVE missed[a] + OwedBy(f, E, a) \in Nat
      OBVIOUS
    <3>1. OwedBy(f, E, a) \in Nat
      BY <1>1, OwedType
    <3>2. PICK m \in Nat, o \in Nat : m = missed[a] /\ o = OwedBy(f, E, a)
      BY <3>1 DEF CodesInv, CodesTypes
    <3> QED
      BY <3>2
  <2> QED
    BY <1>7, <2>1
<1>9. CodesTypes'
  BY <1>3, <1>4, <1>5, <1>6, <1>8 DEF CodesInv, CodesTypes
<1>10. LinkStands /\ (\A s \in Requests : Spared(referralReq[s])) /\ (\A a \in Members : AccountRight(a)')
  BY <1>3 DEF LinkStands, Spared, CodesInv, AccountRight
<1>11. Books'
  <2> SUFFICES ASSUME NEW a \in Members
               PROVE  RowEarned(a)' + OwedBy(n, Requests, a) + missed'[a] = Due(a)' + commission'[a]
    BY <1>6 DEF Books, OwedBy, OfSignups, OfCommissions, Owes
  <2>1. \A r \in E : n[r].at = "idle"
    BY <1>6, IdleIsCode
  <2>2. OwedBy(f, Requests, a) = OwedBy(f, E, a) + OwedBy(n, Requests, a)
    BY <1>1, <1>6, <2>1, OwedEnds
  <2>3. OwedBy(f, E, a) \in Nat /\ OwedBy(n, Requests, a) \in Nat
    <3>1. Requests \in SUBSET Requests
      OBVIOUS
    <3> QED
      BY <1>1, <3>1, OwedType
  <2>4. PICK x \in Nat, y \in Nat : x = OwedBy(f, E, a) /\ y = OwedBy(n, Requests, a)
    BY <2>3
  <2>5. PICK e \in Nat, m \in Nat, d \in Nat, c \in Nat :
            e = RowEarned(a) /\ m = missed[a] /\ d = Due(a) /\ c = commission[a]
    BY CodesBasics DEF CodesInv, CodesTypes, RowEarned, Due, Codes!Row
  <2>6. e + (x + y) + m = d + c
    BY <1>6, <2>2, <2>4, <2>5 DEF CodesInv, Books
  <2>7. RowEarned(a)' = e /\ Due(a)' = d /\ commission'[a] = c /\ missed'[a] = m + x
    BY <1>3, <1>7, <2>4, <2>5 DEF RowEarned, Due
  <2>8. e + y + (m + x) = d + c
    BY <2>6
  <2> QED
    BY <2>4, <2>7, <2>8
<1>12. \A s \in Requests : (n[s] = referralReq[s] /\ Spared(n[s])) \/ CodeRight(n[s])'
  BY <1>6, <1>10, IdleIsCode
<1>13. \A s, t \in Requests : s # t => CodeApart(n[s], n[t])
  <2> SUFFICES ASSUME NEW s \in Requests, NEW t \in Requests, s # t PROVE CodeApart(n[s], n[t])
    OBVIOUS
  <2>1. CASE s \in E \/ t \in E
    BY <1>6, <2>1, IdleIsCode DEF CodeApart, Linked
  <2>2. CASE s \notin E /\ t \notin E
    BY <1>6, <2>2 DEF CodesInv
  <2> QED
    BY <2>1, <2>2
<1> QED
  BY <1>6, <1>9, <1>10, <1>11, <1>12, <1>13, CodesMove

LEMMA CodeStepsKeep == CodesInv /\ [Codes!ReferralNext]_referralState => CodesInv'
<1> SUFFICES ASSUME CodesInv, [Codes!ReferralNext]_referralState PROVE CodesInv'
  OBVIOUS
<1>0. /\ activated \subseteq Members
      /\ inflight \in [ApiProcesses -> [Members -> Requests \cup {Nobody}]]
      /\ recent \in [ApiProcesses -> SUBSET (Members \X Codes!Codes \X {"applied", "refused"})]
  BY DEF CodesInv, CodesTypes
<1>1. CASE UNCHANGED referralState
  <2>1. UNCHANGED <<activated, referredBy, referrals, welcomed, brought, welcome, signup,
                    commission, missed,
                    inflight, recent, referralReq>>
    BY <1>1 DEF referralState
  <2> QED
    BY <1>0, <2>1, CodesStill
<1>2. CASE \E r \in Requests : Codes!Step(r)
  <2>1. PICK r \in Requests : Codes!Step(r)
    BY <1>2
  <2>2. CASE \/ Codes!FindReferrer(r) \/ Codes!ReadUser(r) \/ Codes!ReadRow(r)
             \/ Codes!CheckActivation(r) \/ Codes!LookAgain(r) \/ Codes!FindWelcome(r)
             \/ Codes!FindSignup(r)
    BY <2>2, CodeLooksKeep
  <2>3. CASE Codes!LinkUser(r)
    BY <2>3, LinkUserKeeps
  <2>4. CASE Codes!EnsureLinkRow(r) \/ Codes!EnsureRow(r)
    BY <2>4, EnsureKeeps
  <2>5. CASE Codes!AddWelcome(r)
    BY <2>5, AddWelcomeKeeps
  <2>6. CASE Codes!AddSignup(r)
    BY <2>6, AddSignupKeeps
  <2>7. CASE Codes!AddCommission(r)
    BY <2>7, AddCommissionKeeps
  <2>8. CASE Codes!LoadRow(r)
    BY <2>8, LoadRowKeeps
  <2>9. CASE Codes!SetEarned(r)
    BY <2>9, SetEarnedKeeps
  <2>10. CASE Codes!TryAgain(r)
    BY <2>10, TryAgainKeeps
  <2>11. CASE Codes!Throws(r)
    BY <2>11, ThrowsKeeps
  <2> QED
    BY <2>1, <2>2, <2>3, <2>4, <2>5, <2>6, <2>7, <2>8, <2>9, <2>10, <2>11 DEF Codes!Step
<1>3. CASE \E r \in Requests, p \in ApiProcesses, a \in Referees, c \in Applied :
               Codes!BeginApply(r, p, a, c)
  <2>1. PICK r \in Requests, p \in ApiProcesses, a \in Referees, c \in Applied :
               Codes!BeginApply(r, p, a, c)
    BY <1>3
  <2>2. \E d \in Applied : Codes!BeginApply(r, p, a, d)
    BY <2>1
  <2> QED
    BY <2>2, CodeBeginsKeep
<1>4. CASE \E r \in Requests, p \in ApiProcesses, a \in Referees : Codes!Earn(r, p, a)
  <2>1. PICK r \in Requests, p \in ApiProcesses, a \in Referees : Codes!Earn(r, p, a)
    BY <1>4
  <2> QED
    BY <2>1, CodeBeginsKeep
<1>5. CASE \E a \in Referees : Codes!Activate(a)
  <2>1. PICK a \in Referees : Codes!Activate(a)
    BY <1>5
  <2>2. activated' \subseteq Members
    BY <1>0, <2>1, CodesBasics DEF Codes!Activate
  <2>3. UNCHANGED <<referredBy, referrals, welcomed, brought, welcome, signup, commission, missed,
                    inflight, recent, referralReq>>
    BY <2>1 DEF Codes!Activate, Codes!memory
  <2> QED
    BY <1>0, <2>2, <2>3, CodesStill
<1>6. CASE \E p \in ApiProcesses : Codes!Restart(p)
  BY <1>6, ProcessRestartKeeps
<1>7. CASE \E p \in ApiProcesses : \E entry \in recent[p] : Codes!Forget(p, entry)
  <2>0. PICK p \in ApiProcesses : \E entry \in recent[p] : Codes!Forget(p, entry)
    BY <1>7
  <2>1. PICK entry \in recent[p] : Codes!Forget(p, entry)
    BY <2>0
  <2>2. UNCHANGED <<activated, referredBy, referrals, welcomed, brought, welcome, signup,
                    commission, missed,
                    inflight, referralReq>>
    BY <2>1 DEF Codes!Forget, Codes!database
  <2>3. recent' \in [ApiProcesses -> SUBSET (Members \X Codes!Codes \X {"applied", "refused"})]
    <3> DEFINE h == recent[p] \ {entry}
    <3>1. recent' = [recent EXCEPT ![p] = h]
      BY <2>1 DEF Codes!Forget
    <3>2. h \in SUBSET (Members \X Codes!Codes \X {"applied", "refused"})
      BY <1>0
    <3> HIDE DEF h
    <3> QED
      BY <1>0, <3>1, <3>2
  <2> QED
    BY <1>0, <2>2, <2>3, CodesStill
<1> QED
  <2>1. CASE Codes!ReferralNext
    BY <1>2, <1>3, <1>4, <1>5, <1>6, <1>7, <2>1 DEF Codes!ReferralNext
  <2> QED
    BY <1>1, <2>1

LEMMA CodesStartRight == Codes!ReferralInit => CodesInv
<1> SUFFICES ASSUME Codes!ReferralInit PROVE CodesInv
  OBVIOUS
<1>1. PICK z : z = Codes!Idle /\ z \in CodeRequest /\ z.at = "idle" /\ CodeRight(z)
               /\ (\A q : CodeApart(z, q)) /\ (\A a : Owes(z, a) = 0)
  BY IdleIsCode
<1>2. \A r \in Requests : referralReq[r] = z
  BY <1>1 DEF Codes!ReferralInit
<1>3. CodesTypes
  <2>1. referralReq \in [Requests -> CodeRequest]
    BY <1>1 DEF Codes!ReferralInit
  <2>2. /\ activated \subseteq Members /\ referredBy \in [Members -> Members \cup {Nobody}]
        /\ referrals \in [Members -> Codes!Row \cup {Nobody}]
        /\ welcomed \subseteq Members /\ brought \subseteq Members \X Members
        /\ welcome \in [Members -> Nat] /\ commission \in [Members -> Nat]
        /\ missed \in [Members -> Nat]
    BY DEF Codes!ReferralInit
  <2>3. signup \in [Members -> [Members -> Nat]]
    BY DEF Codes!ReferralInit
  <2>4. inflight \in [ApiProcesses -> [Members -> Requests \cup {Nobody}]]
    BY DEF Codes!ReferralInit
  <2>5. recent \in [ApiProcesses -> SUBSET (Members \X Codes!Codes \X {"applied", "refused"})]
    BY DEF Codes!ReferralInit
  <2> QED
    BY <2>1, <2>2, <2>3, <2>4, <2>5 DEF CodesTypes
<1>4. \A a \in Members : AccountRight(a)
  BY DEF AccountRight, Codes!ReferralInit
<1>5. \A r \in Requests : CodeRight(referralReq[r])
  BY <1>1, <1>2
<1>6. \A r, s \in Requests : r # s => CodeApart(referralReq[r], referralReq[s])
  BY <1>1, <1>2
<1>7. Books
  <2> SUFFICES ASSUME NEW a \in Members
               PROVE  RowEarned(a) + OwedBy(referralReq, Requests, a) + missed[a]
                          = Due(a) + commission[a]
    BY DEF Books
  <2>1. OfSignups(referralReq, Requests, a) = {} /\ OfCommissions(referralReq, Requests, a) = {}
    BY <1>1, <1>2 DEF OfSignups, OfCommissions
  <2>2. Cardinality({}) = 0 /\ Signup * 0 = 0 /\ Commission * 0 = 0
    BY FS_EmptySet, CodesBasics
  <2>3. OwedBy(referralReq, Requests, a) = 0
    BY <2>1, <2>2 DEF OwedBy
  <2>4. RowEarned(a) = 0 /\ missed[a] = 0 /\ Due(a) = 0 /\ commission[a] = 0
    BY DEF RowEarned, Due, Codes!ReferralInit
  <2> QED
    BY <2>3, <2>4
<1> QED
  BY <1>3, <1>4, <1>5, <1>6, <1>7 DEF CodesInv

LEMMA CodesGoOn == [AccountsNext]_accountsVars => [Codes!ReferralNext]_referralState
<1>1. CASE ReferralsRun
  BY <1>1 DEF ReferralsRun
<1>2. CASE UNCHANGED accountsVars
  BY <1>2 DEF accountsVars
<1>3. CASE PointsRun \/ LinksRun \/ QuestsRun \/ PayoutsRun \/ CampaignRun
  BY <1>3 DEF PointsRun, LinksRun, QuestsRun, PayoutsRun, CampaignRun
<1> QED
  BY <1>1, <1>2, <1>3 DEF AccountsNext

LEMMA CodesInvAlways == AccountsSpec => []CodesInv
<1>1. AccountsInit => CodesInv
  BY CodesStartRight DEF AccountsInit
<1> QED
  BY <1>1, CodeStepsKeep, CodesGoOn, PTL DEF AccountsSpec

-----------------------------------------------------------------------------
\* What follows

\* The referrers that have a signup bonus for an account: none, or the one it names.
LEMMA SignupAwardsAre ==
  ASSUME CodesInv, NEW a \in Members
  PROVE  /\ Codes!Cardinality({b \in Members : signup[b][a] > 0}) \in {0, 1}
         /\ Due(a) = Signup * Codes!Cardinality({b \in Members : signup[b][a] > 0})
<1> DEFINE S == {b \in Members : signup[b][a] > 0}
<1>1. \A b \in Members : signup[b][a] = 0 \/ (signup[b][a] = 1 /\ b = referredBy[a])
  BY DEF CodesInv, AccountRight
<1>2. Signup * 0 = 0 /\ Signup * 1 = Signup
  BY CodesBasics
<1>3. CASE S = {}
  <2>1. Codes!Cardinality(S) = 0
    BY <1>3, SameSize, FS_EmptySet
  <2>2. Due(a) = 0
    BY <1>3 DEF Due
  <2> QED
    BY <1>2, <2>1, <2>2
<1>4. CASE S # {}
  <2>1. PICK b \in S : TRUE
    BY <1>4
  <2>2. S = {b}
    BY <1>1, <2>1
  <2>3. Codes!Cardinality(S) = 1
    BY <2>2, SameSize, FS_Singleton
  <2>4. Due(a) = Signup
    BY <2>1 DEF Due
  <2> QED
    BY <1>2, <2>3, <2>4
<1> QED
  BY <1>3, <1>4

\* However often codes are applied, by requests on several processes that overlap or are cut
\* off, and whether or not the events of the awards go in (addPoints does not look), an
\* account is welcomed at most once and brings at most one referrer at most one signup bonus.
THEOREM SignupsPaidOnce == AccountsSpec => []Codes!SignupPaidOnce
<1>1. CodesInv => Codes!SignupPaidOnce
  <2> SUFFICES ASSUME CodesInv, NEW a \in Members
               PROVE  /\ welcome[a] <= 1
                      /\ Codes!Cardinality({b \in Members : signup[b][a] > 0}) <= 1
                      /\ \A b \in Members : signup[b][a] <= 1
    BY DEF Codes!SignupPaidOnce
  <2>1. Codes!Cardinality({b \in Members : signup[b][a] > 0}) <= 1
    <3>1. \A n \in {0, 1} : n <= 1
      OBVIOUS
    <3> QED
      BY <3>1, SignupAwardsAre
  <2>2. welcome[a] <= 1 /\ \A b \in Members : signup[b][a] <= 1
    BY DEF CodesInv, AccountRight
  <2> QED
    BY <2>1, <2>2
<1> QED
  BY <1>1, CodesInvAlways, PTL

\* The row of a referee agrees to the point with what was awarded for him, whether or not
\* the events of the awards went in: retries of the compare and set neither lose nor repeat
\* an award.
THEOREM EarnedAlwaysAccounted == AccountsSpec => []EarnedAccounted
<1>1. CodesInv => EarnedAccounted
  <2> SUFFICES ASSUME CodesInv, NEW a \in Members
               PROVE  /\ referrals[a] # Nobody => referrals[a].referrer = referredBy[a]
                      /\ RowEarned(a) + Codes!UnderWay(a) + missed[a]
                             = Signup * Codes!SignupAwards(a) + commission[a]
    BY DEF EarnedAccounted, Codes!EarnedAccounted, RowEarned
  <2>1. referrals[a] # Nobody => referrals[a].referrer = referredBy[a]
    BY DEF CodesInv, AccountRight
  <2>2. Codes!UnderWay(a) = OwedBy(referralReq, Requests, a)
    BY UnderWayOwed
  <2>3. Due(a) = Signup * Codes!SignupAwards(a)
    BY SignupAwardsAre DEF Codes!SignupAwards
  <2>4. RowEarned(a) + OwedBy(referralReq, Requests, a) + missed[a] = Due(a) + commission[a]
    BY DEF CodesInv, Books
  <2> QED
    BY <2>1, <2>2, <2>3, <2>4
<1> QED
  BY <1>1, CodesInvAlways, PTL

-----------------------------------------------------------------------------
\* All of Accounts

\* A streak has its check-ins behind it, a ticket its activity, and a tier as many different
\* sweeps as it takes, whatever requests and jobs overlap.
THEOREM EverythingIsEarned == AccountsSpec => []EverythingEarned
  BY StreaksEarned, TicketsAlwaysCovered, TiersAlwaysEarned, PTL DEF EverythingEarned

\* DailyRewards and WalletLink: no balance ever shows more points than were awarded, whatever
\* copies it is written back from.  An award whose event was not inserted counts (unrecorded,
\* unlogged), and of linked accounts nothing is said once a second merge has moved what a late
\* award wrote to an account merged away (stray).
THEOREM BalancesAlwaysBacked == AccountsSpec => []BalancesBacked
  BY PointsEarned, LiveBalancesAlwaysBacked, PTL DEF BalancesBacked

\* The steps of the payouts are those of SweepPayouts, whatever else goes on.
THEOREM PayoutsRunAlone == AccountsSpec => PayoutsSpec
<1>1. AccountsInit => PayoutsInit
  BY DEF AccountsInit
<1>2. [AccountsNext]_accountsVars => [PayoutsNext]_payoutVars
  BY DEF AccountsNext, accountsVars, PointsRun, ReferralsRun, LinksRun, QuestsRun, PayoutsRun,
     CampaignRun
<1> QED
  BY <1>1, <1>2, PTL DEF AccountsSpec, PayoutsSpec

\* Nothing is rewarded twice, neither a day, a payment, a spin, a signup, a linked wallet nor a
\* place in the standings; and a quest, where two syncs of a wallet do not overlap, only once
\* more for each time that its reward threw when the points were given already.
THEOREM NothingRewardedTwice ==
  ASSUME SyncsTakeTurns
  PROVE  AccountsSpec => []RewardedOnce
<1>1. /\ Points!CheckInPaidOnce /\ Points!OneRestorePerPayment /\ Points!OnePrizePerSpin
      /\ Codes!SignupPaidOnce /\ Links!BonusOncePerWallet
      /\ Quests!RewardedAgainAfterThrow /\ Quests!RewardedForWork
      /\ Campaign!PrizeGivenOnce
      => RewardedOnce
  BY DEF RewardedOnce
<1>2. AccountsSpec => []Quests!RewardedAgainAfterThrow
  BY QuestsRewardOnce
<1>3. AccountsSpec => []Quests!RewardedForWork
  BY QuestsRewardWork
<1> QED
  BY <1>1, <1>2, <1>3, PointsRewardOnce, SignupsPaidOnce, BonusPaidOnce, PrizesGivenOnce, PTL

LEMMA CodesTypesHold == CodesInv => Codes!ReferralTypeOK
<1> SUFFICES ASSUME CodesInv PROVE Codes!ReferralTypeOK
  OBVIOUS
<1>1. \A r \in Requests : referralReq[r].at \in Codes!Places
  BY DEF CodesInv, CodesTypes, CodeRequest
<1>2. \A a \in Members : referrals[a] = Nobody \/ referrals[a] \in Codes!Row
  BY DEF CodesInv, CodesTypes
<1>3. \A p \in ApiProcesses : recent[p] \subseteq Members \X Codes!Codes \X {"applied", "refused"}
  BY DEF CodesInv, CodesTypes
<1> QED
  BY <1>1, <1>2, <1>3 DEF CodesInv, CodesTypes, Codes!ReferralTypeOK

LEMMA LinksTypesHold == LinksInv => Links!WalletLinkTypeOK
<1> SUFFICES ASSUME LinksInv PROVE Links!WalletLinkTypeOK
  OBVIOUS
<1>1. \A r \in Requests : /\ linkReq[r].at \in Links!Places
                          /\ linkReq[r].wallet \in LinkedWallets \cup {Nobody}
  BY DEF LinksInv, LinkTypes, LinkRequest
<1>2. \A t \in Links!Tokens :
          /\ link[t].source \in Links!Accounts \cup {Nobody}
          /\ link[t].wallet \in LinkedWallets \cup {Nobody}
          /\ link[t].status \in {"unused", "pending", "consumed", "cancelled", "expired"}
  BY DEF LinksInv, LinkTypes, LinkRow
<1> QED
  BY <1>1, <1>2 DEF LinksInv, LinkTypes, Links!WalletLinkTypeOK

\* Tables, requests and jobs of all components have their types.
THEOREM AccountsTypeCorrect ==
  ASSUME OneHonestWorker, SyncsTakeTurns
  PROVE  AccountsSpec => []AccountsTypeOK
<1>1. AccountsSpec => []PayoutsTypeOK
  BY PayoutsTypeCorrect, PayoutsRunAlone, PTL
<1>2. PointsInv => Points!RewardsTypeOK
  BY DEF PointsInv
<1>3. QuestsInv => Quests!QuestsTypeOK
  BY DEF QuestsInv
<1>4. CampaignInv => Campaign!CampaignTypeOK
  BY DEF CampaignInv
<1>5. AccountsSpec => []QuestsInv
  BY QuestsInvAlways
<1>6. /\ Points!RewardsTypeOK /\ Codes!ReferralTypeOK /\ Links!WalletLinkTypeOK
      /\ Quests!QuestsTypeOK /\ PayoutsTypeOK /\ Campaign!CampaignTypeOK
      => AccountsTypeOK
  BY DEF AccountsTypeOK
<1> QED
  BY <1>1, <1>2, <1>3, <1>4, <1>5, <1>6, PointsInvAlways, CodesInvAlways, CodesTypesHold,
     LinksInvAlways, LinksTypesHold, CampaignInvAlways, PTL

=============================================================================
