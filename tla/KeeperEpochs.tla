---------------------------- MODULE KeeperEpochs ----------------------------
(***************************************************************************)
(* The epochs job of the memefun keeper (keeper/jobs/epochs.ts, and        *)
(* simulateAndSend of keeper/tx.ts): it turns a finished window into a     *)
(* Merkle root, stores it with its leaves in Postgres, and publishes it to *)
(* HolderRewardDistributor.                                                *)
(*                                                                         *)
(* A run is a sequence of awaits.  It may be cut off at each of them, by a *)
(* crash or a thrown error, and the next run starts from what the database *)
(* and the chain then say.  Runs do not overlap: each holds the job's      *)
(* advisory lock (withJobLock) and the instance's serial queue.            *)
(*                                                                         *)
(* A root stands for its leaves; two roots built over the same window and  *)
(* pot are equal.  The pot is what pays leaves: dust, and a window in      *)
(* which nobody held the coin, count as an empty pot.                      *)
(***************************************************************************)
EXTENDS Integers, Sequences

CONSTANTS
    Configurations, \* [dry, wallet] settings keepers are started with
    Stragglers,     \* whether a transaction may outlive the run that sent it
    NoRow,          \* an epoch that has no row
    NoRoot,         \* nothing is being built
    MaxBoundary,    \* bound on the window boundaries that pass
    MaxPot,         \* bound on the pot
    MaxEpochs,      \* bound on the epochs
    MaxPending,     \* bound on the transactions waiting to be mined
    MaxFaults       \* bound on interruptions, lost transactions and rotations

EpochIds == 1 .. MaxEpochs
Root == [from : Nat, to : Nat, pot : Nat]
Row == [root : Root, status : {"built", "published", "failed"}, leaves : BOOLEAN,
        coins : BOOLEAN, dry : BOOLEAN]
Transaction == [epoch : EpochIds, root : Root]

ASSUME KeeperAssumption ==
    /\ Configurations \subseteq [dry : BOOLEAN, wallet : BOOLEAN]
    /\ Stragglers \in BOOLEAN
    /\ NoRow \notin Row /\ NoRoot \notin Root
    /\ MaxBoundary \in Nat /\ MaxPot \in Nat /\ MaxEpochs \in Nat
    /\ MaxPending \in Nat /\ MaxFaults \in Nat

VARIABLES
    chain,      \* roots of the epochs published on chain, in order
    pot,        \* what holder coins earned and no epoch reserved
    boundary,   \* the last 00:00 or 12:00 the chain's clock has passed
    indexed,    \* the boundary the index has reached
    authorised, \* config.rewardsPublisher is the keeper's publisher key
    mempool,    \* transactions of the publisher key, in nonce order
    rows,       \* reward_epoch with its reward_leaf and reward_epoch_coin rows;
                \* dry is history: the run that built it was a dry one
    at,         \* where the run is
    mode,       \* its configuration
    seen,       \* lastEpoch it read
    until,      \* boundary it read
    epoch,      \* epoch it publishes or deletes
    draft,      \* root it built and has not stored
    receipt,    \* what became of the transaction it sent
    faults

chainVars == <<chain, pot, boundary, indexed, authorised, mempool>>
runVars == <<at, mode, seen, until, epoch, draft, receipt>>
keeperVars == <<chainVars, rows, runVars, faults>>

Places == {"idle", "resume", "plan", "store", "publish", "wait",
           "deleteLeaves", "deleteCoins", "deleteRow"}

KeeperInit ==
    /\ chain = <<>> /\ pot = 0 /\ boundary = 0 /\ indexed = 0
    /\ authorised = TRUE
    /\ mempool = <<>>
    /\ rows = [e \in EpochIds |-> NoRow]
    /\ at = "idle" /\ mode \in Configurations
    /\ seen = 0 /\ until = 0 /\ epoch = 0
    /\ draft = NoRoot /\ receipt = "none"
    /\ faults = 0

-----------------------------------------------------------------------------
\* The chain, the clock and the index

Earn ==
    /\ pot < MaxPot
    /\ pot' = pot + 1
    /\ UNCHANGED <<chain, boundary, indexed, authorised, mempool, rows, runVars, faults>>

BoundaryPasses ==
    /\ boundary < MaxBoundary
    /\ boundary' = boundary + 1
    /\ UNCHANGED <<chain, pot, indexed, authorised, mempool, rows, runVars, faults>>

IndexCatchesUp ==
    /\ indexed < boundary
    /\ indexed' = indexed + 1
    /\ UNCHANGED <<chain, pot, boundary, authorised, mempool, rows, runVars, faults>>

\* The owner takes the publisher role from the key and gives it back.
Unauthorise ==
    /\ authorised /\ faults < MaxFaults
    /\ authorised' = FALSE /\ faults' = faults + 1
    /\ UNCHANGED <<chain, pot, boundary, indexed, mempool, rows, runVars>>
Authorise ==
    /\ ~authorised /\ authorised' = TRUE
    /\ UNCHANGED <<chain, pot, boundary, indexed, mempool, rows, runVars, faults>>

\* publishEpoch(For) succeeds.
Publishable(e, root) == authorised /\ e = Len(chain) + 1 /\ root.pot <= pot

\* The transaction the run waits for is the last one sent.
Awaited == at = "wait" /\ receipt = "none"

\* The first pending transaction is mined, and succeeds or reverts.
Mine ==
    /\ mempool # <<>>
    /\ LET t == Head(mempool)  ok == Publishable(t.epoch, t.root)
       IN  /\ chain' = IF ok THEN Append(chain, t.root) ELSE chain
           /\ pot' = IF ok THEN pot - t.root.pot ELSE pot
           /\ receipt' = IF Awaited /\ Len(mempool) = 1
                         THEN (IF ok THEN "success" ELSE "reverted") ELSE receipt
    /\ mempool' = Tail(mempool)
    /\ UNCHANGED <<boundary, indexed, authorised, rows, at, mode, seen, until, epoch, draft,
                   faults>>

\* The last pending transaction is lost.
Lose ==
    /\ mempool # <<>> /\ faults < MaxFaults
    /\ mempool' = SubSeq(mempool, 1, Len(mempool) - 1)
    /\ receipt' = IF Awaited THEN "lost" ELSE receipt
    /\ faults' = faults + 1
    /\ UNCHANGED <<chain, pot, boundary, indexed, authorised, rows, at, mode, seen, until, epoch,
                   draft>>

-----------------------------------------------------------------------------
\* runEpochs

\* The end of a run, for whatever reason.
Stop == at' = "idle" /\ epoch' = 0 /\ draft' = NoRoot /\ receipt' = "none"
               /\ seen' = 0 /\ until' = 0
GoTo(place) == at' = place /\ UNCHANGED <<draft, receipt, seen, until>>

\* chainNow, lastEpoch
BeginRun ==
    /\ at = "idle"
    /\ mode' \in Configurations
    /\ seen' = Len(chain) /\ until' = boundary
    /\ at' = "resume"
    /\ UNCHANGED <<chainVars, rows, epoch, draft, receipt, faults>>

Stored == {e \in EpochIds : rows[e] # NoRow}

\* lastRewardEpoch, 0 when there is none
LastRow == IF Stored = {} THEN 0 ELSE CHOOSE e \in Stored : \A f \in Stored : f <= e
LastStatus == IF LastRow = 0 THEN "none" ELSE rows[LastRow].status

\* Faulty variant of Resume: a built epoch is published again whatever the
\* contract says.
ResumeAlways ==
    /\ at = "resume"
    /\ CASE LastStatus = "built" -> GoTo("publish") /\ epoch' = LastRow /\ rows' = rows
         [] LastStatus = "failed" -> GoTo("deleteLeaves") /\ epoch' = LastRow /\ rows' = rows
         [] OTHER -> GoTo("plan") /\ UNCHANGED <<epoch, rows>>
    /\ UNCHANGED <<chainVars, mode, faults>>

\* Faulty variant of Resume: a failed epoch is not cleaned up.
ResumeKeepingFailed ==
    /\ at = "resume"
    /\ CASE LastStatus = "built" /\ LastRow <= seen ->
              /\ GoTo("plan") /\ epoch' = epoch
              /\ rows' = [rows EXCEPT ![LastRow].status = "published"]
         [] LastStatus = "built" /\ LastRow = seen + 1 ->
              GoTo("publish") /\ epoch' = LastRow /\ rows' = rows
         [] OTHER -> GoTo("plan") /\ UNCHANGED <<epoch, rows>>
    /\ UNCHANGED <<chainVars, mode, faults>>

\* Faulty variant of Resume: a built epoch the contract has is left as it is.
ResumeUnmarked ==
    /\ at = "resume"
    /\ CASE LastStatus = "built" /\ LastRow = seen + 1 ->
              GoTo("publish") /\ epoch' = LastRow /\ rows' = rows
         [] LastStatus = "failed" -> GoTo("deleteLeaves") /\ epoch' = LastRow /\ rows' = rows
         [] OTHER -> GoTo("plan") /\ UNCHANGED <<epoch, rows>>
    /\ UNCHANGED <<chainVars, mode, faults>>

\* What a previous run left half-done: a built epoch is on chain already, or is
\* published now; a failed one is deleted.
Resume ==
    /\ at = "resume"
    /\ CASE LastStatus = "built" /\ LastRow <= seen ->
              /\ GoTo("plan") /\ epoch' = epoch
              /\ rows' = [rows EXCEPT ![LastRow].status = "published"]
         [] LastStatus = "built" /\ LastRow = seen + 1 ->
              GoTo("publish") /\ epoch' = LastRow /\ rows' = rows
         [] LastStatus = "failed" -> GoTo("deleteLeaves") /\ epoch' = LastRow /\ rows' = rows
         [] OTHER -> GoTo("plan") /\ UNCHANGED <<epoch, rows>>
    /\ UNCHANGED <<chainVars, mode, faults>>

\* deleteEpoch: three statements, and no transaction around them.
DeleteLeaves ==
    /\ at = "deleteLeaves"
    /\ rows' = [rows EXCEPT ![epoch].leaves = FALSE]
    /\ GoTo("deleteCoins")
    /\ UNCHANGED <<chainVars, mode, epoch, faults>>
DeleteCoins ==
    /\ at = "deleteCoins"
    /\ rows' = [rows EXCEPT ![epoch].coins = FALSE]
    /\ GoTo("deleteRow")
    /\ UNCHANGED <<chainVars, mode, epoch, faults>>
\* The run goes on after a failed epoch; after a dry one it is over.
DeleteRow ==
    /\ at = "deleteRow"
    /\ rows' = [rows EXCEPT ![epoch] = NoRow]
    /\ IF rows[epoch].status = "failed" THEN GoTo("plan") /\ epoch' = 0 ELSE Stop
    /\ UNCHANGED <<chainVars, mode, faults>>

\* Faulty variant of WindowStart: the window is the last twelve hours.
LastTwelveHours == until - 1

\* Where the next window begins.
WindowStart == IF LastRow = 0 THEN 0 ELSE rows[LastRow].root.to

WindowReady == until > WindowStart /\ indexed >= until

\* The window is not over, not indexed, or has nothing to pay and rolls over.
PlanNothing ==
    /\ at = "plan"
    /\ ~WindowReady \/ pot = 0
    /\ Stop
    /\ UNCHANGED <<chainVars, rows, mode, faults>>

PlanRoot ==
    /\ at = "plan"
    /\ WindowReady /\ pot # 0
    /\ draft' = [from |-> WindowStart, to |-> until, pot |-> pot]
    /\ at' = "store"
    /\ UNCHANGED <<chainVars, rows, mode, seen, until, epoch, receipt, faults>>

\* One transaction stores the epoch.  The epoch is the primary key, so a row that
\* is there already makes the run throw.
Store ==
    LET e == seen + 1
    IN  /\ at = "store"
        /\ e \in EpochIds
        /\ IF rows[e] # NoRow THEN Stop /\ rows' = rows
           ELSE /\ rows' = [rows EXCEPT ![e] =
                       [root |-> draft, status |-> "built", leaves |-> TRUE, coins |-> TRUE,
                        dry |-> mode.dry]]
                /\ at' = "publish" /\ epoch' = e /\ draft' = NoRoot
                /\ UNCHANGED <<receipt, seen, until>>
        /\ UNCHANGED <<chainVars, mode, faults>>

-----------------------------------------------------------------------------
\* publish and simulateAndSend

\* Nothing is stored to publish, or there is no key to sign with.
CannotPublish == ~rows[epoch].coins \/ ~mode.wallet
PublishNothing ==
    /\ at = "publish" /\ CannotPublish
    /\ Stop
    /\ UNCHANGED <<chainVars, rows, mode, faults>>

\* The simulation runs on the pending block, which may or may not hold the
\* transactions that wait.
RivalPending == \E i \in DOMAIN mempool : mempool[i].epoch = epoch

SimulationReverts ==
    /\ at = "publish" /\ ~CannotPublish
    /\ ~Publishable(epoch, rows[epoch].root) \/ RivalPending
    /\ rows' = [rows EXCEPT ![epoch].status = "failed"]
    /\ Stop
    /\ UNCHANGED <<chainVars, mode, faults>>

DryRunDone ==
    /\ at = "publish" /\ ~CannotPublish
    /\ mode.dry
    /\ Publishable(epoch, rows[epoch].root)
    /\ GoTo("deleteLeaves")
    /\ UNCHANGED <<chainVars, rows, mode, epoch, faults>>

Send ==
    /\ at = "publish" /\ ~CannotPublish
    /\ ~mode.dry
    /\ Publishable(epoch, rows[epoch].root)
    /\ Len(mempool) < MaxPending
    /\ mempool' = Append(mempool, [epoch |-> epoch, root |-> rows[epoch].root])
    /\ GoTo("wait")
    /\ UNCHANGED <<chain, pot, boundary, indexed, authorised, rows, mode, epoch, faults>>

\* Faulty variant of Settle: a mined transaction counts as a published epoch.
SettleUnchecked ==
    /\ at = "wait" /\ receipt \in {"success", "reverted"}
    /\ rows' = [rows EXCEPT ![epoch].status = "published"]
    /\ Stop
    /\ UNCHANGED <<chainVars, mode, faults>>

\* The receipt is there.
Settle ==
    /\ at = "wait" /\ receipt \in {"success", "reverted"}
    /\ rows' = [rows EXCEPT ![epoch].status =
                   IF receipt = "success" THEN "published" ELSE "failed"]
    /\ Stop
    /\ UNCHANGED <<chainVars, mode, faults>>

\* waitForTransactionReceipt throws after two minutes.
TimeOut ==
    /\ at = "wait"
    /\ receipt = "lost" \/ (receipt = "none" /\ Stragglers)
    /\ Stop
    /\ UNCHANGED <<chainVars, rows, mode, faults>>

\* The process dies, or a call to the database or the node throws.
Interrupt ==
    /\ at # "idle" /\ faults < MaxFaults
    /\ Awaited => Stragglers
    /\ faults' = faults + 1
    /\ Stop
    /\ UNCHANGED <<chainVars, rows, mode>>

RunStep ==
    \/ BeginRun \/ Resume \/ DeleteLeaves \/ DeleteCoins \/ DeleteRow
    \/ PlanNothing \/ PlanRoot \/ Store
    \/ PublishNothing \/ SimulationReverts \/ DryRunDone \/ Send \/ Settle \/ TimeOut

OutsideStep ==
    Earn \/ BoundaryPasses \/ IndexCatchesUp \/ Unauthorise \/ Authorise \/ Mine \/ Lose

KeeperNext == RunStep \/ OutsideStep \/ Interrupt

KeeperSpec == KeeperInit /\ [][KeeperNext]_keeperVars

\* The scheduler starts the job again after every run, the index follows the
\* chain, a pending transaction is mined or lost, and the owner does not leave
\* the keeper without its role for good.
FairKeeperSpec ==
    /\ KeeperSpec
    /\ WF_keeperVars(RunStep) /\ WF_keeperVars(IndexCatchesUp)
    /\ WF_keeperVars(Mine) /\ WF_keeperVars(Authorise)

-----------------------------------------------------------------------------

KeeperTypeOK ==
    /\ chain \in Seq(Root) /\ pot \in Nat
    /\ indexed \in Nat /\ boundary \in Nat /\ indexed <= boundary
    /\ authorised \in BOOLEAN
    /\ mempool \in Seq(Transaction)
    /\ rows \in [EpochIds -> Row \cup {NoRow}]
    /\ at \in Places /\ mode \in Configurations
    /\ seen \in Nat /\ until \in Nat
    /\ epoch \in EpochIds \cup {0} /\ draft \in Root \cup {NoRoot}
    /\ receipt \in {"none", "success", "reverted", "lost"}

\* Every epoch on chain has its leaves stored, under the root the contract
\* holds: without them no holder gets a proof, and what the epoch reserved can
\* only be released months later.
PublishedLeavesKept ==
    \A e \in DOMAIN chain :
        rows[e] # NoRow /\ rows[e].leaves /\ rows[e].coins /\ rows[e].root = chain[e]

\* The windows of the epochs on chain follow on from each other, from the first:
\* no holder loses time, and no time is paid twice.  None was weighed before the
\* index had reached its end.
WindowsFollowOn ==
    \A e \in DOMAIN chain :
        /\ chain[e].from = IF e = 1 THEN 0 ELSE chain[e - 1].to
        /\ chain[e].from < chain[e].to /\ chain[e].to <= indexed

\* rewardLeavesOf hands out the proofs of published epochs: they verify.
ProofsVerify ==
    \A e \in Stored : rows[e].status = "published" => e <= Len(chain) /\ rows[e].root = chain[e]

\* The leaves of every epoch on chain are handed out in the end.
EpochsBecomeClaimable ==
    \A e \in EpochIds : e <= Len(chain) ~> (rows[e] # NoRow /\ rows[e].status = "published")

\* What was earned by a boundary is paid for a window that reaches it, however
\* often runs were cut off and transactions lost or refused.
PotsPaidOut ==
    \A b \in 1 .. MaxBoundary :
        boundary >= b /\ pot > 0 ~>
            pot = 0 \/ (chain # <<>> /\ chain[Len(chain)].to >= b)

\* A comment of publish: a dry run does not leave a built epoch that a real run
\* would then publish unseen.
DryRunsStayUnpublished ==
    [][Len(mempool') > Len(mempool) => ~rows[mempool'[Len(mempool')].epoch].dry]_keeperVars

=============================================================================
