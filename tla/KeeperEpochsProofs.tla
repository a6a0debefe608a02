-------------------------- MODULE KeeperEpochsProofs --------------------------
(***************************************************************************)
(* KeeperEpochs for any configurations, pots, windows and numbers of       *)
(* epochs and interruptions, where no transaction outlives the run that    *)
(* sent it: the windows on chain follow on, the proofs handed out verify,  *)
(* and a keeper that is never run dry keeps the leaves of what it          *)
(* published.                                                              *)
(*                                                                         *)
(* The database is at most one epoch ahead of the chain (Ahead), and what  *)
(* it has of the epochs on chain is what the contract has (Kept).  A run   *)
(* that is not waiting knows how many epochs there are (SeesChain).        *)
(***************************************************************************)
EXTENDS LiveKeepers, TLAPS

Next1 == Len(chain) + 1

\* A root whose window begins where the last one on chain ends.
Follows(root) ==
    /\ root.from = IF chain = <<>> THEN 0 ELSE chain[Len(chain)].to
    /\ root.from < root.to /\ root.to <= indexed

\* One transaction, while the run waits for it.
OwnTransaction ==
    /\ Awaited => mempool = <<[epoch |-> epoch, root |-> rows[epoch].root]>>
    /\ ~Awaited => mempool = <<>>

SeesChain == at \notin {"idle", "wait"} => seen = Len(chain)

Kept ==
    /\ Len(chain) <= MaxEpochs
    /\ \A e \in DOMAIN chain :
           rows[e] # NoRow /\ rows[e].root = chain[e] /\ rows[e].status # "failed"

Ahead ==
    \A e \in Stored :
        /\ e <= Next1
        /\ e = Next1 => rows[e].status # "published" /\ Follows(rows[e].root)

\* What the run is about.
RunAgrees ==
    /\ at \in {"publish", "deleteLeaves", "deleteCoins", "deleteRow"} =>
           epoch = Next1 /\ epoch \in Stored
    /\ at \in {"plan", "store"} => Next1 \notin Stored
    /\ at = "store" => draft \in Root /\ Follows(draft)
    /\ at = "wait" => epoch \in Stored
                      /\ epoch = (IF receipt = "success" THEN Len(chain) ELSE Next1)
    /\ at \in {"publish", "wait"} => rows[epoch].status = "built"
    /\ at # "wait" => receipt = "none"

KeeperInv ==
    /\ KeeperTypeOK /\ OwnTransaction /\ SeesChain /\ Kept /\ Ahead /\ RunAgrees
    /\ WindowsFollowOn

-----------------------------------------------------------------------------

LEMMA StartsRight == KeeperInit => KeeperInv
<1> SUFFICES ASSUME KeeperInit PROVE KeeperInv
  OBVIOUS
<1> USE DEF KeeperInit
<1>1. KeeperTypeOK
  BY DEF KeeperTypeOK, Places
<1>2. Len(chain) = 0 /\ DOMAIN chain = {} /\ Stored = {}
  BY DEF Stored
<1>3. OwnTransaction /\ SeesChain /\ RunAgrees
  BY DEF OwnTransaction, Awaited, SeesChain, RunAgrees
<1>4. Kept /\ Ahead /\ WindowsFollowOn
  BY <1>2, KeeperAssumption DEF Kept, Ahead, WindowsFollowOn
<1> QED
  BY <1>1, <1>3, <1>4 DEF KeeperInv

\* The last row is the epoch after the chain's last, or the last on chain.
LEMMA LastRowIs ==
  ASSUME KeeperInv
  PROVE  LastRow = IF Next1 \in Stored THEN Next1 ELSE Len(chain)
<1> USE DEF KeeperInv, KeeperTypeOK, Next1
<1>1. Len(chain) \in Nat /\ Len(chain) <= MaxEpochs /\ MaxEpochs \in Nat
  BY KeeperAssumption DEF Kept
<1>2. \A e \in EpochIds : e <= Len(chain) => e \in Stored
  BY <1>1 DEF Kept, Stored, EpochIds
<1>3. \A e \in Stored : e \in EpochIds /\ e <= Next1
  BY DEF Ahead, Stored
<1> DEFINE top == IF Next1 \in Stored THEN Next1 ELSE Len(chain)
<1>4. CASE Stored = {}
  BY <1>1, <1>2, <1>4 DEF LastRow, EpochIds
<1>5. CASE Stored # {}
  <2>1. top \in Stored /\ \A f \in Stored : f <= top
    <3>1. CASE Next1 \in Stored
      BY <1>3, <3>1
    <3>2. CASE Next1 \notin Stored
      <4>1. \A f \in Stored : f <= Len(chain) /\ f \in EpochIds
        BY <1>1, <1>3, <3>2 DEF EpochIds
      <4>2. Len(chain) \in EpochIds
        BY <1>1, <1>5, <4>1 DEF EpochIds
      <4> QED
        BY <1>2, <3>2, <4>1, <4>2
    <3> QED
      BY <3>1, <3>2
  <2>2. \A e \in Stored : (\A f \in Stored : f <= e) => e = top
    BY <1>3, <2>1 DEF EpochIds
  <2> HIDE DEF top
  <2>3. LastRow = CHOOSE e \in Stored : \A f \in Stored : f <= e
    BY <1>5 DEF LastRow
  <2>4. LastRow = top
    BY <2>1, <2>2, <2>3
  <2> QED
    BY <2>4 DEF top
<1> QED
  BY <1>4, <1>5

-----------------------------------------------------------------------------
\* The chain, the clock and the index

LEMMA WorldKeeps ==
  ASSUME KeeperInv, Earn \/ BoundaryPasses \/ IndexCatchesUp \/ Unauthorise \/ Authorise
  PROVE  KeeperInv'
<1> USE DEF KeeperInv
<1>1. UNCHANGED <<chain, mempool, rows, runVars>>
  BY DEF Earn, BoundaryPasses, IndexCatchesUp, Unauthorise, Authorise
<1>2. KeeperTypeOK' /\ indexed' >= indexed
  <2> USE <1>1 DEF KeeperTypeOK, runVars
  <2>1. CASE Earn
    BY <2>1 DEF Earn
  <2>2. CASE BoundaryPasses
    BY <2>2 DEF BoundaryPasses
  <2>3. CASE IndexCatchesUp
    BY <2>3 DEF IndexCatchesUp
  <2>4. CASE Unauthorise \/ Authorise
    <3>1. authorised' \in BOOLEAN
      BY <2>4, Zenon DEF Unauthorise, Authorise
    <3>2. UNCHANGED <<pot, boundary, indexed>>
      BY <2>4 DEF Unauthorise, Authorise
    <3> QED
      BY <3>1, <3>2
  <2> QED
    BY <2>1, <2>2, <2>3, <2>4
<1>3. OwnTransaction' /\ SeesChain' /\ Kept'
  BY <1>1 DEF runVars, OwnTransaction, Awaited, SeesChain, Kept
<1>4. \A root \in Root : Follows(root) => Follows(root)'
  BY <1>1, <1>2 DEF Follows, KeeperTypeOK, Root
<1>5. Ahead'
  <2>1. Stored' = Stored /\ Next1' = Next1 /\ rows' = rows
    BY <1>1 DEF Stored, Next1
  <2>2. \A e \in Stored : rows[e].root \in Root
    BY DEF Stored, KeeperTypeOK, Row
  <2> QED
    BY <1>4, <2>1, <2>2 DEF Ahead
<1>6. RunAgrees'
  <2>1. Stored' = Stored /\ Next1' = Next1
    BY <1>1 DEF Stored, Next1
  <2> QED
    BY <1>1, <1>4, <2>1 DEF runVars, RunAgrees
<1>7. WindowsFollowOn'
  <2>1. \A e \in DOMAIN chain : chain[e].to \in Nat
    <3>1. \A e \in DOMAIN chain : chain[e] \in Root
      BY DEF KeeperTypeOK
    <3> QED
      BY <3>1 DEF Root
  <2>2. indexed \in Nat /\ indexed' \in Nat /\ indexed <= indexed'
    BY <1>2 DEF KeeperTypeOK, Earn, BoundaryPasses, IndexCatchesUp, Unauthorise, Authorise
  <2>3. chain' = chain
    BY <1>1
  <2>4. \A e \in DOMAIN chain : chain[e].to <= indexed'
    BY <2>1, <2>2 DEF WindowsFollowOn
  <2> QED
    BY <2>3, <2>4, Zenon DEF WindowsFollowOn
<1> QED
  BY <1>2, <1>3, <1>5, <1>6, <1>7

\* A mined transaction is the run's own: it adds the epoch, or changes nothing.
Appends ==
    /\ chain' = Append(chain, rows[epoch].root)
    /\ receipt' = "success" /\ rows[epoch].root.pot <= pot /\ pot' = pot - rows[epoch].root.pot
Reverts == chain' = chain /\ pot' = pot /\ receipt' = "reverted"

LEMMA MinesOwn ==
  ASSUME KeeperInv, Mine
  PROVE  /\ Awaited /\ mempool' = <<>> /\ (Appends \/ Reverts)
         /\ UNCHANGED <<boundary, indexed, authorised, rows, at, mode, seen, until, epoch, draft>>
<1> DEFINE t == [epoch |-> epoch, root |-> rows[epoch].root]
<1>1. Awaited /\ mempool = <<t>>
  BY DEF KeeperInv, OwnTransaction, Mine
<1> HIDE DEF t
<1>2. Head(mempool) = t /\ Tail(mempool) = <<>> /\ Len(mempool) = 1
  BY <1>1
<1>3. \/ /\ Publishable(t.epoch, t.root) /\ chain' = Append(chain, t.root)
         /\ pot' = pot - t.root.pot /\ receipt' = "success"
      \/ chain' = chain /\ pot' = pot /\ receipt' = "reverted"
  BY <1>1, <1>2 DEF Mine
<1>4. mempool' = <<>>
      /\ UNCHANGED <<boundary, indexed, authorised, rows, at, mode, seen, until, epoch, draft>>
  BY <1>2 DEF Mine
<1> QED
  BY <1>1, <1>3, <1>4 DEF Appends, Reverts, Publishable, t

LEMMA MineKeeps ==
  ASSUME KeeperInv, Mine
  PROVE  KeeperInv'
<1> USE DEF KeeperInv
<1> DEFINE root == rows[epoch].root
<1>1. /\ Awaited /\ mempool' = <<>> /\ (Appends \/ Reverts)
      /\ UNCHANGED <<boundary, indexed, authorised, rows, at, mode, seen, until, epoch, draft>>
  BY MinesOwn
<1>2. /\ epoch = Next1 /\ epoch \in Stored /\ rows[epoch].status = "built"
      /\ at = "wait" /\ Follows(root)
  BY <1>1 DEF Awaited, RunAgrees, Ahead
<1>3. root \in Root /\ epoch \in EpochIds /\ chain \in Seq(Root) /\ Len(chain) \in Nat
  BY <1>2 DEF KeeperTypeOK, Stored, Row
<1>4. OwnTransaction' /\ SeesChain'
  BY <1>1, <1>2 DEF Appends, Reverts, OwnTransaction, Awaited, SeesChain
<1>5. CASE Reverts
  <2>1. KeeperTypeOK'
    BY <1>1, <1>5 DEF Reverts, KeeperTypeOK
  <2>2. Stored' = Stored /\ Next1' = Next1 /\ \A r : Follows(r)' <=> Follows(r)
    BY <1>1, <1>5 DEF Reverts, Stored, Next1, Follows
  <2>3. Kept' /\ WindowsFollowOn'
    BY <1>1, <1>5 DEF Reverts, Kept, WindowsFollowOn
  <2>4. Ahead' /\ RunAgrees'
    BY <1>1, <1>2, <1>5, <2>2 DEF Reverts, Ahead, RunAgrees
  <2> QED
    BY <1>4, <2>1, <2>3, <2>4
<1>6. CASE Appends
  <2> HIDE DEF root
  <2>1. /\ chain' = Append(chain, root) /\ chain' \in Seq(Root) /\ Len(chain') = epoch
        /\ chain'[epoch] = root /\ DOMAIN chain' = 1 .. epoch
        /\ \A e \in DOMAIN chain : chain'[e] = chain[e]
        /\ DOMAIN chain = 1 .. Len(chain)
    BY <1>2, <1>3, <1>6 DEF Appends, Next1, root
  <2>2. KeeperTypeOK'
    BY <1>1, <1>3, <1>6, <2>1 DEF Appends, KeeperTypeOK, root, Root
  <2>3. Stored' = Stored /\ Next1' = epoch + 1
    BY <1>1, <2>1 DEF Stored, Next1
  <2>4. Kept'
    <3>1. epoch <= MaxEpochs
      BY <1>3 DEF EpochIds
    <3>2. ASSUME NEW e \in DOMAIN chain'
          PROVE  rows'[e] # NoRow /\ rows'[e].root = chain'[e] /\ rows'[e].status # "failed"
      <4>1. CASE e \in DOMAIN chain
        BY <1>1, <2>1, <4>1 DEF Kept
      <4>2. CASE e = epoch
        BY <1>1, <1>2, <2>1, <4>2 DEF Stored, root
      <4> QED
        BY <1>2, <1>3, <2>1, <4>1, <4>2 DEF Next1
    <3> QED
      BY <2>1, <3>1, <3>2 DEF Kept
  <2>5. Ahead'
    <3>1. \A e \in Stored : e <= epoch /\ e \in Nat
      BY <1>2 DEF Ahead, Stored, EpochIds
    <3> QED
      BY <1>3, <2>3, <3>1 DEF Ahead, EpochIds
  <2>6. RunAgrees'
    BY <1>1, <1>2, <1>6, <2>1, <2>3 DEF Appends, RunAgrees
  <2>7. WindowsFollowOn'
    <3> SUFFICES ASSUME NEW e \in DOMAIN chain'
                 PROVE  /\ chain'[e].from = IF e = 1 THEN 0 ELSE chain'[e - 1].to
                        /\ chain'[e].from < chain'[e].to /\ chain'[e].to <= indexed'
      BY DEF WindowsFollowOn
    <3>1. CASE e \in DOMAIN chain
      <4>1. e # 1 => e - 1 \in DOMAIN chain
        BY <1>3, <2>1, <3>1
      <4> QED
        BY <1>1, <2>1, <3>1, <4>1 DEF WindowsFollowOn
    <3>2. CASE e = epoch
      <4>1. e = 1 <=> chain = <<>>
        BY <1>2, <1>3, <3>2 DEF Next1
      <4>2. e # 1 => e - 1 = Len(chain) /\ Len(chain) \in DOMAIN chain
        BY <1>2, <1>3, <2>1, <3>2 DEF Next1
      <4> QED
        BY <1>1, <1>2, <2>1, <3>2, <4>1, <4>2 DEF Follows
    <3> QED
      BY <1>2, <1>3, <2>1, <3>1, <3>2 DEF Next1
  <2> QED
    BY <1>4, <2>2, <2>4, <2>5, <2>6, <2>7
<1> QED
  BY <1>1, <1>5, <1>6

LEMMA LoseKeeps ==
  ASSUME KeeperInv, Lose
  PROVE  KeeperInv'
<1> USE DEF KeeperInv
<1>1. Awaited /\ Len(mempool) = 1 /\ at = "wait"
  BY DEF OwnTransaction, Awaited, Lose
<1>2. SubSeq(mempool, 1, Len(mempool) - 1) = <<>>
  BY <1>1 DEF KeeperTypeOK
<1>3. /\ mempool' = <<>> /\ receipt' = "lost"
      /\ UNCHANGED <<chain, pot, boundary, indexed, authorised, rows, at, mode, seen, until,
                     epoch, draft>>
  BY <1>1, <1>2 DEF Lose
<1>4. KeeperTypeOK'
  BY <1>3 DEF KeeperTypeOK
<1>5. OwnTransaction' /\ SeesChain' /\ Kept' /\ WindowsFollowOn'
  BY <1>1, <1>3 DEF OwnTransaction, Awaited, SeesChain, Kept, WindowsFollowOn
<1>6. Stored' = Stored /\ Next1' = Next1 /\ \A r : Follows(r)' <=> Follows(r)
  BY <1>3 DEF Stored, Next1, Follows
<1>7. Ahead' /\ RunAgrees'
  BY <1>1, <1>3, <1>6 DEF Ahead, RunAgrees, Awaited
<1> QED
  BY <1>4, <1>5, <1>7

-----------------------------------------------------------------------------
\* The run

\* The facts about chain and database, and their types.
Books == Kept /\ Ahead /\ WindowsFollowOn
RowsTyped == rows \in [EpochIds -> Row \cup {NoRow}]

LEMMA BooksLeft ==
  ASSUME KeeperInv, UNCHANGED <<chain, indexed, rows>>
  PROVE  /\ Books' /\ RowsTyped' /\ Stored' = Stored /\ Next1' = Next1
         /\ \A r : Follows(r)' <=> Follows(r)
<1>1. Stored' = Stored /\ Next1' = Next1 /\ \A r : Follows(r)' <=> Follows(r)
  BY DEF Stored, Next1, Follows
<1>2. Books' /\ RowsTyped'
  BY <1>1 DEF KeeperInv, KeeperTypeOK, Books, RowsTyped, Kept, Ahead, WindowsFollowOn
<1> QED
  BY <1>1, <1>2

\* What may be written in the row of epoch e.
MayWrite(e, r) ==
    IF e \in DOMAIN chain THEN r # NoRow /\ r.root = chain[e] /\ r.status # "failed"
    ELSE r # NoRow => e = Next1 /\ r.status # "published" /\ Follows(r.root)

LEMMA BooksWritten ==
  ASSUME KeeperInv, UNCHANGED <<chain, indexed>>, NEW e \in EpochIds,
         NEW r \in Row \cup {NoRow}, MayWrite(e, r), rows' = [rows EXCEPT ![e] = r]
  PROVE  /\ Books' /\ RowsTyped' /\ Next1' = Next1 /\ rows'[e] = r
         /\ Stored' = IF r = NoRow THEN Stored \ {e} ELSE Stored \cup {e}
         /\ \A x : Follows(x)' <=> Follows(x)
<1> USE DEF KeeperInv
<1>1. Next1' = Next1 /\ \A x : Follows(x)' <=> Follows(x)
  BY DEF Next1, Follows
<1>2. /\ RowsTyped' /\ rows'[e] = r /\ \A f \in EpochIds : f # e => rows'[f] = rows[f]
      /\ Stored' = IF r = NoRow THEN Stored \ {e} ELSE Stored \cup {e}
  BY DEF RowsTyped, KeeperTypeOK, Stored
<1>3. DOMAIN chain \subseteq EpochIds /\ DOMAIN chain = 1 .. Len(chain) /\ Len(chain) \in Nat
  BY KeeperAssumption DEF KeeperTypeOK, Kept, EpochIds
<1>4. Kept'
  BY <1>2, <1>3 DEF Kept, MayWrite
<1>5. Ahead'
  <2> SUFFICES ASSUME NEW f \in EpochIds, rows'[f] # NoRow
               PROVE  /\ f <= Next1
                      /\ f = Next1 => rows'[f].status # "published" /\ Follows(rows'[f].root)
    BY <1>1 DEF Ahead, Stored
  <2>1. CASE f # e
    BY <1>2, <2>1 DEF Ahead, Stored
  <2>2. CASE f = e
    BY <1>2, <1>3, <2>2 DEF MayWrite, Next1
  <2> QED
    BY <2>1, <2>2
<1>6. WindowsFollowOn'
  BY DEF WindowsFollowOn
<1> QED
  BY <1>1, <1>2, <1>4, <1>5, <1>6 DEF Books

\* The types of the run, and what becomes of them.
RunTyped ==
    /\ at \in Places /\ mode \in Configurations
    /\ seen \in Nat /\ until \in Nat
    /\ epoch \in EpochIds \cup {0} /\ draft \in Root \cup {NoRoot}
    /\ receipt \in {"none", "success", "reverted", "lost"}

LEMMA InvFromParts ==
  ASSUME KeeperInv, UNCHANGED chainVars, Books', RowsTyped', RunTyped',
         ~Awaited, ~Awaited', SeesChain', RunAgrees'
  PROVE  KeeperInv'
<1>1. KeeperTypeOK'
  BY DEF KeeperInv, KeeperTypeOK, chainVars, RowsTyped, RunTyped
<1>2. OwnTransaction'
  BY DEF KeeperInv, OwnTransaction, chainVars
<1> QED
  BY <1>1, <1>2 DEF KeeperInv, Books

\* Runs end without a transaction under way, after a write that was in order.
LEMMA StopKeeps ==
  ASSUME KeeperInv, Stop, UNCHANGED chainVars, mode' \in Configurations,
         Books', RowsTyped', ~Awaited
  PROVE  KeeperInv'
<1>1. RunTyped' /\ ~Awaited' /\ SeesChain' /\ RunAgrees'
  BY DEF Stop, RunTyped, Places, Awaited, SeesChain, RunAgrees
<1> QED
  BY <1>1, InvFromParts

LEMMA QuietStopKeeps ==
  ASSUME KeeperInv, ~Stragglers, PlanNothing \/ PublishNothing \/ TimeOut \/ Interrupt
  PROVE  KeeperInv'
<1>1. Stop /\ UNCHANGED <<chainVars, rows, mode>> /\ ~Awaited
  BY DEF PlanNothing, PublishNothing, TimeOut, Interrupt, Awaited
<1>2. Books' /\ RowsTyped' /\ mode' \in Configurations
  BY <1>1, BooksLeft DEF chainVars, KeeperInv, KeeperTypeOK
<1> QED
  BY <1>1, <1>2, StopKeeps

LEMMA BeginKeeps ==
  ASSUME KeeperInv, BeginRun
  PROVE  KeeperInv'
<1> USE DEF KeeperInv, BeginRun
<1>1. Books' /\ RowsTyped' /\ UNCHANGED chainVars
  BY BooksLeft DEF chainVars
<1>2. RunTyped'
  BY DEF RunTyped, KeeperTypeOK, Places
<1>3. ~Awaited /\ ~Awaited' /\ SeesChain' /\ RunAgrees'
  BY DEF Awaited, SeesChain, RunAgrees, chainVars
<1> QED
  BY <1>1, <1>2, <1>3, InvFromParts

LEMMA ResumeKeeps ==
  ASSUME KeeperInv, Resume
  PROVE  KeeperInv'
<1> USE DEF KeeperInv
<1>1. at = "resume" /\ seen = Len(chain) /\ UNCHANGED <<chainVars, mode>>
      /\ ~Awaited /\ UNCHANGED <<draft, receipt, seen, until>>
  BY DEF Resume, SeesChain, Awaited, GoTo
<1>2. LastRow = (IF Next1 \in Stored THEN Next1 ELSE Len(chain)) /\ Len(chain) \in Nat
  BY LastRowIs DEF KeeperTypeOK
<1>3. \A e \in Stored : e \in EpochIds /\ rows[e] \in Row
  BY DEF Stored, KeeperTypeOK
<1>4. CASE /\ LastStatus = "built" /\ LastRow <= seen
           /\ GoTo("plan") /\ epoch' = epoch
           /\ rows' = [rows EXCEPT ![LastRow].status = "published"]
  <2>1. Next1 \notin Stored /\ LastRow = Len(chain) /\ LastRow # 0
    BY <1>1, <1>2, <1>4 DEF Next1, LastStatus
  <2>2. LastRow \in DOMAIN chain /\ LastRow \in Stored
    BY <1>2, <2>1, KeeperAssumption DEF Kept, Stored, EpochIds, KeeperTypeOK
  <2> DEFINE r == [rows[LastRow] EXCEPT !.status = "published"]
  <2>3. r \in Row /\ rows' = [rows EXCEPT ![LastRow] = r] /\ r.root = rows[LastRow].root
        /\ r.status = "published" /\ r # NoRow
    BY <1>3, <1>4, <2>2, KeeperAssumption DEF Row
  <2> HIDE DEF r
  <2>4. MayWrite(LastRow, r)
    BY <2>2, <2>3 DEF MayWrite, Kept
  <2>5. Books' /\ RowsTyped' /\ Next1' = Next1 /\ Stored' = Stored
    <3> DEFINE e == LastRow
    <3>1. e \in EpochIds /\ e \in Stored /\ MayWrite(e, r) /\ rows' = [rows EXCEPT ![e] = r]
      BY <1>3, <2>2, <2>3, <2>4
    <3>2. UNCHANGED <<chain, indexed>>
      BY <1>1 DEF chainVars
    <3> HIDE DEF e
    <3>3. Books' /\ RowsTyped' /\ Next1' = Next1 /\ Stored' = Stored \cup {e}
      BY <2>3, <3>1, <3>2, BooksWritten
    <3> QED
      BY <3>1, <3>3
  <2>6. RunTyped' /\ ~Awaited' /\ SeesChain' /\ RunAgrees'
    BY <1>1, <1>4, <2>1, <2>5 DEF RunTyped, KeeperTypeOK, Places, GoTo, Awaited, SeesChain,
       RunAgrees, chainVars
  <2> QED
    BY <1>1, <2>5, <2>6, InvFromParts
<1>5. ASSUME rows' = rows
      PROVE  Books' /\ RowsTyped' /\ Stored' = Stored /\ Next1' = Next1
  BY <1>1, <1>5, BooksLeft DEF chainVars
<1>6. CASE /\ LastStatus = "built" /\ LastRow = seen + 1
           /\ GoTo("publish") /\ epoch' = LastRow /\ rows' = rows
  <2>1. LastRow = Next1 /\ LastRow \in Stored /\ rows[LastRow].status = "built"
    BY <1>1, <1>2, <1>6 DEF Next1, LastStatus
  <2>2. RunTyped' /\ ~Awaited' /\ SeesChain' /\ RunAgrees'
    BY <1>1, <1>3, <1>5, <1>6, <2>1 DEF RunTyped, KeeperTypeOK, Places, GoTo, Awaited, SeesChain,
       RunAgrees, chainVars
  <2> QED
    BY <1>1, <1>5, <1>6, <2>2, InvFromParts
<1>7. CASE /\ LastStatus = "failed"
           /\ GoTo("deleteLeaves") /\ epoch' = LastRow /\ rows' = rows
  <2>1. LastRow = Next1 /\ LastRow \in Stored
    <3>1. CASE Next1 \in Stored
      BY <1>2, <3>1
    <3>2. CASE Next1 \notin Stored
      <4>1. LastRow = Len(chain) /\ LastRow # 0
        BY <1>2, <1>7, <3>2 DEF LastStatus
      <4>2. LastRow \in DOMAIN chain
        BY <1>2, <4>1 DEF KeeperTypeOK
      <4> QED
        BY <1>7, <4>1, <4>2 DEF Kept, LastStatus
    <3> QED
      BY <3>1, <3>2
  <2>2. RunTyped' /\ ~Awaited' /\ SeesChain' /\ RunAgrees'
    BY <1>1, <1>3, <1>5, <1>7, <2>1 DEF RunTyped, KeeperTypeOK, Places, GoTo, Awaited, SeesChain,
       RunAgrees, chainVars
  <2> QED
    BY <1>1, <1>5, <1>7, <2>2, InvFromParts
<1>8. CASE /\ ~(LastStatus = "built" /\ LastRow <= seen)
           /\ ~(LastStatus = "built" /\ LastRow = seen + 1) /\ LastStatus # "failed"
           /\ GoTo("plan") /\ UNCHANGED <<epoch, rows>>
  <2>1. Next1 \notin Stored
    <3> SUFFICES ASSUME Next1 \in Stored PROVE FALSE
      OBVIOUS
    <3>1. LastRow = Next1 /\ LastRow # 0 /\ LastRow = seen + 1
      BY <1>1, <1>2 DEF Next1
    <3>2. rows[LastRow].status \in {"built", "published", "failed"}
      BY <1>3, <3>1 DEF Row
    <3> QED
      BY <1>8, <3>1, <3>2 DEF LastStatus, Ahead
  <2>2. RunTyped' /\ ~Awaited' /\ SeesChain' /\ RunAgrees'
    BY <1>1, <1>5, <1>8, <2>1 DEF RunTyped, KeeperTypeOK, Places, GoTo, Awaited, SeesChain,
       RunAgrees, chainVars
  <2> QED
    BY <1>1, <1>5, <1>8, <2>2, InvFromParts
<1> QED
  BY <1>4, <1>6, <1>7, <1>8 DEF Resume

\* Writes in the row of the epoch after the chain's last.
LEMMA NextWritten ==
  ASSUME KeeperInv, UNCHANGED chainVars, epoch = Next1, epoch \in EpochIds,
         NEW r \in Row \cup {NoRow},
         r # NoRow => r.status # "published" /\ Follows(r.root),
         rows' = [rows EXCEPT ![epoch] = r]
  PROVE  /\ Books' /\ RowsTyped' /\ Next1' = Next1 /\ rows'[epoch] = r
         /\ Stored' = IF r = NoRow THEN Stored \ {epoch} ELSE Stored \cup {epoch}
<1>1. epoch \notin DOMAIN chain
  BY DEF Next1, KeeperInv, KeeperTypeOK
<1>2. MayWrite(epoch, r)
  BY <1>1 DEF MayWrite
<1>3. UNCHANGED <<chain, indexed>>
  BY DEF chainVars
<1> DEFINE e == epoch
<1>4. e \in EpochIds /\ MayWrite(e, r) /\ rows' = [rows EXCEPT ![e] = r]
  BY <1>2
<1> HIDE DEF e
<1>5. Books' /\ RowsTyped' /\ Next1' = Next1 /\ rows'[e] = r
      /\ Stored' = IF r = NoRow THEN Stored \ {e} ELSE Stored \cup {e}
  BY <1>3, <1>4, BooksWritten
<1> QED
  BY <1>5 DEF e

\* The row that the run is about.
LEMMA OwnRow ==
  ASSUME KeeperInv, at \in {"publish", "deleteLeaves", "deleteCoins", "deleteRow"}
  PROVE  /\ epoch = Next1 /\ epoch \in EpochIds /\ epoch \in Stored /\ rows[epoch] \in Row
         /\ Follows(rows[epoch].root) /\ rows[epoch].status # "published"
         /\ seen = Len(chain) /\ ~Awaited
<1> QED
  BY DEF KeeperInv, RunAgrees, KeeperTypeOK, Stored, Ahead, SeesChain, Awaited

LEMMA DeletePartsKeeps ==
  ASSUME KeeperInv, DeleteLeaves \/ DeleteCoins
  PROVE  KeeperInv'
<1>1. at \in {"deleteLeaves", "deleteCoins"} /\ UNCHANGED <<chainVars, mode, epoch, faults>>
      /\ UNCHANGED <<draft, receipt, seen, until>> /\ at' \in {"deleteCoins", "deleteRow"}
  BY DEF DeleteLeaves, DeleteCoins, GoTo
<1>2. /\ epoch = Next1 /\ epoch \in EpochIds /\ epoch \in Stored /\ rows[epoch] \in Row
      /\ Follows(rows[epoch].root) /\ rows[epoch].status # "published"
      /\ seen = Len(chain) /\ ~Awaited
  BY <1>1, OwnRow
<1>3. PICK r \in Row : /\ rows' = [rows EXCEPT ![epoch] = r] /\ r.root = rows[epoch].root
                       /\ r.status = rows[epoch].status
  <2>1. CASE DeleteLeaves
    <3> DEFINE r == [rows[epoch] EXCEPT !.leaves = FALSE]
    <3>1. r \in Row /\ rows' = [rows EXCEPT ![epoch] = r] /\ r.root = rows[epoch].root
          /\ r.status = rows[epoch].status
      BY <1>2, <2>1 DEF DeleteLeaves, Row
    <3> QED
      BY <3>1
  <2>2. CASE DeleteCoins
    <3> DEFINE r == [rows[epoch] EXCEPT !.coins = FALSE]
    <3>1. r \in Row /\ rows' = [rows EXCEPT ![epoch] = r] /\ r.root = rows[epoch].root
          /\ r.status = rows[epoch].status
      BY <1>2, <2>2 DEF DeleteCoins, Row
    <3> QED
      BY <3>1
  <2> QED
    BY <2>1, <2>2
<1>4. r # NoRow
  BY KeeperAssumption
<1>5. Books' /\ RowsTyped' /\ Next1' = Next1 /\ Stored' = Stored \cup {epoch}
  BY <1>1, <1>2, <1>3, <1>4, NextWritten
<1>6. RunTyped' /\ ~Awaited' /\ SeesChain' /\ RunAgrees'
  BY <1>1, <1>2, <1>5 DEF KeeperInv, KeeperTypeOK, RunTyped, Places, Awaited, SeesChain,
     RunAgrees, chainVars
<1> QED
  BY <1>1, <1>2, <1>5, <1>6, InvFromParts

LEMMA DeleteRowKeeps ==
  ASSUME KeeperInv, DeleteRow
  PROVE  KeeperInv'
<1>1. at = "deleteRow" /\ UNCHANGED <<chainVars, mode, faults>>
      /\ rows' = [rows EXCEPT ![epoch] = NoRow]
  BY DEF DeleteRow
<1>2. /\ epoch = Next1 /\ epoch \in EpochIds /\ epoch \in Stored /\ seen = Len(chain) /\ ~Awaited
  BY <1>1, OwnRow
<1>3. Books' /\ RowsTyped' /\ Next1' = Next1 /\ Stored' = Stored \ {epoch}
  BY <1>1, <1>2, NextWritten
<1>4. CASE GoTo("plan") /\ epoch' = 0
  <2>1. RunTyped' /\ ~Awaited' /\ SeesChain' /\ RunAgrees'
    BY <1>1, <1>2, <1>3, <1>4 DEF GoTo, KeeperInv, KeeperTypeOK, RunTyped, Places, Awaited,
       SeesChain, RunAgrees, chainVars
  <2> QED
    BY <1>1, <1>2, <1>3, <2>1, InvFromParts
<1>5. CASE Stop
  BY <1>1, <1>2, <1>3, <1>5, StopKeeps DEF KeeperInv, KeeperTypeOK
<1> QED
  BY <1>4, <1>5 DEF DeleteRow

\* The window that is planned begins where the chain's last one ends.
LEMMA PlanKeeps ==
  ASSUME KeeperInv, PlanRoot
  PROVE  KeeperInv'
<1> USE DEF KeeperInv
<1>1. /\ at = "plan" /\ at' = "store" /\ WindowReady /\ ~Awaited
      /\ draft' = [from |-> WindowStart, to |-> until, pot |-> pot]
      /\ UNCHANGED <<chainVars, rows, mode, seen, until, epoch, receipt, faults>>
  BY DEF PlanRoot, Awaited
<1>2. Books' /\ RowsTyped' /\ Stored' = Stored /\ Next1' = Next1
      /\ \A r : Follows(r)' <=> Follows(r)
  BY <1>1, BooksLeft DEF chainVars
<1>3. Next1 \notin Stored /\ LastRow = Len(chain) /\ Len(chain) \in Nat
  BY <1>1, LastRowIs DEF RunAgrees, KeeperTypeOK
<1>4. WindowStart = (IF chain = <<>> THEN 0 ELSE chain[Len(chain)].to) /\ WindowStart \in Nat
  <2>1. CASE chain = <<>>
    BY <1>3, <2>1 DEF WindowStart
  <2>2. CASE chain # <<>>
    <3>1. Len(chain) # 0 /\ Len(chain) \in DOMAIN chain /\ chain[Len(chain)] \in Root
      BY <2>2 DEF KeeperTypeOK
    <3> QED
      BY <1>3, <2>2, <3>1 DEF WindowStart, Kept, Root
  <2> QED
    BY <2>1, <2>2
<1>5. draft' \in Root /\ Follows(draft')
  BY <1>1, <1>4 DEF WindowReady, Follows, Root, KeeperTypeOK
<1>6. (draft \in Root /\ Follows(draft))'
  BY <1>1, <1>2, <1>5 DEF Follows, chainVars
<1>7. RunTyped' /\ ~Awaited' /\ SeesChain' /\ RunAgrees'
  BY <1>1, <1>2, <1>3, <1>6 DEF KeeperTypeOK, RunTyped, Places, Awaited, SeesChain,
     RunAgrees, chainVars
<1> QED
  BY <1>1, <1>2, <1>7, InvFromParts

LEMMA StoreKeeps ==
  ASSUME KeeperInv, Store
  PROVE  KeeperInv'
<1> USE DEF KeeperInv
<1> DEFINE e == seen + 1
           r == [root |-> draft, status |-> "built", leaves |-> TRUE, coins |-> TRUE,
                 dry |-> mode.dry]
<1>1. /\ at = "store" /\ ~Awaited /\ e \in EpochIds /\ e = Next1 /\ Next1 \notin Stored
      /\ draft \in Root /\ Follows(draft) /\ UNCHANGED <<chainVars, mode, faults>>
  BY DEF Store, Awaited, SeesChain, Next1, RunAgrees
<1>2. rows[e] = NoRow
  BY <1>1 DEF Stored
<1>3. /\ rows' = [rows EXCEPT ![e] = r]
      /\ at' = "publish" /\ epoch' = e /\ draft' = NoRoot
      /\ UNCHANGED <<receipt, seen, until>>
  BY <1>2 DEF Store
<1>4. r \in Row /\ r # NoRow /\ r.status = "built" /\ r.root = draft
  <2>1. mode \in [dry : BOOLEAN, wallet : BOOLEAN]
    BY KeeperAssumption DEF KeeperTypeOK
  <2>2. mode.dry \in BOOLEAN
    BY <2>1
  <2>3. r \in Row
    BY <1>1, <2>2 DEF Row
  <2> QED
    BY <2>3, KeeperAssumption
<1> HIDE DEF e, r
<1>5. MayWrite(e, r)
  BY <1>1, <1>4 DEF MayWrite, Next1, KeeperTypeOK
<1>6. UNCHANGED <<chain, indexed>>
  BY <1>1 DEF chainVars
<1>7. Books' /\ RowsTyped' /\ Next1' = Next1 /\ rows'[e] = r /\ Stored' = Stored \cup {e}
  BY <1>1, <1>3, <1>4, <1>5, <1>6, BooksWritten
<1>8. RunTyped' /\ ~Awaited' /\ SeesChain' /\ RunAgrees'
  BY <1>1, <1>3, <1>4, <1>7 DEF KeeperTypeOK, RunTyped, Places, Awaited, SeesChain, RunAgrees,
     chainVars
<1> QED
  BY <1>1, <1>7, <1>8, InvFromParts

LEMMA SimulationKeeps ==
  ASSUME KeeperInv, SimulationReverts
  PROVE  KeeperInv'
<1>1. at = "publish" /\ Stop /\ UNCHANGED <<chainVars, mode, faults>>
      /\ rows' = [rows EXCEPT ![epoch].status = "failed"]
  BY DEF SimulationReverts
<1>2. /\ epoch = Next1 /\ epoch \in EpochIds /\ rows[epoch] \in Row
      /\ Follows(rows[epoch].root) /\ ~Awaited
  BY <1>1, OwnRow
<1> DEFINE r == [rows[epoch] EXCEPT !.status = "failed"]
<1>3. r \in Row /\ r # NoRow /\ r.status = "failed" /\ r.root = rows[epoch].root
      /\ rows' = [rows EXCEPT ![epoch] = r]
  BY <1>1, <1>2, KeeperAssumption DEF Row
<1> HIDE DEF r
<1>4. Books' /\ RowsTyped'
  BY <1>1, <1>2, <1>3, NextWritten
<1> QED
  BY <1>1, <1>2, <1>4, StopKeeps DEF KeeperInv, KeeperTypeOK

LEMMA DryKeeps ==
  ASSUME KeeperInv, DryRunDone
  PROVE  KeeperInv'
<1>1. at = "publish" /\ GoTo("deleteLeaves") /\ UNCHANGED <<chainVars, rows, mode, epoch, faults>>
  BY DEF DryRunDone
<1>2. epoch = Next1 /\ epoch \in Stored /\ seen = Len(chain) /\ ~Awaited
  BY <1>1, OwnRow
<1>3. Books' /\ RowsTyped' /\ Stored' = Stored /\ Next1' = Next1
  BY <1>1, BooksLeft DEF chainVars
<1>4. RunTyped' /\ ~Awaited' /\ SeesChain' /\ RunAgrees'
  BY <1>1, <1>2, <1>3 DEF GoTo, KeeperInv, KeeperTypeOK, RunTyped, Places, Awaited, SeesChain,
     RunAgrees, chainVars
<1> QED
  BY <1>1, <1>2, <1>3, <1>4, InvFromParts

LEMMA SendKeeps ==
  ASSUME KeeperInv, Send
  PROVE  KeeperInv'
<1> USE DEF KeeperInv
<1> DEFINE t == [epoch |-> epoch, root |-> rows[epoch].root]
<1>1. /\ at = "publish" /\ at' = "wait" /\ mempool' = Append(mempool, t)
      /\ UNCHANGED <<draft, receipt, seen, until>>
      /\ UNCHANGED <<chain, pot, boundary, indexed, authorised, rows, mode, epoch, faults>>
  BY DEF Send, GoTo
<1>2. epoch = Next1 /\ epoch \in EpochIds /\ epoch \in Stored /\ rows[epoch] \in Row /\ ~Awaited
  BY <1>1, OwnRow
<1>3. t \in Transaction /\ mempool = <<>> /\ mempool' = <<t>>
  BY <1>1, <1>2 DEF OwnTransaction, Transaction, Row
<1>4. Books' /\ RowsTyped' /\ Stored' = Stored /\ Next1' = Next1
  BY <1>1, BooksLeft
<1>5. KeeperTypeOK'
  BY <1>1, <1>3 DEF KeeperTypeOK, Places
<1>6. receipt = "none" /\ rows[epoch].status = "built" /\ Awaited'
  BY <1>1 DEF Awaited, RunAgrees
<1>7. OwnTransaction'
  BY <1>1, <1>3, <1>6 DEF OwnTransaction
<1>8. SeesChain' /\ RunAgrees'
  BY <1>1, <1>2, <1>4, <1>6 DEF SeesChain, RunAgrees
<1> QED
  BY <1>4, <1>5, <1>7, <1>8 DEF Books

LEMMA SettleKeeps ==
  ASSUME KeeperInv, Settle
  PROVE  KeeperInv'
<1> USE DEF KeeperInv
<1> DEFINE status == IF receipt = "success" THEN "published" ELSE "failed"
           r == [rows[epoch] EXCEPT !.status = status]
<1>1. /\ at = "wait" /\ receipt \in {"success", "reverted"} /\ Stop
      /\ rows' = [rows EXCEPT ![epoch].status = status]
      /\ UNCHANGED <<chainVars, mode, faults>> /\ ~Awaited
  BY DEF Settle, Awaited
<1>2. /\ epoch \in Stored /\ rows[epoch] \in Row /\ epoch \in EpochIds
      /\ epoch = (IF receipt = "success" THEN Len(chain) ELSE Next1)
      /\ Len(chain) \in Nat
  BY <1>1 DEF RunAgrees, Stored, KeeperTypeOK
<1>3. r \in Row /\ r # NoRow /\ r.status = status /\ r.root = rows[epoch].root
      /\ rows' = [rows EXCEPT ![epoch] = r]
  BY <1>1, <1>2, KeeperAssumption DEF Row
<1>4. CASE receipt = "success"
  <2>1. epoch \in DOMAIN chain
    BY <1>2, <1>4 DEF EpochIds, KeeperTypeOK
  <2> DEFINE e == epoch
  <2>2. MayWrite(e, r)
    BY <1>3, <1>4, <2>1 DEF MayWrite, Kept
  <2>3. e \in EpochIds /\ rows' = [rows EXCEPT ![e] = r] /\ UNCHANGED <<chain, indexed>>
    BY <1>1, <1>2, <1>3 DEF chainVars
  <2> HIDE DEF e, r
  <2>4. Books' /\ RowsTyped'
    BY <1>3, <2>2, <2>3, BooksWritten
  <2> QED
    BY <1>1, <2>4, StopKeeps DEF KeeperTypeOK
<1>5. CASE receipt = "reverted"
  <2>1. epoch = Next1 /\ r.status = "failed" /\ Follows(r.root)
    BY <1>2, <1>3, <1>5 DEF Ahead
  <2> HIDE DEF r
  <2>2. Books' /\ RowsTyped'
    BY <1>1, <1>2, <1>3, <2>1, NextWritten
  <2> QED
    BY <1>1, <2>2, StopKeeps DEF KeeperTypeOK
<1> QED
  BY <1>1, <1>4, <1>5

-----------------------------------------------------------------------------

LEMMA StepsKeep ==
  ASSUME ~Stragglers, KeeperInv, [KeeperNext]_keeperVars
  PROVE  KeeperInv'
<1>1. CASE UNCHANGED keeperVars
  <2>1. UNCHANGED <<chain, pot, boundary, indexed, authorised, mempool, rows, at, mode, seen,
                    until, epoch, draft, receipt, faults>>
    BY <1>1 DEF keeperVars, chainVars, runVars
  <2>2. KeeperTypeOK'
    BY <2>1 DEF KeeperInv, KeeperTypeOK
  <2>3. Books' /\ Stored' = Stored /\ Next1' = Next1 /\ \A r : Follows(r)' <=> Follows(r)
    BY <2>1, BooksLeft
  <2>4. OwnTransaction' /\ SeesChain' /\ RunAgrees'
    BY <2>1, <2>3 DEF KeeperInv, OwnTransaction, Awaited, SeesChain, RunAgrees
  <2> QED
    BY <2>2, <2>3, <2>4 DEF KeeperInv, Books
<1>2. CASE OutsideStep
  BY <1>2, WorldKeeps, MineKeeps, LoseKeeps DEF OutsideStep
<1>3. CASE RunStep \/ Interrupt
  BY <1>3, BeginKeeps, ResumeKeeps, DeletePartsKeeps, DeleteRowKeeps, PlanKeeps, StoreKeeps,
     SimulationKeeps, DryKeeps, SendKeeps, SettleKeeps, QuietStopKeeps DEF RunStep
<1> QED
  BY <1>1, <1>2, <1>3 DEF KeeperNext

LEMMA InvAlways ==
  ASSUME ~Stragglers
  PROVE  KeeperSpec => []KeeperInv
<1>1. KeeperInv /\ [KeeperNext]_keeperVars => KeeperInv'
  BY StepsKeep
<1> QED
  BY <1>1, StartsRight, PTL DEF KeeperSpec

\* The windows of the epochs the keeper publishes follow on from each other, and
\* none is weighed before the index has reached its end, through any cut-off
\* runs, lost or refused transactions and dry runs (epochs.ts, runEpochs).
THEOREM WindowsAlwaysFollowOn ==
  ASSUME ~Stragglers
  PROVE  KeeperSpec => []WindowsFollowOn
<1>1. KeeperInv => WindowsFollowOn
  BY DEF KeeperInv
<1> QED
  BY <1>1, InvAlways, PTL

\* An epoch the database calls published is on chain, under the root its leaves
\* were built for: the proofs that rewardLeavesOf hands out verify.
THEOREM PublishedProofsVerify ==
  ASSUME ~Stragglers
  PROVE  KeeperSpec => []ProofsVerify
<1>1. ASSUME KeeperInv PROVE ProofsVerify
  <2> SUFFICES ASSUME NEW e \in Stored, rows[e].status = "published"
               PROVE  e <= Len(chain) /\ rows[e].root = chain[e]
    BY DEF ProofsVerify
  <2>1. e \in 1 .. Len(chain) /\ Len(chain) \in Nat
    BY <1>1 DEF KeeperInv, KeeperTypeOK, Ahead, Next1, Stored, EpochIds
  <2> QED
    BY <1>1, <2>1 DEF KeeperInv, KeeperTypeOK, Kept
<1> QED
  BY <1>1, InvAlways, PTL

-----------------------------------------------------------------------------
\* The leaves.  A dry run deletes those of a row that is still built, so that
\* this holds of keepers that are never run dry.

Whole ==
    /\ \A e \in Stored : rows[e].status # "failed" => rows[e].leaves /\ rows[e].coins
    /\ at \in {"deleteLeaves", "deleteCoins", "deleteRow"} => rows[epoch].status = "failed"

\* A step that writes at most one row, and leaves it whole.
WritesWhole ==
    \E e \in EpochIds, r \in Row \cup {NoRow} :
        /\ rows' = [rows EXCEPT ![e] = r]
        /\ r # NoRow /\ r.status # "failed" => r.leaves /\ r.coins

LEMMA WholeWritten ==
  ASSUME KeeperInv, Whole, WritesWhole,
         at' \notin {"deleteLeaves", "deleteCoins", "deleteRow"}
  PROVE  Whole'
<1>1. PICK e \in EpochIds, r \in Row \cup {NoRow} :
          /\ rows' = [rows EXCEPT ![e] = r]
          /\ r # NoRow /\ r.status # "failed" => r.leaves /\ r.coins
  BY DEF WritesWhole
<1>2. rows'[e] = r /\ \A f \in EpochIds : f # e => rows'[f] = rows[f]
  BY <1>1 DEF KeeperInv, KeeperTypeOK
<1> QED
  BY <1>1, <1>2 DEF Whole, Stored

LEMMA WholeStays ==
  ASSUME Whole, rows' = rows,
         \/ at' \notin {"deleteLeaves", "deleteCoins", "deleteRow"}
         \/ at' = at /\ epoch' = epoch
  PROVE  Whole'
<1>1. Stored' = Stored
  BY DEF Stored
<1> QED
  BY <1>1 DEF Whole

LEMMA WholeResumed ==
  ASSUME KeeperInv, Whole, Resume
  PROVE  Whole'
<1>1. CASE /\ LastStatus = "built" /\ LastRow <= seen
           /\ GoTo("plan") /\ epoch' = epoch
           /\ rows' = [rows EXCEPT ![LastRow].status = "published"]
  <2>1. LastRow # 0 /\ rows[LastRow].status = "built"
    BY <1>1 DEF LastStatus
  <2>2. LastRow \in Stored
    BY <2>1, LastRowIs, KeeperAssumption DEF KeeperInv, KeeperTypeOK, Kept, Stored, EpochIds
  <2> DEFINE r == [rows[LastRow] EXCEPT !.status = "published"]
  <2>3. rows[LastRow] \in Row /\ LastRow \in EpochIds
    BY <2>2 DEF Stored, KeeperInv, KeeperTypeOK
  <2>4. r \in Row /\ rows' = [rows EXCEPT ![LastRow] = r] /\ r.leaves /\ r.coins
    BY <1>1, <2>1, <2>2, <2>3 DEF Row, Whole
  <2>5. WritesWhole
    BY <2>3, <2>4 DEF WritesWhole
  <2> QED
    BY <1>1, <2>5, WholeWritten DEF GoTo
<1>2. CASE /\ LastStatus = "failed"
           /\ GoTo("deleteLeaves") /\ epoch' = LastRow /\ rows' = rows
  <2>1. rows[LastRow].status = "failed"
    BY <1>2 DEF LastStatus
  <2> QED
    BY <1>2, <2>1 DEF Whole, Stored
<1>3. CASE rows' = rows /\ at' \in {"publish", "plan"}
  BY <1>3, WholeStays
<1> QED
  BY <1>1, <1>2, <1>3 DEF Resume, GoTo

LEMMA WholeDeleted ==
  ASSUME KeeperInv, Whole, DeleteLeaves \/ DeleteCoins \/ DeleteRow
  PROVE  Whole'
<1>1. at \in {"deleteLeaves", "deleteCoins", "deleteRow"} /\ rows[epoch].status = "failed"
  BY DEF DeleteLeaves, DeleteCoins, DeleteRow, Whole
<1>2. epoch \in EpochIds /\ rows[epoch] \in Row
  BY <1>1, OwnRow
<1>3. CASE DeleteRow
  <2>1. WritesWhole
    BY <1>2, <1>3 DEF DeleteRow, WritesWhole
  <2>2. at' \in {"plan", "idle"}
    BY <1>3 DEF DeleteRow, GoTo, Stop
  <2> QED
    BY <2>1, <2>2, WholeWritten
<1>4. CASE DeleteLeaves \/ DeleteCoins
  <2>1. PICK r \in Row : rows' = [rows EXCEPT ![epoch] = r] /\ r.status = "failed"
    <3>1. CASE DeleteLeaves
      <4> DEFINE r == [rows[epoch] EXCEPT !.leaves = FALSE]
      <4>1. r \in Row /\ rows' = [rows EXCEPT ![epoch] = r] /\ r.status = "failed"
        BY <1>1, <1>2, <3>1 DEF DeleteLeaves, Row
      <4> QED
        BY <4>1
    <3>2. CASE DeleteCoins
      <4> DEFINE r == [rows[epoch] EXCEPT !.coins = FALSE]
      <4>1. r \in Row /\ rows' = [rows EXCEPT ![epoch] = r] /\ r.status = "failed"
        BY <1>1, <1>2, <3>2 DEF DeleteCoins, Row
      <4> QED
        BY <4>1
    <3> QED
      BY <1>4, <3>1, <3>2
  <2>2. /\ epoch' = epoch /\ rows'[epoch] = r
        /\ \A f \in EpochIds : f # epoch => rows'[f] = rows[f]
    BY <1>2, <1>4, <2>1 DEF DeleteLeaves, DeleteCoins, KeeperInv, KeeperTypeOK
  <2> QED
    BY <2>1, <2>2 DEF Whole, Stored
<1> QED
  BY <1>3, <1>4

LEMMA WholeStored ==
  ASSUME KeeperInv, Whole, Store
  PROVE  Whole'
<1> DEFINE e == seen + 1
           r == [root |-> draft, status |-> "built", leaves |-> TRUE, coins |-> TRUE,
                 dry |-> mode.dry]
<1>1. e \in EpochIds /\ at = "store" /\ draft \in Root
  BY DEF Store, KeeperInv, RunAgrees
<1>2. CASE Stop /\ rows' = rows
  BY <1>2, WholeStays DEF Stop
<1>3. CASE rows' = [rows EXCEPT ![e] = r] /\ at' = "publish"
  <2>1. mode \in [dry : BOOLEAN, wallet : BOOLEAN]
    BY KeeperAssumption DEF KeeperInv, KeeperTypeOK
  <2>2. mode.dry \in BOOLEAN
    BY <2>1
  <2>3. r \in Row /\ r.leaves /\ r.coins
    BY <1>1, <2>2 DEF Row
  <2> HIDE DEF e, r
  <2>4. WritesWhole
    BY <1>1, <1>3, <2>3 DEF WritesWhole
  <2> QED
    BY <1>3, <2>4, WholeWritten
<1> QED
  BY <1>2, <1>3 DEF Store

LEMMA WholeMarked ==
  ASSUME KeeperInv, Whole, SimulationReverts \/ Settle
  PROVE  Whole'
<1>1. PICK status \in {"published", "failed"} :
          rows' = [rows EXCEPT ![epoch].status = status]
  BY DEF SimulationReverts, Settle
<1>2. /\ epoch \in Stored /\ epoch \in EpochIds /\ rows[epoch] \in Row
      /\ rows[epoch].status = "built"
  BY DEF SimulationReverts, Settle, KeeperInv, RunAgrees, Stored, KeeperTypeOK
<1> DEFINE r == [rows[epoch] EXCEPT !.status = status]
<1>3. r \in Row /\ rows' = [rows EXCEPT ![epoch] = r] /\ r.leaves /\ r.coins
  BY <1>1, <1>2 DEF Row, Whole
<1>4. WritesWhole
  BY <1>2, <1>3 DEF WritesWhole
<1>5. at' = "idle"
  BY DEF SimulationReverts, Settle, Stop
<1> QED
  BY <1>4, <1>5, WholeWritten

LEMMA WholeKept ==
  ASSUME ~mode.dry, KeeperInv, Whole, [KeeperNext]_keeperVars
  PROVE  Whole'
<1>2. CASE OutsideStep \/ UNCHANGED keeperVars
  <2>1. rows' = rows /\ at' = at /\ epoch' = epoch
    BY <1>2, MinesOwn DEF OutsideStep, keeperVars, runVars, Earn, BoundaryPasses,
       IndexCatchesUp, Unauthorise, Authorise, Lose
  <2> QED
    BY <2>1, WholeStays
<1>3. CASE PlanNothing \/ PublishNothing \/ TimeOut \/ Interrupt \/ BeginRun \/ PlanRoot \/ Send
  <2>1. rows' = rows /\ at' \in {"idle", "resume", "store", "wait"}
    BY <1>3 DEF PlanNothing, PublishNothing, TimeOut, Interrupt, BeginRun, PlanRoot, Send, Stop,
       GoTo
  <2> QED
    BY <2>1, WholeStays
<1>4. ~DryRunDone
  BY DEF DryRunDone
<1> QED
  BY <1>2, <1>3, <1>4, WholeResumed, WholeDeleted, WholeStored, WholeMarked
     DEF KeeperNext, RunStep

LEMMA WholeHasLeaves ==
  ASSUME KeeperInv, Whole
  PROVE  PublishedLeavesKept
<1>1. \A e \in DOMAIN chain : e \in EpochIds
  BY KeeperAssumption DEF KeeperInv, KeeperTypeOK, Kept, EpochIds
<1> QED
  BY <1>1 DEF KeeperInv, Kept, Whole, Stored, PublishedLeavesKept

\* No keeper is run dry, and no transaction outlives its run.
RealRuns == ~Stragglers /\ \A c \in Configurations : ~c.dry

\* Every epoch on chain has its leaves stored, under the root the contract has,
\* whenever runs are cut off, in a keeper that is never run dry (epochs.ts,
\* runEpochs and deleteEpoch).
THEOREM LeavesAlwaysKept ==
  ASSUME RealRuns
  PROVE  KeeperSpec => []PublishedLeavesKept
<1>1. ASSUME KeeperInit PROVE Whole
  BY <1>1 DEF KeeperInit, Whole, Stored
<1>2. KeeperInv /\ Whole /\ [KeeperNext]_keeperVars => Whole'
  <2>1. KeeperInv => ~mode.dry
    BY DEF RealRuns, KeeperInv, KeeperTypeOK
  <2> QED
    BY <2>1, WholeKept
<1>3. KeeperSpec => []KeeperInv
  BY InvAlways DEF RealRuns
<1>4. KeeperInv /\ Whole => PublishedLeavesKept
  BY WholeHasLeaves
<1> QED
  BY <1>1, <1>2, <1>3, <1>4, PTL DEF KeeperSpec

\* The same of the two kinds of keepers on one database: where the keeper that is
\* live always signs and sends, an epoch on chain has its leaves, although the
\* keepers of the other kind may be run dry.
THEOREM LiveLeavesAlwaysKept ==
  ASSUME ~Stragglers
  PROVE  LiveSpec => []LiveLeavesKept
<1> DEFINE LiveInv == KeeperInv /\ Kind /\ (live => Whole)
<1>1. ASSUME LiveInit PROVE LiveInv
  <2>1. Whole
    BY <1>1 DEF LiveInit, KeeperInit, Whole, Stored
  <2> QED
    BY <1>1, <2>1, StartsRight DEF LiveInit
<1>2. ASSUME LiveInv, [LiveNext]_liveVars PROVE LiveInv'
  <2>1. [KeeperNext]_keeperVars /\ live' = live
    BY <1>2 DEF LiveNext, liveVars
  <2>2. KeeperInv'
    BY <1>2, <2>1, StepsKeep
  <2>3. Kind'
    BY <1>2 DEF LiveNext, liveVars, Kind, keeperVars, runVars
  <2>4. CASE live
    BY <1>2, <2>1, <2>2, <2>3, <2>4, WholeKept DEF Kind
  <2> QED
    BY <2>1, <2>2, <2>3, <2>4
<1>3. ASSUME LiveInv PROVE LiveLeavesKept
  BY <1>3, WholeHasLeaves DEF LiveLeavesKept
<1> QED
  BY <1>1, <1>2, <1>3, PTL DEF LiveSpec

=============================================================================
