------------------------- MODULE WalletLedgerProofs -------------------------
(***************************************************************************)
(* Proofs about WalletLedger for every set of wallets, requests, keys,     *)
(* amounts and operations.                                                 *)
(***************************************************************************)
EXTENDS WalletLedger, GameWalletRowsProofs

(***************************************************************************)
(* The inductive invariant.  RowsSound and CopiesSound say that rows and   *)
(* the copies handlers hold are multiples of a micro-unit and not          *)
(* negative; StepFitsOperation ties a handler's position to what it was    *)
(* asked; CoveredCopies remembers the balance check that a withdrawal made *)
(* on its copy.                                                            *)
(***************************************************************************)
CopiesSound == \A r \in Request, w \in Wallet : Sound(snap[r][w])

StepFitsOperation ==
    \A r \in Request :
        /\ pc[r] # "idle" => op[r] \in Operation
        /\ pc[r] \in {"gated", "read", "diffed"} => op[r] \in SingleOp
        /\ pc[r] \in {"lockFrom", "lockTo", "locked"} =>
              op[r] \in TransferOp /\ op[r].from # op[r].to

CoveredCopies ==
    \A r \in Request :
        pc[r] \in {"read", "diffed"} /\ IsDebit(r) =>
            Covers(snap[r][op[r].wallet], op[r].amount)

TypeInv == TypeOK /\ StepFitsOperation

SafeInv == TypeInv /\ RowsSound /\ CopiesSound /\ CoveredCopies

-----------------------------------------------------------------------------
(***************************************************************************)
(* Types.  One step per action of Next.                                    *)
(***************************************************************************)
LEMMA TypeInit == Init => TypeInv
  BY GameWalletAssumption
     DEF Init, RowsInit, TypeInv, TypeOK, StepFitsOperation, Row, OpeningRow, EmptyRow,
         Step, Reply

LEMMA AnswerType ==
    ASSUME TypeInv, NEW r \in Request, NEW a \in Reply, Answer(r, a)
    PROVE  /\ lock' \in [Wallet -> Request \cup {Free}]
           /\ op' \in [Request -> Operation \cup {NoOp}]
           /\ pc' \in [Request -> Step]
           /\ snap' \in [Request -> [Wallet -> Row]]
           /\ stale' \in [Request -> BOOLEAN]
           /\ amlFlags' \subseteq Request
           /\ reply' \in [Request -> Reply]
           /\ pc'[r] = "done"
           /\ op' = op
           /\ \A q \in Request \ {r} : pc'[q] = pc[q]
  BY DEF TypeInv, TypeOK, Answer, Goto, Unlocked, Step

\* An answer that changes no row.
LEMMA AnswerOnlyType ==
    ASSUME TypeInv, NEW r \in Request, NEW a \in Reply, Answer(r, a), pc[r] # "idle",
           UNCHANGED <<wallet, ledger>>
    PROVE  TypeInv'
  <1>1. TypeOK'
    BY AnswerType DEF TypeInv, TypeOK
  <1>2. StepFitsOperation'
    BY AnswerType DEF TypeInv, TypeOK, StepFitsOperation
  <1>. QED  BY <1>1, <1>2 DEF TypeInv

LEMMA SingleFields ==
    ASSUME TypeInv, NEW r \in Request, op[r] \in SingleOp
    PROVE  /\ op[r].wallet \in Wallet
           /\ op[r].amount \in Amount /\ op[r].amount \in Nat
           /\ op[r].key \in OperationKey \cup {NoKey}
           /\ ~IsTransfer(r)
  BY WalletLedgerAssumption DEF SingleOp, IsTransfer

LEMMA TransferFields ==
    ASSUME TypeInv, NEW r \in Request, op[r] \in TransferOp
    PROVE  /\ op[r].from \in Wallet /\ op[r].to \in Wallet
           /\ op[r].amount \in Amount /\ op[r].amount \in Nat
           /\ op[r].key \in Key \cup {NoKey}
           /\ IsTransfer(r)
  BY WalletLedgerAssumption DEF TransferOp, IsTransfer

LEMMA KindDecides ==
    ASSUME TypeInv, NEW r \in Request, pc[r] # "idle"
    PROVE  /\ op[r] \in Operation
           /\ IsTransfer(r) => op[r] \in TransferOp
           /\ ~IsTransfer(r) => op[r] \in SingleOp
  BY WalletLedgerAssumption
     DEF TypeInv, StepFitsOperation, SingleOp, TransferOp, IsTransfer

LEMMA EntryFields ==
    ASSUME NEW r, NEW w, NEW type, NEW side, NEW a, NEW k
    PROVE  /\ Entry(r, w, type, side, a, k).by = r
           /\ Entry(r, w, type, side, a, k).wallet = w
           /\ Entry(r, w, type, side, a, k).amount = a
           /\ Entry(r, w, type, side, a, k).side = side
           /\ Entry(r, w, type, side, a, k).operationKey = k
  BY DEF Entry

LEMMA ComputedType ==
    ASSUME NEW row \in Row, NEW a \in Nat
    PROVE  Credited(row, a) \in Row /\ Debited(row, a) \in Row
  <1>1. \A x \in Int : Micro(x) \in Int
    BY DEF Micro
  <1>. QED
    BY <1>1 DEF Credited, Debited, SafeAdd, SafeSub, Row

LEMMA SavedType ==
    ASSUME TypeInv, NEW r \in Request, op[r] \in SingleOp
    PROVE  Saved(r) \in Row
  <1> DEFINE w == op[r].wallet
  <1>1. /\ w \in Wallet
        /\ op[r].amount \in Nat
        /\ snap[r][w] \in Row
        /\ wallet[w] \in Row
    BY SingleFields DEF TypeInv, TypeOK
  <1>2. Computed(r) \in Row
    BY <1>1, ComputedType DEF Computed
  <1>. QED
    BY <1>1, <1>2 DEF Saved, Row

LEMMA TypeStep == TypeInv /\ [Next]_vars => TypeInv'
  <1> SUFFICES ASSUME TypeInv, [Next]_vars
               PROVE  TypeInv'
    OBVIOUS
  <1> USE DEF Reply
  <1>1. ASSUME NEW r \in Request, NEW o \in Operation, Send(r, o)
        PROVE  TypeInv'
    BY <1>1 DEF Send, Goto, rowVars, TypeInv, TypeOK, StepFitsOperation, Step
  <1>2. ASSUME NEW r \in Request, PlayerGate(r)
        PROVE  TypeInv'
    <2>1. op[r] \in SingleOp
      BY <1>2, KindDecides DEF PlayerGate, IsTransfer
    <2>. QED
      BY <1>2, <2>1
         DEF PlayerGate, Goto, rowVars, TypeInv, TypeOK, StepFitsOperation, Step
  <1>3. ASSUME NEW r \in Request, ReadWallet(r)
        PROVE  TypeInv'
    <2>1. pc[r] # "idle" /\ op[r] \in SingleOp
      BY <1>3, KindDecides DEF ReadWallet, AtKeyLookup
    <2>2. wallet[op[r].wallet] \in Row
      BY <2>1, SingleFields DEF TypeInv, TypeOK
    <2>3. snap' \in [Request -> [Wallet -> Row]]
      BY <1>3, <2>2 DEF ReadWallet, TypeInv, TypeOK
    <2>. QED
      BY <1>3, <2>1, <2>3
         DEF ReadWallet, Goto, rowVars, TypeInv, TypeOK, StepFitsOperation, Step
  <1>4. ASSUME NEW r \in Request, DiffWallet(r)
        PROVE  TypeInv'
    BY <1>4 DEF DiffWallet, Goto, rowVars, TypeInv, TypeOK, StepFitsOperation, Step
  <1>5. ASSUME NEW r \in Request, CommitSingle(r)
        PROVE  TypeInv'
    <2>1. op[r] \in SingleOp
      BY <1>5 DEF CommitSingle, TypeInv, StepFitsOperation
    <2>2. wallet' \in [Wallet -> Row]
      BY <1>5, <2>1, SavedType, SingleFields DEF CommitSingle, TypeInv, TypeOK
    <2>3. \A e \in ledger' : /\ e.by \in Request
                             /\ e.wallet \in Wallet
                             /\ e.amount \in Amount
                             /\ e.operationKey \in OperationKey \cup {NoKey}
      BY <1>5, <2>1, SingleFields, EntryFields
         DEF CommitSingle, SingleEntry, TypeInv, TypeOK
    <2>4. Answer(r, "ok")
      BY <1>5 DEF CommitSingle
    <2>5. TypeOK'
      BY <2>2, <2>3, <2>4, AnswerType DEF TypeOK
    <2>. QED
      BY <2>4, <2>5, AnswerType, <1>5 DEF CommitSingle, TypeInv, StepFitsOperation
  <1>6. ASSUME NEW r \in Request, BeginTransfer(r)
        PROVE  TypeInv'
    <2>1. pc[r] # "idle" /\ op[r] \in TransferOp /\ op[r].from # op[r].to
      BY <1>6, KindDecides DEF BeginTransfer, AtKeyLookup
    <2>. QED
      BY <1>6, <2>1
         DEF BeginTransfer, Goto, rowVars, TypeInv, TypeOK, StepFitsOperation, Step
  <1>7. ASSUME NEW r \in Request, LockFrom(r)
        PROVE  TypeInv'
    <2>1. op[r] \in TransferOp
      BY <1>7 DEF LockFrom, TypeInv, StepFitsOperation
    <2>2. wallet[op[r].from] \in Row
      BY <2>1, TransferFields DEF TypeInv, TypeOK
    <2>3. snap' \in [Request -> [Wallet -> Row]]
      BY <1>7, <2>2 DEF LockFrom, TypeInv, TypeOK
    <2>. QED
      BY <1>7, <2>3
         DEF LockFrom, LockRow, Goto, TypeInv, TypeOK, StepFitsOperation, Step
  <1>8. ASSUME NEW r \in Request, LockTo(r)
        PROVE  TypeInv'
    <2>1. op[r] \in TransferOp
      BY <1>8 DEF LockTo, TypeInv, StepFitsOperation
    <2>2. wallet[op[r].to] \in Row
      BY <2>1, TransferFields DEF TypeInv, TypeOK
    <2>3. snap' \in [Request -> [Wallet -> Row]]
      BY <1>8, <2>2 DEF LockTo, TypeInv, TypeOK
    <2>. QED
      BY <1>8, <2>3
         DEF LockTo, LockRow, Goto, TypeInv, TypeOK, StepFitsOperation, Step
  <1>9. ASSUME NEW r \in Request, CommitTransfer(r)
        PROVE  TypeInv'
    <2>1. op[r] \in TransferOp
      BY <1>9 DEF CommitTransfer, TypeInv, StepFitsOperation
    <2>2. /\ Debited(snap[r][op[r].from], op[r].amount) \in Row
          /\ Credited(snap[r][op[r].to], op[r].amount) \in Row
      BY <2>1, TransferFields, ComputedType DEF TypeInv, TypeOK
    <2>3. wallet' \in [Wallet -> Row]
      BY <1>9, <2>2 DEF CommitTransfer, TypeInv, TypeOK
    <2>4. /\ LegKey(op[r], "debit") \in OperationKey \cup {NoKey}
          /\ LegKey(op[r], "credit") \in OperationKey \cup {NoKey}
      BY <2>1, TransferFields DEF LegKey, OperationKey
    <2>5. \A e \in ledger' : /\ e.by \in Request
                             /\ e.wallet \in Wallet
                             /\ e.amount \in Amount
                             /\ e.operationKey \in OperationKey \cup {NoKey}
      BY <1>9, <2>1, <2>4, TransferFields, EntryFields
         DEF CommitTransfer, TransferEntries, TypeInv, TypeOK
    <2>6. Answer(r, "ok")
      BY <1>9 DEF CommitTransfer
    <2>7. TypeOK'
      BY <2>3, <2>5, <2>6, AnswerType DEF TypeOK
    <2>. QED
      BY <2>6, <2>7, AnswerType, <1>9 DEF CommitTransfer, TypeInv, StepFitsOperation
  <1>10. ASSUME NEW r \in Request,
                \/ PlayerRefused(r) \/ SelfTransfer(r) \/ ReplayFound(r)
                \/ ReplayInconsistent(r) \/ ReadInsufficient(r)
                \/ BeginInsufficient(r) \/ TransferInsufficient(r)
                \/ DuplicateKey(r) \/ DeadlockVictim(r) \/ ConnectionLost(r)
         PROVE  TypeInv'
    <2>1. PICK a \in Reply : Answer(r, a)
      BY <1>10
         DEF PlayerRefused, SelfTransfer, ReplayFound, ReplayInconsistent,
             ReadInsufficient, BeginInsufficient, TransferInsufficient,
             DuplicateKey, DeadlockVictim, ConnectionLost
    <2>2. UNCHANGED <<wallet, ledger>>
      BY <1>10
         DEF PlayerRefused, SelfTransfer, ReplayFound, ReplayInconsistent,
             ReadInsufficient, BeginInsufficient, TransferInsufficient,
             DuplicateKey, DeadlockVictim, ConnectionLost
    <2>3. pc[r] # "idle"
      BY <1>10
         DEF PlayerRefused, SelfTransfer, ReplayFound, ReplayInconsistent,
             ReadInsufficient, BeginInsufficient, TransferInsufficient,
             DuplicateKey, DeadlockVictim, ConnectionLost, AtKeyLookup, Deadlocked
    <2>. QED  BY <2>1, <2>2, <2>3, AnswerOnlyType
  <1>11. CASE UNCHANGED vars
    BY <1>11 DEF vars, TypeInv, TypeOK, StepFitsOperation
  <1>. QED
    BY <1>1, <1>2, <1>3, <1>4, <1>5, <1>6, <1>7, <1>8, <1>9, <1>10, <1>11
       DEF Next, Handle, AllAnswered

\* Every variable keeps its type in every reachable state.
THEOREM TypeCorrect == Spec => []TypeOK
  <1>1. TypeInv => TypeOK
    BY DEF TypeInv
  <1>. QED
    BY TypeInit, TypeStep, <1>1, PTL DEF Spec
-----------------------------------------------------------------------------
(***************************************************************************)
(* No negative balance.                                                    *)
(***************************************************************************)
LEMMA SafeInit == Init => SafeInv
  <1> SUFFICES ASSUME Init PROVE SafeInv
    OBVIOUS
  <1>1. RowsSound
    BY OpeningSound DEF Init, RowsInit, RowsSound
  <1>2. CopiesSound
    BY EmptySound DEF Init, CopiesSound
  <1>3. CoveredCopies
    BY DEF Init, CoveredCopies
  <1>. QED
    BY <1>1, <1>2, <1>3, TypeInit DEF SafeInv

LEMMA SavedSound ==
    ASSUME SafeInv, NEW r \in Request, pc[r] = "diffed"
    PROVE  op[r].wallet \in Wallet /\ Sound(Saved(r))
  <1> DEFINE w == op[r].wallet
  <1>1. op[r] \in SingleOp
    BY DEF SafeInv, TypeInv, StepFitsOperation
  <1>2. /\ w \in Wallet
        /\ op[r].amount \in Nat
        /\ snap[r][w] \in Row /\ Sound(snap[r][w])
        /\ wallet[w] \in Row /\ Sound(wallet[w])
    BY <1>1, SingleFields
       DEF SafeInv, TypeInv, TypeOK, RowsSound, CopiesSound
  <1>3. IsDebit(r) => Covers(snap[r][w], op[r].amount)
    BY DEF SafeInv, CoveredCopies
  <1>4. Computed(r) \in Row /\ Sound(Computed(r))
    BY <1>2, <1>3, CreditedSound, DebitedSound DEF Computed
  <1>. QED
    BY <1>2, <1>4 DEF Saved, Sound, Row

\* Nothing a request does to its own position disturbs the others' checks.
LEMMA SafeFrame ==
    ASSUME SafeInv, NEW r \in Request, TypeInv', UNCHANGED <<wallet, op, snap>>,
           pc'[r] \notin {"read", "diffed"} \/ pc[r] \in {"read", "diffed"},
           \A q \in Request \ {r} : pc'[q] = pc[q]
    PROVE  SafeInv'
  BY DEF SafeInv, RowsSound, CopiesSound, CoveredCopies, IsDebit

LEMMA SafeStep == SafeInv /\ [Next]_vars => SafeInv'
  <1> SUFFICES ASSUME SafeInv, [Next]_vars
               PROVE  SafeInv'
    OBVIOUS
  <1>0. TypeInv /\ TypeInv' /\ TypeOK
    BY TypeStep DEF SafeInv, TypeInv
  <1>1. ASSUME NEW r \in Request, NEW o \in Operation, Send(r, o)
        PROVE  SafeInv'
    <2>1. RowsSound' /\ CopiesSound'
      BY <1>1 DEF Send, rowVars, SafeInv, RowsSound, CopiesSound
    <2>2. CoveredCopies'
      BY <1>0, <1>1 DEF Send, Goto, TypeOK, SafeInv, CoveredCopies, IsDebit
    <2>. QED  BY <1>0, <2>1, <2>2 DEF SafeInv
  <1>2. ASSUME NEW r \in Request, PlayerGate(r)
        PROVE  SafeInv'
    BY <1>0, <1>2, SafeFrame DEF PlayerGate, Goto, rowVars, TypeOK
  <1>3. ASSUME NEW r \in Request, ReadWallet(r)
        PROVE  SafeInv'
    <2>1. op[r] \in SingleOp
      BY <1>0, <1>3, KindDecides DEF ReadWallet, AtKeyLookup
    <2>2. op[r].wallet \in Wallet
      BY <1>0, <2>1, SingleFields
    <2>3. RowsSound'
      BY <1>3 DEF ReadWallet, rowVars, SafeInv, RowsSound
    <2>4. CopiesSound'
      BY <1>0, <1>3, <2>2 DEF ReadWallet, TypeOK, SafeInv, RowsSound, CopiesSound
    <2>5. CoveredCopies'
      BY <1>0, <1>3, <2>2
         DEF ReadWallet, Goto, TypeOK, SafeInv, CoveredCopies, IsDebit
    <2>. QED  BY <1>0, <2>3, <2>4, <2>5 DEF SafeInv
  <1>4. ASSUME NEW r \in Request, DiffWallet(r)
        PROVE  SafeInv'
    BY <1>0, <1>4, SafeFrame DEF DiffWallet, Goto, rowVars, TypeOK
  <1>5. ASSUME NEW r \in Request, CommitSingle(r)
        PROVE  SafeInv'
    <2>1. Answer(r, "ok") /\ "ok" \in Reply
      BY <1>5 DEF CommitSingle, Reply
    <2>2. RowsSound'
      BY <1>0, <1>5, SavedSound DEF CommitSingle, TypeOK, SafeInv, RowsSound
    <2>3. CopiesSound'
      BY <2>1 DEF Answer, SafeInv, CopiesSound
    <2>4. CoveredCopies'
      BY <1>0, <2>1, AnswerType DEF Answer, SafeInv, CoveredCopies, IsDebit
    <2>. QED  BY <1>0, <2>2, <2>3, <2>4 DEF SafeInv
  <1>6. ASSUME NEW r \in Request, BeginTransfer(r)
        PROVE  SafeInv'
    BY <1>0, <1>6, SafeFrame DEF BeginTransfer, Goto, rowVars, TypeOK
  <1>7. ASSUME NEW r \in Request, LockFrom(r)
        PROVE  SafeInv'
    <2>1. op[r] \in TransferOp
      BY <1>0, <1>7 DEF LockFrom, TypeInv, StepFitsOperation
    <2>2. op[r].from \in Wallet
      BY <1>0, <2>1, TransferFields
    <2>3. RowsSound'
      BY <1>7 DEF LockFrom, SafeInv, RowsSound
    <2>4. CopiesSound'
      BY <1>0, <1>7, <2>2 DEF LockFrom, TypeOK, SafeInv, RowsSound, CopiesSound
    <2>5. CoveredCopies'
      BY <1>0, <1>7, <2>2
         DEF LockFrom, Goto, TypeOK, SafeInv, CoveredCopies, IsDebit
    <2>. QED  BY <1>0, <2>3, <2>4, <2>5 DEF SafeInv
  <1>8. ASSUME NEW r \in Request, LockTo(r)
        PROVE  SafeInv'
    <2>1. op[r] \in TransferOp
      BY <1>0, <1>8 DEF LockTo, TypeInv, StepFitsOperation
    <2>2. op[r].to \in Wallet
      BY <1>0, <2>1, TransferFields
    <2>3. RowsSound'
      BY <1>8 DEF LockTo, SafeInv, RowsSound
    <2>4. CopiesSound'
      BY <1>0, <1>8, <2>2 DEF LockTo, TypeOK, SafeInv, RowsSound, CopiesSound
    <2>5. CoveredCopies'
      BY <1>0, <1>8, <2>2
         DEF LockTo, Goto, TypeOK, SafeInv, CoveredCopies, IsDebit
    <2>. QED  BY <1>0, <2>3, <2>4, <2>5 DEF SafeInv
  <1>9. ASSUME NEW r \in Request, CommitTransfer(r)
        PROVE  SafeInv'
    <2>1. Answer(r, "ok") /\ "ok" \in Reply
      BY <1>9 DEF CommitTransfer, Reply
    <2>2. op[r] \in TransferOp
      BY <1>0, <1>9 DEF CommitTransfer, TypeInv, StepFitsOperation
    <2>3. /\ op[r].from \in Wallet /\ op[r].to \in Wallet
          /\ op[r].amount \in Nat
      BY <1>0, <2>2, TransferFields
    <2>4. /\ Sound(Debited(snap[r][op[r].from], op[r].amount))
          /\ Sound(Credited(snap[r][op[r].to], op[r].amount))
      BY <1>0, <1>9, <2>3, CreditedSound, DebitedSound
         DEF CommitTransfer, TypeOK, SafeInv, CopiesSound
    <2>5. RowsSound'
      BY <1>0, <1>9, <2>3, <2>4 DEF CommitTransfer, TypeOK, SafeInv, RowsSound
    <2>6. CopiesSound'
      BY <2>1 DEF Answer, SafeInv, CopiesSound
    <2>7. CoveredCopies'
      BY <1>0, <2>1, AnswerType DEF Answer, SafeInv, CoveredCopies, IsDebit
    <2>. QED  BY <1>0, <2>5, <2>6, <2>7 DEF SafeInv
  <1>10. ASSUME NEW r \in Request,
                \/ PlayerRefused(r) \/ SelfTransfer(r) \/ ReplayFound(r)
                \/ ReplayInconsistent(r) \/ ReadInsufficient(r)
                \/ BeginInsufficient(r) \/ TransferInsufficient(r)
                \/ DuplicateKey(r) \/ DeadlockVictim(r) \/ ConnectionLost(r)
         PROVE  SafeInv'
    <2>1. PICK a \in Reply : Answer(r, a) /\ UNCHANGED wallet
      BY <1>10
         DEF PlayerRefused, SelfTransfer, ReplayFound, ReplayInconsistent,
             ReadInsufficient, BeginInsufficient, TransferInsufficient,
             DuplicateKey, DeadlockVictim, ConnectionLost, Reply
    <2>2. UNCHANGED <<wallet, op, snap>> /\ pc'[r] \notin {"read", "diffed"}
      BY <1>0, <2>1, AnswerType DEF Answer
    <2>. QED  BY <1>0, <2>1, <2>2, SafeFrame, AnswerType
  <1>11. CASE UNCHANGED vars
    BY <1>0, <1>11 DEF vars, SafeInv, RowsSound, CopiesSound, CoveredCopies, IsDebit
  <1>. QED
    BY <1>1, <1>2, <1>3, <1>4, <1>5, <1>6, <1>7, <1>8, <1>9, <1>10, <1>11
       DEF Next, Handle, AllAnswered

LEMMA SafeAlways == Spec => []SafeInv
  BY SafeInit, SafeStep, PTL DEF Spec

(***************************************************************************)
(* No wallet is ever negative, however many unlocked requests save stale   *)
(* copies of it.                                                           *)
(***************************************************************************)
THEOREM NeverNegative == Spec => []NonNegative
  <1>1. SafeInv => NonNegative
    <2> SUFFICES ASSUME SafeInv, NEW w \in Wallet
                 PROVE  /\ wallet[w].balance >= 0
                        /\ wallet[w].totalDeposited >= 0
                        /\ wallet[w].totalWithdrawn >= 0
      BY DEF NonNegative
    <2>1. Sound(wallet[w])
      BY DEF SafeInv, RowsSound
    <2>. QED
      BY <2>1 DEF Sound
  <1>. QED
    BY SafeAlways, <1>1, PTL
-----------------------------------------------------------------------------
(***************************************************************************)
(* Row locks.  LocksHeld is the converse of LockedCopiesAreFresh: a        *)
(* transfer past a FOR UPDATE does hold that row.                          *)
(***************************************************************************)
LocksHeld ==
    \A r \in Request :
        /\ pc[r] \in {"lockTo", "locked"} => lock[op[r].from] = r
        /\ pc[r] = "locked" => lock[op[r].to] = r

LockInv == TypeInv /\ LocksHeld /\ LockedCopiesAreFresh

LEMMA LockInit == Init => LockInv
  BY TypeInit, GameWalletAssumption
     DEF Init, RowsInit, LockInv, LocksHeld, LockedCopiesAreFresh

\* A step of r outside its locked section, which leaves all locks alone.
LEMMA LockFrame ==
    ASSUME LockInv, TypeInv', NEW r \in Request, UNCHANGED <<wallet, lock>>,
           pc[r] \notin {"lockTo", "locked"}, pc'[r] \notin {"lockTo", "locked"},
           \A q \in Request \ {r} : pc'[q] = pc[q] /\ op'[q] = op[q] /\ snap'[q] = snap[q]
    PROVE  LockInv'
  BY DEF LockInv, LocksHeld, LockedCopiesAreFresh

\* r ends, having changed at most rows that it held or that nobody held.
LEMMA LockEnd ==
    ASSUME LockInv, TypeInv', NEW r \in Request, NEW a \in Reply, Answer(r, a),
           \A w \in Wallet : wallet'[w] = wallet[w] \/ lock[w] \in {Free, r}
    PROVE  LockInv'
  <1>1. /\ pc'[r] = "done" /\ op' = op /\ snap' = snap
        /\ \A q \in Request \ {r} : pc'[q] = pc[q]
    BY AnswerType DEF LockInv, Answer
  <1>2. \A w \in Wallet : lock'[w] = IF lock[w] = r THEN Free ELSE lock[w]
    BY DEF Answer, Unlocked
  <1>3. r # Free
    BY GameWalletAssumption
  <1>4. LocksHeld'
    <2> SUFFICES ASSUME NEW q \in Request, pc'[q] \in {"lockTo", "locked"}
                 PROVE  /\ lock'[op'[q].from] = q
                        /\ pc'[q] = "locked" => lock'[op'[q].to] = q
      BY DEF LocksHeld
    <2>1. q # r /\ pc[q] = pc'[q] /\ op'[q] = op[q]
      BY <1>1
    <2>2. op[q] \in TransferOp
      BY <2>1 DEF LockInv, TypeInv, StepFitsOperation
    <2>3. op[q].from \in Wallet /\ op[q].to \in Wallet
      BY <2>2, TransferFields DEF LockInv
    <2>. QED
      BY <1>2, <2>1, <2>3 DEF LockInv, LocksHeld
  <1>5. LockedCopiesAreFresh'
    <2> SUFFICES ASSUME NEW w \in Wallet, NEW q \in Request, lock'[w] = q
                 PROVE  /\ \/ pc'[q] = "lockTo" /\ w = op'[q].from
                           \/ pc'[q] = "locked" /\ w \in {op'[q].from, op'[q].to}
                        /\ snap'[q][w] = wallet'[w]
      BY DEF LockedCopiesAreFresh
    <2>1. lock[w] = q /\ q # r /\ q # Free
      BY <1>2, <1>3, GameWalletAssumption
    <2>2. wallet'[w] = wallet[w]
      BY <2>1
    <2>. QED
      BY <1>1, <2>1, <2>2 DEF LockInv, LockedCopiesAreFresh
  <1>. QED
    BY <1>4, <1>5 DEF LockInv

LEMMA LockStep == LockInv /\ [Next]_vars => LockInv'
  <1> SUFFICES ASSUME LockInv, [Next]_vars
               PROVE  LockInv'
    OBVIOUS
  <1>0. TypeInv /\ TypeInv' /\ TypeOK
    BY TypeStep DEF LockInv, TypeInv
  <1>1. ASSUME NEW r \in Request, NEW o \in Operation, Send(r, o)
        PROVE  LockInv'
    BY <1>0, <1>1, LockFrame DEF Send, Goto, rowVars, TypeOK
  <1>2. ASSUME NEW r \in Request,
               PlayerGate(r) \/ ReadWallet(r) \/ DiffWallet(r) \/ BeginTransfer(r)
        PROVE  LockInv'
    <2>1. UNCHANGED <<wallet, lock, op>>
      BY <1>2 DEF PlayerGate, ReadWallet, DiffWallet, BeginTransfer, rowVars
    <2>2. pc[r] \notin {"lockTo", "locked"} /\ pc'[r] \notin {"lockTo", "locked"}
      BY <1>0, <1>2
         DEF PlayerGate, ReadWallet, DiffWallet, BeginTransfer, AtKeyLookup, Goto, TypeOK
    <2>3. \A q \in Request \ {r} : pc'[q] = pc[q] /\ snap'[q] = snap[q]
      BY <1>0, <1>2 DEF PlayerGate, ReadWallet, DiffWallet, BeginTransfer, Goto, TypeOK
    <2>. QED
      BY <1>0, <2>1, <2>2, <2>3, LockFrame
  <1>3. ASSUME NEW r \in Request, CommitSingle(r)
        PROVE  LockInv'
    <2>1. \A w \in Wallet : wallet'[w] = wallet[w] \/ lock[w] = Free
      BY <1>0, <1>3 DEF CommitSingle, TypeOK
    <2>. QED
      BY <1>0, <1>3, <2>1, LockEnd DEF CommitSingle, Reply
  <1>4. ASSUME NEW r \in Request, LockFrom(r)
        PROVE  LockInv'
    <2>1. op[r] \in TransferOp
      BY <1>4 DEF LockFrom, LockInv, TypeInv, StepFitsOperation
    <2>2. op[r].from \in Wallet
      BY <1>0, <2>1, TransferFields
    <2>3. LocksHeld'
      BY <1>0, <1>4, <2>2, GameWalletAssumption
         DEF LockFrom, LockRow, Goto, TypeOK, LockInv, LocksHeld
    <2>4. LockedCopiesAreFresh'
      BY <1>0, <1>4, <2>2, GameWalletAssumption
         DEF LockFrom, LockRow, Goto, TypeOK, LockInv, LockedCopiesAreFresh
    <2>. QED  BY <1>0, <2>3, <2>4 DEF LockInv
  <1>5. ASSUME NEW r \in Request, LockTo(r)
        PROVE  LockInv'
    <2>1. op[r] \in TransferOp
      BY <1>5 DEF LockTo, LockInv, TypeInv, StepFitsOperation
    <2>2. op[r].to \in Wallet /\ op[r].from \in Wallet
      BY <1>0, <2>1, TransferFields
    <2>3. LocksHeld'
      BY <1>0, <1>5, <2>2, GameWalletAssumption
         DEF LockTo, LockRow, Goto, TypeOK, LockInv, LocksHeld
    <2>4. LockedCopiesAreFresh'
      BY <1>0, <1>5, <2>2, GameWalletAssumption
         DEF LockTo, LockRow, Goto, TypeOK, LockInv, LockedCopiesAreFresh
    <2>. QED  BY <1>0, <2>3, <2>4 DEF LockInv
  <1>6. ASSUME NEW r \in Request, CommitTransfer(r)
        PROVE  LockInv'
    <2>1. lock[op[r].from] = r /\ lock[op[r].to] = r
      BY <1>6 DEF CommitTransfer, LockInv, LocksHeld
    <2>2. \A w \in Wallet : wallet'[w] = wallet[w] \/ lock[w] = r
      BY <1>0, <1>6, <2>1 DEF CommitTransfer, TypeOK
    <2>. QED
      BY <1>0, <1>6, <2>2, LockEnd DEF CommitTransfer, Reply
  <1>7. ASSUME NEW r \in Request,
                \/ PlayerRefused(r) \/ SelfTransfer(r) \/ ReplayFound(r)
                \/ ReplayInconsistent(r) \/ ReadInsufficient(r)
                \/ BeginInsufficient(r) \/ TransferInsufficient(r)
                \/ DuplicateKey(r) \/ DeadlockVictim(r) \/ ConnectionLost(r)
        PROVE  LockInv'
    <2>1. PICK a \in Reply : Answer(r, a) /\ UNCHANGED wallet
      BY <1>7
         DEF PlayerRefused, SelfTransfer, ReplayFound, ReplayInconsistent,
             ReadInsufficient, BeginInsufficient, TransferInsufficient,
             DuplicateKey, DeadlockVictim, ConnectionLost, Reply
    <2>. QED  BY <1>0, <2>1, LockEnd
  <1>8. CASE UNCHANGED vars
    BY <1>0, <1>8 DEF vars, LockInv, LocksHeld, LockedCopiesAreFresh
  <1>. QED
    BY <1>1, <1>2, <1>3, <1>4, <1>5, <1>6, <1>7, <1>8 DEF Next, Handle, AllAnswered

LEMMA LockAlways == Spec => []LockInv
  BY LockInit, LockStep, PTL DEF Spec

(***************************************************************************)
(* No deposit or withdrawal slips in behind a transfer's row locks.        *)
(***************************************************************************)
THEOREM LocksProtectCopies == Spec => []LockedCopiesAreFresh
  <1>1. LockInv => LockedCopiesAreFresh
    BY DEF LockInv
  <1>. QED
    BY LockAlways, <1>1, PTL
-----------------------------------------------------------------------------
(***************************************************************************)
(* What a committed transfer does to the balances.                         *)
(***************************************************************************)
Unanswered == \A r \in Request : pc[r] # "done" => reply[r] = "none"

LEMMA UnansweredInit == Init => Unanswered
  BY DEF Init, Unanswered

LEMMA UnansweredStep == TypeInv /\ Unanswered /\ [Next]_vars => Unanswered'
  <1> SUFFICES ASSUME TypeInv, Unanswered, [Next]_vars
               PROVE  Unanswered'
    OBVIOUS
  <1>1. ASSUME NEW r \in Request, NEW o \in Operation, Send(r, o)
        PROVE  Unanswered'
    BY <1>1 DEF Send, Goto, TypeInv, TypeOK, Unanswered
  <1>2. ASSUME NEW r \in Request,
               \/ PlayerGate(r) \/ ReadWallet(r) \/ DiffWallet(r)
               \/ BeginTransfer(r) \/ LockFrom(r) \/ LockTo(r)
        PROVE  Unanswered'
    <2>1. pc[r] # "done" /\ UNCHANGED reply
      BY <1>2 DEF PlayerGate, ReadWallet, DiffWallet, BeginTransfer, LockFrom, LockTo,
                  AtKeyLookup
    <2>2. \A q \in Request \ {r} : pc'[q] = pc[q]
      BY <1>2 DEF PlayerGate, ReadWallet, DiffWallet, BeginTransfer, LockFrom, LockTo,
                  Goto, TypeInv, TypeOK
    <2>. QED  BY <2>1, <2>2 DEF Unanswered
  <1>3. ASSUME NEW r \in Request, NEW a \in Reply, Answer(r, a)
        PROVE  Unanswered'
    BY <1>3 DEF Answer, Goto, TypeInv, TypeOK, Unanswered
  <1>4. ASSUME NEW r \in Request,
                \/ PlayerRefused(r) \/ SelfTransfer(r) \/ ReplayFound(r)
                \/ ReplayInconsistent(r) \/ ReadInsufficient(r)
                \/ BeginInsufficient(r) \/ TransferInsufficient(r)
                \/ DuplicateKey(r) \/ DeadlockVictim(r) \/ ConnectionLost(r)
                \/ CommitSingle(r) \/ CommitTransfer(r)
        PROVE  \E a \in Reply : Answer(r, a)
    BY <1>4
       DEF PlayerRefused, SelfTransfer, ReplayFound, ReplayInconsistent,
           ReadInsufficient, BeginInsufficient, TransferInsufficient, DuplicateKey,
           DeadlockVictim, ConnectionLost, CommitSingle, CommitTransfer, Reply
  <1>5. CASE UNCHANGED vars
    BY <1>5 DEF vars, Unanswered
  <1>. QED
    BY <1>1, <1>2, <1>3, <1>4, <1>5 DEF Next, Handle, AllAnswered

\* The two balances and the two ledger rows of a commit.
LEMMA CommitMoves ==
    ASSUME SafeInv, LockInv, NEW r \in Request, CommitTransfer(r)
    PROVE  LET f == op[r].from
               t == op[r].to
               m == Micro(op[r].amount)
           IN  /\ f \in Wallet /\ t \in Wallet /\ f # t
               /\ m \in Nat /\ m <= wallet[f].balance
               /\ op[r].amount <= wallet[f].balance
               /\ wallet[f].balance \in Nat /\ wallet[t].balance \in Nat
               /\ wallet'[f].balance = wallet[f].balance - m
               /\ wallet'[t].balance = wallet[t].balance + m
               /\ \A w \in Wallet \ {f, t} : wallet'[w] = wallet[w]
  <1> DEFINE f == op[r].from
             t == op[r].to
             m == Micro(op[r].amount)
  <1>1. op[r] \in TransferOp /\ f # t
    BY DEF CommitTransfer, LockInv, TypeInv, StepFitsOperation
  <1>2. f \in Wallet /\ t \in Wallet /\ op[r].amount \in Nat
    BY <1>1, TransferFields DEF LockInv
  <1>3. lock[f] = r /\ lock[t] = r
    BY DEF CommitTransfer, LockInv, LocksHeld
  <1>4. snap[r][f] = wallet[f] /\ snap[r][t] = wallet[t]
    BY <1>2, <1>3 DEF LockInv, LockedCopiesAreFresh
  <1>5. /\ wallet[f] \in Row /\ Sound(wallet[f])
        /\ wallet[t] \in Row /\ Sound(wallet[t])
    BY <1>2 DEF LockInv, TypeInv, TypeOK, SafeInv, RowsSound
  <1>6. Covers(wallet[f], op[r].amount)
    BY <1>4 DEF CommitTransfer
  <1>7. /\ m \in Nat
        /\ Debited(wallet[f], op[r].amount).balance = wallet[f].balance - m
        /\ Credited(wallet[t], op[r].amount).balance = wallet[t].balance + m
    BY <1>2, <1>5, <1>6, DebitedSound, CreditedSound, MicroNat
  <1>8. /\ wallet'[f] = Debited(wallet[f], op[r].amount)
        /\ wallet'[t] = Credited(wallet[t], op[r].amount)
        /\ \A w \in Wallet \ {f, t} : wallet'[w] = wallet[w]
    BY <1>1, <1>2, <1>4 DEF CommitTransfer, LockInv, TypeInv, TypeOK
  <1>9. /\ wallet[f].balance \in Nat /\ wallet[t].balance \in Nat
        /\ op[r].amount <= wallet[f].balance
    BY <1>5, <1>6 DEF Sound, Covers
  <1>10. m <= wallet[f].balance
    BY <1>2, <1>5, <1>9, MicroCovered DEF Sound
  <1>. QED
    BY <1>1, <1>2, <1>7, <1>8, <1>9, <1>10

\* Only its own commit turns a request in "locked" into an "ok".
LEMMA OnlyCommitSaysOk ==
    ASSUME TypeInv, Unanswered, [Next]_vars, NEW r \in Request,
           pc[r] = "locked", reply'[r] = "ok"
    PROVE  CommitTransfer(r)
  <1>1. reply'[r] # reply[r]
    BY DEF Unanswered
  <1>2. ASSUME NEW q \in Request, NEW a, Answer(q, a), reply'[r] # reply[r]
        PROVE  q = r /\ a = "ok"
    BY <1>2 DEF Answer, TypeInv, TypeOK
  <1>3. ASSUME NEW q \in Request, NEW o \in Operation, Send(q, o)
        PROVE  FALSE
    BY <1>1, <1>3 DEF Send
  <1>4. ASSUME NEW q \in Request,
               \/ PlayerGate(q) \/ ReadWallet(q) \/ DiffWallet(q)
               \/ BeginTransfer(q) \/ LockFrom(q) \/ LockTo(q)
        PROVE  FALSE
    BY <1>1, <1>4
       DEF PlayerGate, ReadWallet, DiffWallet, BeginTransfer, LockFrom, LockTo
  <1>5. ASSUME NEW q \in Request,
                \/ PlayerRefused(q) \/ SelfTransfer(q) \/ ReplayFound(q)
                \/ ReplayInconsistent(q) \/ ReadInsufficient(q)
                \/ BeginInsufficient(q) \/ TransferInsufficient(q)
                \/ DuplicateKey(q) \/ DeadlockVictim(q) \/ ConnectionLost(q)
        PROVE  FALSE
    <2>1. \E a \in Reply \ {"ok"} : Answer(q, a)
      BY <1>5
         DEF PlayerRefused, SelfTransfer, ReplayFound, ReplayInconsistent,
             ReadInsufficient, BeginInsufficient, TransferInsufficient, DuplicateKey,
             DeadlockVictim, ConnectionLost, Reply
    <2>. QED  BY <1>1, <1>2, <2>1
  <1>6. ASSUME NEW q \in Request, CommitSingle(q)
        PROVE  FALSE
    BY <1>1, <1>2, <1>6 DEF CommitSingle
  <1>7. ASSUME NEW q \in Request, CommitTransfer(q)
        PROVE  CommitTransfer(r)
    BY <1>1, <1>2, <1>7 DEF CommitTransfer
  <1>8. CASE UNCHANGED vars
    BY <1>1, <1>8 DEF vars
  <1>. QED
    BY <1>3, <1>4, <1>5, <1>6, <1>7, <1>8 DEF Next, Handle, AllAnswered

(***************************************************************************)
(* A transfer moves exactly its amount between current balances, whatever  *)
(* unlocked deposits and withdrawals run beside it.                        *)
(***************************************************************************)
THEOREM TransfersAreExact == Spec => TransferMovesItsAmount
  <1> DEFINE Exact ==
        \A r \in Request :
            pc[r] = "locked" /\ reply'[r] = "ok" =>
                LET f == op[r].from
                    t == op[r].to
                    m == Micro(op[r].amount)
                IN  /\ Moved(f) = -m
                    /\ Moved(t) = m
                    /\ op[r].amount <= wallet[f].balance
                    /\ \A w \in Wallet \ {f, t} : wallet'[w] = wallet[w]
  <1>1. SafeInv /\ LockInv /\ Unanswered /\ [Next]_vars => [Exact]_vars
    <2> SUFFICES ASSUME SafeInv, LockInv, Unanswered, [Next]_vars,
                        NEW r \in Request, pc[r] = "locked", reply'[r] = "ok"
                 PROVE  LET f == op[r].from
                            t == op[r].to
                            m == Micro(op[r].amount)
                        IN  /\ Moved(f) = -m
                            /\ Moved(t) = m
                            /\ op[r].amount <= wallet[f].balance
                            /\ \A w \in Wallet \ {f, t} : wallet'[w] = wallet[w]
      OBVIOUS
    <2>1. CommitTransfer(r)
      BY OnlyCommitSaysOk DEF LockInv
    <2>. QED
      BY <2>1, CommitMoves DEF Moved
  <1>2. LockInv => TypeInv
    BY DEF LockInv
  <1>. QED
    BY <1>1, <1>2, SafeAlways, LockAlways, UnansweredInit, UnansweredStep, PTL
       DEF Spec, TransferMovesItsAmount
-----------------------------------------------------------------------------
(***************************************************************************)
(* Which steps write the rows, and with which keys.                        *)
(***************************************************************************)
LEMMA RowWriters ==
    ASSUME TypeInv, [Next]_vars
    PROVE  \/ UNCHANGED <<wallet, ledger>>
           \/ \E r \in Request : CommitSingle(r) \/ CommitTransfer(r)
  <1>1. ASSUME NEW r \in Request, NEW o \in Operation, Send(r, o)
        PROVE  UNCHANGED <<wallet, ledger>>
    BY <1>1 DEF Send, rowVars
  <1>2. ASSUME NEW r \in Request,
                \/ PlayerGate(r) \/ ReadWallet(r) \/ DiffWallet(r)
                \/ BeginTransfer(r) \/ LockFrom(r) \/ LockTo(r)
                \/ PlayerRefused(r) \/ SelfTransfer(r) \/ ReplayFound(r)
                \/ ReplayInconsistent(r) \/ ReadInsufficient(r)
                \/ BeginInsufficient(r) \/ TransferInsufficient(r)
                \/ DuplicateKey(r) \/ DeadlockVictim(r) \/ ConnectionLost(r)
        PROVE  UNCHANGED <<wallet, ledger>>
    BY <1>2
       DEF PlayerGate, ReadWallet, DiffWallet, BeginTransfer, LockFrom, LockTo,
           PlayerRefused, SelfTransfer, ReplayFound, ReplayInconsistent,
           ReadInsufficient, BeginInsufficient, TransferInsufficient, DuplicateKey,
           DeadlockVictim, ConnectionLost, rowVars
  <1>3. CASE UNCHANGED vars
    BY <1>3 DEF vars
  <1>. QED
    BY <1>1, <1>2, <1>3 DEF Next, Handle, AllAnswered

NewEntries(r) == IF IsTransfer(r) THEN TransferEntries(r) ELSE {SingleEntry(r)}

\* The new rows of a commit carry distinct keys that nobody had used.
LEMMA FreshKeys ==
    ASSUME TypeInv, NEW r \in Request, CommitSingle(r) \/ CommitTransfer(r)
    PROVE  /\ ledger' = ledger \cup NewEntries(r)
           /\ \A e \in NewEntries(r) : e.operationKey \notin UsedKeys
           /\ \A e, f \in NewEntries(r) :
                 e.operationKey # NoKey /\ e.operationKey = f.operationKey => e = f
  <1>1. CASE CommitSingle(r)
    <2>1. op[r] \in SingleOp
      BY <1>1 DEF CommitSingle, TypeInv, StepFitsOperation
    <2>2. SingleEntry(r).operationKey = op[r].key
      BY EntryFields DEF SingleEntry
    <2>3. ~IsTransfer(r)
      BY <2>1, SingleFields
    <2>4. op[r].key \notin UsedKeys
      BY <1>1, <2>3 DEF CommitSingle, KeysOf, IsTransfer, UsedKeys
    <2>. QED
      BY <1>1, <2>2, <2>3, <2>4 DEF CommitSingle, NewEntries
  <1>2. CASE CommitTransfer(r)
    <2> DEFINE d == Entry(r, op[r].from, "transfer", "out", op[r].amount, LegKey(op[r], "debit"))
               c == Entry(r, op[r].to, "transfer", "in", op[r].amount, LegKey(op[r], "credit"))
    <2>1. op[r] \in TransferOp
      BY <1>2 DEF CommitTransfer, TypeInv, StepFitsOperation
    <2>2. IsTransfer(r) /\ op[r].key \in Key \cup {NoKey}
      BY <2>1, TransferFields
    <2>3. /\ d.operationKey = LegKey(op[r], "debit")
          /\ c.operationKey = LegKey(op[r], "credit")
      BY EntryFields
    <2>4. d.operationKey \notin UsedKeys /\ c.operationKey \notin UsedKeys
      BY <1>2, <2>2, <2>3 DEF CommitTransfer, KeysOf, IsTransfer, LegKey, UsedKeys
    <2>5. d.operationKey # NoKey => d.operationKey # c.operationKey
      BY <2>3 DEF LegKey
    <2>6. ledger' = ledger \cup {d, c} /\ NewEntries(r) = {d, c}
      BY <1>2, <2>2 DEF CommitTransfer, TransferEntries, NewEntries
    <2> HIDE DEF d, c
    <2>. QED
      BY <2>4, <2>5, <2>6
  <1>. QED  BY <1>1, <1>2

(***************************************************************************)
(* Retries are safe: at most one request's rows carry a given key.         *)
(***************************************************************************)
THEOREM KeysApplyOnce == Spec => []KeyAppliedOnce
  <1>1. Init => KeyAppliedOnce
    BY DEF Init, RowsInit, KeyAppliedOnce
  <1>2. TypeInv /\ KeyAppliedOnce /\ [Next]_vars => KeyAppliedOnce'
    <2> SUFFICES ASSUME TypeInv, KeyAppliedOnce, [Next]_vars
                 PROVE  KeyAppliedOnce'
      OBVIOUS
    <2>1. CASE UNCHANGED <<wallet, ledger>>
      BY <2>1 DEF KeyAppliedOnce
    <2>2. ASSUME NEW r \in Request, CommitSingle(r) \/ CommitTransfer(r)
          PROVE  KeyAppliedOnce'
      <3>1. /\ ledger' = ledger \cup NewEntries(r)
            /\ \A e \in NewEntries(r) : e.operationKey \notin UsedKeys
            /\ \A e, f \in NewEntries(r) :
                  e.operationKey # NoKey /\ e.operationKey = f.operationKey => e = f
        BY <2>2, FreshKeys
      <3> SUFFICES ASSUME NEW e \in ledger', NEW f \in ledger',
                          e.operationKey # NoKey, e.operationKey = f.operationKey
                   PROVE  e = f
        BY DEF KeyAppliedOnce
      <3>2. \A g \in ledger : g.operationKey # NoKey => g.operationKey \in UsedKeys
        BY DEF UsedKeys
      <3>. QED  BY <3>1, <3>2 DEF KeyAppliedOnce
    <2>. QED  BY <2>1, <2>2, RowWriters
  <1>3. LockInv => TypeInv
    BY DEF LockInv
  <1>. QED
    BY <1>1, <1>2, <1>3, LockAlways, PTL DEF Spec
-----------------------------------------------------------------------------
(***************************************************************************)
(* Answers.  A request is answered once, with its operation settled: what  *)
(* an answer promised stays promised.  AnswersBacked is the invariant      *)
(* behind SuccessIsApplied: the ledger and the answers "ok" name each      *)
(* other, a row carries a key of the operation it was written for, and who *)
(* was told "replayed" has a key in the ledger.                            *)
(***************************************************************************)
OkIsPosted == \A r \in Request : reply[r] = "ok" => \E e \in ledger : e.by = r

PostedIsOk ==
    \A e \in ledger :
        /\ reply[e.by] = "ok"
        /\ e.operationKey # NoKey => e.operationKey \in KeysOf(op[e.by])

ReplayHasKey ==
    \A r \in Request : reply[r] = "replayed" => KeysOf(op[r]) \cap UsedKeys # {}

AnswersBacked == OkIsPosted /\ PostedIsOk /\ ReplayHasKey

\* The four kinds of step: no answer, a refusal, a replay, a commit.
LEMMA StepKinds ==
    ASSUME TypeInv, [Next]_vars
    PROVE  \/ /\ UNCHANGED <<ledger, reply>>
              /\ \A q \in Request : pc[q] # "idle" => op'[q] = op[q]
           \/ \E r \in Request :
                 /\ pc[r] # "done"
                 /\ \/ UNCHANGED ledger /\ \E a \in Reply \ {"ok", "replayed"} : Answer(r, a)
                    \/ /\ UNCHANGED ledger
                       /\ Answer(r, "replayed")
                       /\ KeysOf(op[r]) \cap UsedKeys # {}
                    \/ CommitSingle(r) \/ CommitTransfer(r)
  <1>1. ASSUME NEW r \in Request, NEW o \in Operation, Send(r, o)
        PROVE  /\ UNCHANGED <<ledger, reply>>
               /\ \A q \in Request : pc[q] # "idle" => op'[q] = op[q]
    BY <1>1 DEF Send, rowVars, TypeInv, TypeOK
  <1>2. ASSUME NEW r \in Request,
                \/ PlayerGate(r) \/ ReadWallet(r) \/ DiffWallet(r)
                \/ BeginTransfer(r) \/ LockFrom(r) \/ LockTo(r)
        PROVE  UNCHANGED <<ledger, reply, op>>
    BY <1>2 DEF PlayerGate, ReadWallet, DiffWallet, BeginTransfer, LockFrom, LockTo, rowVars
  <1>3. ASSUME NEW r \in Request,
                \/ PlayerRefused(r) \/ SelfTransfer(r) \/ ReplayInconsistent(r)
                \/ ReadInsufficient(r) \/ BeginInsufficient(r) \/ TransferInsufficient(r)
                \/ ConnectionLost(r)
        PROVE  /\ pc[r] # "done"
               /\ UNCHANGED ledger
               /\ \E a \in Reply \ {"ok", "replayed"} : Answer(r, a)
    BY <1>3
       DEF PlayerRefused, SelfTransfer, ReplayInconsistent, ReadInsufficient,
           BeginInsufficient, TransferInsufficient, ConnectionLost, AtKeyLookup, Reply
  <1>4. ASSUME NEW r \in Request, DeadlockVictim(r)
        PROVE  /\ pc[r] # "done"
               /\ UNCHANGED ledger
               /\ \E a \in Reply \ {"ok", "replayed"} : Answer(r, a)
    BY <1>4 DEF DeadlockVictim, Deadlocked, Reply
  <1>5. ASSUME NEW r \in Request, ReplayFound(r) \/ DuplicateKey(r)
        PROVE  /\ pc[r] # "done"
               /\ UNCHANGED ledger
               /\ Answer(r, "replayed")
               /\ KeysOf(op[r]) \cap UsedKeys # {}
    BY <1>5 DEF ReplayFound, DuplicateKey, AtKeyLookup
  <1>6. ASSUME NEW r \in Request, CommitSingle(r) \/ CommitTransfer(r)
        PROVE  pc[r] # "done"
    BY <1>6 DEF CommitSingle, CommitTransfer
  <1>7. CASE UNCHANGED vars
    BY <1>7 DEF vars
  <1>. QED
    BY <1>1, <1>2, <1>3, <1>4, <1>5, <1>6, <1>7 DEF Next, Handle, AllAnswered

\* The new rows of a commit are the request's own and carry its keys.
LEMMA OwnKeys ==
    ASSUME TypeInv, NEW r \in Request, CommitSingle(r) \/ CommitTransfer(r)
    PROVE  /\ \A e \in NewEntries(r) : e.by = r
           /\ \A e \in NewEntries(r) : e.operationKey # NoKey => e.operationKey \in KeysOf(op[r])
           /\ \E e \in NewEntries(r) : TRUE
  <1>1. IsTransfer(r) \/ ~IsTransfer(r)
    OBVIOUS
  <1>2. CASE IsTransfer(r)
    BY <1>2, EntryFields DEF NewEntries, TransferEntries, LegKey, KeysOf, IsTransfer
  <1>3. CASE ~IsTransfer(r)
    BY <1>3, EntryFields DEF NewEntries, SingleEntry, KeysOf, IsTransfer
  <1>. QED  BY <1>1, <1>2, <1>3

LEMMA BackedInit == Init => AnswersBacked
  BY DEF Init, RowsInit, AnswersBacked, OkIsPosted, PostedIsOk, ReplayHasKey

LEMMA BackedStep ==
    TypeInv /\ Unanswered /\ AnswersBacked /\ [Next]_vars => AnswersBacked'
  <1> SUFFICES ASSUME TypeInv, Unanswered, AnswersBacked, [Next]_vars
               PROVE  AnswersBacked'
    OBVIOUS
  <1> USE DEF AnswersBacked, OkIsPosted, PostedIsOk, ReplayHasKey
  <1>1. \A e \in ledger : e.by \in Request /\ pc[e.by] = "done"
    BY DEF TypeInv, TypeOK, Unanswered
  <1>2. \A q \in Request : reply[q] # "none" => pc[q] = "done"
    BY DEF Unanswered
  <1>3. CASE /\ UNCHANGED <<ledger, reply>>
             /\ \A q \in Request : pc[q] # "idle" => op'[q] = op[q]
    <2>1. \A q \in Request : reply[q] # "none" => op'[q] = op[q]
      BY <1>2, <1>3
    <2>2. \A q \in Request : reply[q] # "none" => KeysOf(op'[q]) = KeysOf(op[q])
      BY <2>1
    <2>3. OkIsPosted'
      BY <1>3
    <2>4. PostedIsOk'
      BY <1>1, <1>3, <2>2
    <2>5. ReplayHasKey'
      BY <1>3, <2>2 DEF UsedKeys
    <2>. QED  BY <2>3, <2>4, <2>5
  <1>4. ASSUME NEW r \in Request, pc[r] # "done", UNCHANGED ledger,
               NEW a \in Reply \ {"ok"}, Answer(r, a),
               a = "replayed" => KeysOf(op[r]) \cap UsedKeys # {}
        PROVE  AnswersBacked'
    <2>1. op' = op /\ reply' = [reply EXCEPT ![r] = a] /\ reply \in [Request -> Reply]
      BY <1>4 DEF Answer, TypeInv, TypeOK
    <2>. QED  BY <1>1, <1>4, <2>1 DEF UsedKeys, KeysOf
  <1>5. ASSUME NEW r \in Request, pc[r] # "done", CommitSingle(r) \/ CommitTransfer(r)
        PROVE  AnswersBacked'
    <2>1. /\ op' = op
          /\ reply' = [reply EXCEPT ![r] = "ok"]
          /\ reply \in [Request -> Reply]
      BY <1>5 DEF CommitSingle, CommitTransfer, Answer, TypeInv, TypeOK
    <2>2. ledger' = ledger \cup NewEntries(r)
      BY <1>5, FreshKeys
    <2>3. UsedKeys \subseteq UsedKeys'
      BY <2>2 DEF UsedKeys
    <2>4. OkIsPosted'
      BY <2>1, <2>2, <1>5, OwnKeys
    <2>5. PostedIsOk'
      BY <2>1, <2>2, <1>1, <1>5, OwnKeys DEF KeysOf
    <2>6. ReplayHasKey'
      BY <2>1, <2>3 DEF KeysOf
    <2>. QED  BY <2>4, <2>5, <2>6
  <1>6. ASSUME NEW r \in Request, pc[r] # "done", UNCHANGED ledger,
               NEW a \in Reply \ {"ok", "replayed"}, Answer(r, a)
        PROVE  AnswersBacked'
    BY <1>4, <1>6
  <1>7. ASSUME NEW r \in Request, pc[r] # "done", UNCHANGED ledger,
               Answer(r, "replayed"), KeysOf(op[r]) \cap UsedKeys # {}
        PROVE  AnswersBacked'
    BY <1>4, <1>7 DEF Reply
  <1>. QED
    BY <1>3, <1>5, <1>6, <1>7, StepKinds

(***************************************************************************)
(* A success is a success: "ok" has its rows in the ledger, and when       *)
(* clients use a key for one operation only, a replay answers for a        *)
(* committed request for the very same operation.                          *)
(***************************************************************************)
THEOREM AnswersAreTrue == Spec => []SuccessIsApplied
  <1>1. TypeInv /\ Unanswered /\ AnswersBacked => SuccessIsApplied
    <2> SUFFICES ASSUME TypeInv, Unanswered, AnswersBacked,
                        NEW r \in Request, reply[r] = "replayed", KeysNameOneOperation
                 PROVE  \E e \in ledger : reply[e.by] = "ok" /\ op[e.by] = op[r]
      BY DEF AnswersBacked, OkIsPosted, SuccessIsApplied
    <2>1. PICK e \in ledger : e.operationKey # NoKey /\ e.operationKey \in KeysOf(op[r])
      BY DEF AnswersBacked, ReplayHasKey, UsedKeys
    <2>2. /\ e.by \in Request /\ reply[e.by] = "ok"
          /\ e.operationKey \in KeysOf(op[e.by])
      BY <2>1 DEF AnswersBacked, PostedIsOk, TypeInv, TypeOK
    <2>3. op[r] # NoOp /\ op[e.by] # NoOp
      BY <2>2, WalletLedgerAssumption DEF TypeInv, StepFitsOperation, Unanswered
    <2>4. op[e.by] = op[r]
      BY <2>1, <2>2, <2>3 DEF KeysNameOneOperation
    <2>. QED  BY <2>2, <2>4
  <1>2. LockInv => TypeInv
    BY DEF LockInv
  <1>. QED
    BY <1>1, <1>2, BackedInit, BackedStep, LockAlways, UnansweredInit, UnansweredStep, PTL
       DEF Spec
-----------------------------------------------------------------------------
(***************************************************************************)
(* Refinement: transfers implement the atomic book.                        *)
(***************************************************************************)
LEMMA BookInit == Init => Book!Init
  BY DEF Init, RowsInit, OpeningRow, UsedKeys, Book!Init

\* A request that is still running has no row in the ledger.
Unposted == \A r \in Request : pc[r] # "done" => \A e \in ledger : e.by # r

LEMMA PositionsOnlyAdvance ==
    ASSUME TypeInv, [Next]_vars, NEW q \in Request, pc[q] = "done"
    PROVE  pc'[q] = "done"
  <1>1. ASSUME NEW r \in Request, NEW o \in Operation, Send(r, o)
        PROVE  pc'[q] = "done"
    BY <1>1 DEF Send, Goto, TypeInv, TypeOK
  <1>2. ASSUME NEW r \in Request,
               \/ PlayerGate(r) \/ ReadWallet(r) \/ DiffWallet(r)
               \/ BeginTransfer(r) \/ LockFrom(r) \/ LockTo(r)
        PROVE  pc'[q] = "done"
    BY <1>2 DEF PlayerGate, ReadWallet, DiffWallet, BeginTransfer, LockFrom, LockTo,
                AtKeyLookup, Goto, TypeInv, TypeOK
  <1>3. ASSUME NEW r \in Request, NEW a \in Reply, Answer(r, a)
        PROVE  pc'[q] = "done"
    BY <1>3 DEF Answer, Goto, TypeInv, TypeOK
  <1>4. ASSUME NEW r \in Request,
                \/ PlayerRefused(r) \/ SelfTransfer(r) \/ ReplayFound(r)
                \/ ReplayInconsistent(r) \/ ReadInsufficient(r)
                \/ BeginInsufficient(r) \/ TransferInsufficient(r)
                \/ DuplicateKey(r) \/ DeadlockVictim(r) \/ ConnectionLost(r)
                \/ CommitSingle(r) \/ CommitTransfer(r)
        PROVE  \E a \in Reply : Answer(r, a)
    BY <1>4
       DEF PlayerRefused, SelfTransfer, ReplayFound, ReplayInconsistent,
           ReadInsufficient, BeginInsufficient, TransferInsufficient, DuplicateKey,
           DeadlockVictim, ConnectionLost, CommitSingle, CommitTransfer, Reply
  <1>5. CASE UNCHANGED vars
    BY <1>5 DEF vars
  <1>. QED
    BY <1>1, <1>2, <1>3, <1>4, <1>5 DEF Next, Handle, AllAnswered

LEMMA UnpostedInit == Init => Unposted
  BY DEF Init, RowsInit, Unposted

LEMMA UnpostedStep == TypeInv /\ Unposted /\ [Next]_vars => Unposted'
  <1> SUFFICES ASSUME TypeInv, Unposted, [Next]_vars,
                      NEW q \in Request, pc'[q] # "done", NEW e \in ledger'
               PROVE  e.by # q
    BY DEF Unposted
  <1>1. pc[q] # "done"
    BY PositionsOnlyAdvance
  <1>2. CASE UNCHANGED <<wallet, ledger>>
    BY <1>1, <1>2 DEF Unposted
  <1>3. ASSUME NEW r \in Request, CommitSingle(r) \/ CommitTransfer(r)
        PROVE  e.by # q
    <2>1. pc'[r] = "done"
      BY <1>3 DEF CommitSingle, CommitTransfer, Answer, Goto, TypeInv, TypeOK
    <2>2. \A f \in NewEntries(r) : f.by = r
      BY EntryFields DEF NewEntries, SingleEntry, TransferEntries
    <2>3. ledger' = ledger \cup NewEntries(r)
      BY <1>3, FreshKeys
    <2>. QED  BY <1>1, <2>1, <2>2, <2>3 DEF Unposted
  <1>. QED  BY <1>2, <1>3, RowWriters

\* A committed transfer pays its rounded amount in the book.
LEMMA CommitPays ==
    ASSUME SafeInv, LockInv, Unposted, NEW r \in Request, CommitTransfer(r)
    PROVE  Book!Next
  <1> DEFINE f == op[r].from
             t == op[r].to
             m == Micro(op[r].amount)
             k == op[r].key
             balance == [w \in Wallet |-> wallet[w].balance]
             paid == {j \in Key : <<j, "debit">> \in UsedKeys}
             posted == {[by |-> e.by, wallet |-> e.wallet, change |-> Posted(e)] : e \in ledger}
             pd == [by |-> r, wallet |-> f, change |-> -m]
             pc1 == [by |-> r, wallet |-> t, change |-> m]
  <1>1. /\ op[r] \in TransferOp
        /\ TypeOK
    BY DEF CommitTransfer, LockInv, TypeInv, StepFitsOperation
  <1>2. k \in Key \cup {NoKey} /\ IsTransfer(r)
    BY <1>1, TransferFields DEF LockInv
  <1>3. /\ f \in Wallet /\ t \in Wallet /\ f # t
        /\ m <= wallet[f].balance
        /\ balance' = [balance EXCEPT ![f] = @ - m, ![t] = @ + m]
    <2>1. /\ f \in Wallet /\ t \in Wallet /\ f # t
          /\ m \in Nat /\ m <= wallet[f].balance
          /\ wallet[f].balance \in Nat /\ wallet[t].balance \in Nat
          /\ wallet'[f].balance = wallet[f].balance - m
          /\ wallet'[t].balance = wallet[t].balance + m
          /\ \A w \in Wallet \ {f, t} : wallet'[w] = wallet[w]
      BY CommitMoves
    <2>2. \A w \in Wallet : balance[w] = wallet[w].balance /\ balance'[w] = wallet'[w].balance
      OBVIOUS
    <2> HIDE DEF f, t, m
    <2>4. /\ balance = [w \in Wallet |-> balance[w]]
          /\ balance' = [w \in Wallet |-> balance'[w]]
          /\ balance'[f] = balance[f] - m
          /\ balance'[t] = balance[t] + m
          /\ \A w \in Wallet \ {f, t} : balance'[w] = balance[w]
      BY <2>1, <2>2
    <2>5. balance' = [balance EXCEPT ![f] = balance[f] - m, ![t] = balance[t] + m]
      <3> HIDE DEF balance
      <3>. QED  BY <2>1, <2>4, PairUpdate
    <2>. QED  BY <2>1, <2>5
  <1>4. ledger' = ledger \cup TransferEntries(r)
    BY DEF CommitTransfer
  <1>5. UsedKeys' = UsedKeys \cup ({LegKey(op[r], "debit"), LegKey(op[r], "credit")} \ {NoKey})
    BY <1>4, EntryFields DEF UsedKeys, TransferEntries
  <1>6. k \notin paid
    BY <1>2, GameWalletAssumption DEF CommitTransfer, KeysOf, IsTransfer
  <1>7. paid' = paid \cup ({k} \ {NoKey})
    <2>1. CASE k = NoKey
      BY <1>5, <2>1 DEF LegKey
    <2>2. CASE k \in Key /\ k # NoKey
      BY <1>5, <2>2, GameWalletAssumption DEF LegKey
    <2>. QED  BY <1>2, <2>1, <2>2
  <1>8. m \in {Micro(a) : a \in Amount} /\ m <= balance[f]
    BY <1>1, <1>3, TransferFields DEF LockInv
  <1>9. posted' = posted \cup {pd, pc1}
    <2> DEFINE d == Entry(r, f, "transfer", "out", op[r].amount, LegKey(op[r], "debit"))
               c == Entry(r, t, "transfer", "in", op[r].amount, LegKey(op[r], "credit"))
               Post(e) == [by |-> e.by, wallet |-> e.wallet, change |-> Posted(e)]
    <2>1. Post(d) = pd /\ Post(c) = pc1
      BY EntryFields DEF Posted
    <2>2. ledger' = ledger \cup {d, c}
      BY <1>4 DEF TransferEntries
    <2>3. posted = {Post(e) : e \in ledger} /\ posted' = {Post(e) : e \in ledger'}
      BY DEF Posted
    <2> HIDE DEF d, c, Post, pd, pc1, posted
    <2>. QED  BY <2>1, <2>2, <2>3
  <1>10. \A p \in posted : p.by # r
    BY DEF CommitTransfer, Unposted
  <1> HIDE DEF f, t, m, k, balance, paid, posted
  <1>11. PICK j \in Key \cup {NoKey} : j = k
    BY <1>2
  <1> USE DEF balance, paid, posted
  <1>12. Book!Pay(r, f, t, m, j)
    BY <1>3, <1>6, <1>7, <1>8, <1>9, <1>10, <1>11 DEF Book!Pay, Book!Use, Book!Posting
  <1>. QED
    BY <1>3, <1>8, <1>12 DEF Book!Next

\* When only transfers are asked for, nothing but their commits moves money.
LEMMA BookStep ==
    ASSUME Operation \subseteq TransferOp, SafeInv, LockInv, Unposted, [Next]_vars
    PROVE  [Book!Next]_(Book!vars)
  <1>1. ASSUME NEW r \in Request, CommitSingle(r)
        PROVE  FALSE
    <2>1. op[r] \in SingleOp /\ op[r] \in Operation
      BY <1>1 DEF CommitSingle, LockInv, TypeInv, StepFitsOperation
    <2>2. op[r] \in TransferOp
      BY <2>1
    <2>. QED  BY <2>1, <2>2, SingleFields, TransferFields DEF LockInv
  <1>2. CASE \E r \in Request : CommitTransfer(r)
    BY <1>2, CommitPays
  <1>3. CASE UNCHANGED <<wallet, ledger>>
    BY <1>3 DEF Book!vars, UsedKeys
  <1>4. \/ UNCHANGED <<wallet, ledger>>
        \/ \E r \in Request : CommitSingle(r) \/ CommitTransfer(r)
    BY RowWriters DEF LockInv
  <1>. QED  BY <1>1, <1>2, <1>3, <1>4

(***************************************************************************)
(* Transfers alone behave as if each took effect at once.                  *)
(***************************************************************************)
THEOREM TransfersRefineBook ==
    ASSUME Operation \subseteq TransferOp
    PROVE  Spec => TransfersImplementBook
  <1>1. SafeInv /\ LockInv /\ Unposted /\ [Next]_vars => [Book!Next]_(Book!vars)
    BY BookStep
  <1>2. LockInv => TypeInv
    BY DEF LockInv
  <1>. QED
    BY <1>1, <1>2, BookInit, SafeAlways, LockAlways, UnpostedInit, UnpostedStep, PTL
       DEF Spec, TransfersImplementBook, Book!Spec
-----------------------------------------------------------------------------
(***************************************************************************)
(* Waiting.  However many requests clients may send, only finitely many    *)
(* are sent at any time, so chains of waits end.                           *)
(***************************************************************************)
Sent == {r \in Request : pc[r] # "idle"}

FewSent == IsFiniteSet(Sent)

LEMMA FewSentStep == TypeInv /\ FewSent /\ [Next]_vars => FewSent'
<1>. SUFFICES ASSUME TypeInv, FewSent, [Next]_vars PROVE FewSent'
  OBVIOUS
<1>1. ASSUME NEW r \in Request, NEW o \in Operation, Send(r, o) PROVE FewSent'
  <2>1. Sent' \subseteq Sent \cup {r}
    BY <1>1 DEF Send, Goto, Sent, TypeInv, TypeOK
  <2>2. IsFiniteSet(Sent \cup {r})
    BY FS_AddElement DEF FewSent
  <2>. QED
    BY <2>1, <2>2, FS_Subset DEF FewSent
<1>2. ASSUME NEW r \in Request, Handle(r) \/ ConnectionLost(r) PROVE FewSent'
  <2>1. ASSUME \/ PlayerGate(r) \/ ReadWallet(r) \/ DiffWallet(r)
               \/ BeginTransfer(r) \/ LockFrom(r) \/ LockTo(r)
        PROVE  Sent' \subseteq Sent
    BY <2>1 DEF PlayerGate, ReadWallet, DiffWallet, BeginTransfer, LockFrom, LockTo,
                AtKeyLookup, Goto, Sent, TypeInv, TypeOK
  <2>2. ASSUME \/ PlayerRefused(r) \/ SelfTransfer(r) \/ ReplayFound(r)
               \/ ReplayInconsistent(r) \/ ReadInsufficient(r)
               \/ BeginInsufficient(r) \/ TransferInsufficient(r)
               \/ DuplicateKey(r) \/ DeadlockVictim(r) \/ ConnectionLost(r)
               \/ CommitSingle(r) \/ CommitTransfer(r)
        PROVE  Sent' \subseteq Sent
    BY <2>2
       DEF PlayerRefused, SelfTransfer, ReplayFound, ReplayInconsistent,
           ReadInsufficient, BeginInsufficient, TransferInsufficient, DuplicateKey,
           DeadlockVictim, ConnectionLost, CommitSingle, CommitTransfer, Answer,
           AtKeyLookup, Deadlocked, Goto, Sent, TypeInv, TypeOK
  <2>3. Sent' \subseteq Sent
    BY <1>2, <2>1, <2>2 DEF Handle
  <2>. QED
    BY <2>3, FS_Subset DEF FewSent
<1>3. CASE UNCHANGED vars
  BY <1>3 DEF vars, FewSent, Sent
<1>. QED
  BY <1>1, <1>2, <1>3 DEF Next, AllAnswered

\* Who has to wait for a row waits for a transfer past its first lock.
LEMMA HoldersTransfer ==
    ASSUME LockInv, NEW w \in Wallet, lock[w] # Free
    PROVE  /\ lock[w] \in Request
           /\ pc[lock[w]] \in {"lockTo", "locked"}
  BY DEF LockInv, TypeInv, TypeOK, LockedCopiesAreFresh

LEMMA OneCanGoOn == LockInv /\ FewSent => SomebodyCanGoOn
<1>. SUFFICES ASSUME LockInv, FewSent, NEW r \in Request, UnderWay(r),
                     \A q \in Request : ~CanGoOn(q)
              PROVE  FALSE
  BY DEF SomebodyCanGoOn
<1>. DEFINE W == {q \in Request : pc[q] = "lockTo"}
            for == [q \in W |-> lock[op[q].to]]
<1>1. \A w \in Wallet : lock[w] # Free => lock[w] \in W
  BY HoldersTransfer DEF CanGoOn
<1>2. \A q \in W : op[q].to \in Wallet /\ lock[op[q].to] # Free
  BY TransferFields DEF CanGoOn, LockInv, TypeInv, StepFitsOperation
<1>3. W # {}
  <2>1. CASE pc[r] = "diffed"
    <3>1. op[r].wallet \in Wallet /\ lock[op[r].wallet] # Free
      BY <2>1, SingleFields DEF CanGoOn, LockInv, TypeInv, StepFitsOperation
    <3>. QED
      BY <1>1, <3>1
  <2>2. CASE pc[r] = "lockFrom"
    <3>1. op[r].from \in Wallet /\ lock[op[r].from] # Free
      BY <2>2, TransferFields DEF CanGoOn, LockInv, TypeInv, StepFitsOperation
    <3>. QED
      BY <1>1, <3>1
  <2>3. CASE pc[r] = "lockTo"
    BY <2>3
  <2>4. pc[r] \in {"diffed", "lockFrom", "lockTo"}
    BY DEF UnderWay, CanGoOn, LockInv, TypeInv, TypeOK, Step
  <2>. QED
    BY <2>1, <2>2, <2>3, <2>4
<1>4. IsFiniteSet(W)
  <2>1. W \subseteq Sent
    BY DEF Sent
  <2>. QED
    BY <2>1, FS_Subset DEF FewSent
<1>5. for \in [W -> W]
  BY <1>1, <1>2
<1>6. PICK S \in SUBSET W :
        S # {} /\ \A p \in W : p \in S <=> \E q \in S : p = for[q]
  <2>. HIDE DEF W, for
  <2>. QED
    BY <1>3, <1>4, <1>5, CircleOfWaits
<1>7. {lock[op[q].to] : q \in S} = S
  <2>1. \A q \in S : lock[op[q].to] \in W
    BY <1>1, <1>2
  <2>. QED
    BY <1>6, <2>1
<1>8. Deadlocked(S)
  BY <1>7 DEF Deadlocked
<1>. QED
  BY <1>6, <1>8 DEF CanGoOn

(***************************************************************************)
(* Transfers lock the sender before the recipient, in no common order;     *)
(* still no number of requests ever wait for one another for good, for a   *)
(* wait that is not in a circle ends with somebody who can go on.          *)
(***************************************************************************)
THEOREM NeverAtAStandstill == Spec => []SomebodyCanGoOn
<1>1. Init => FewSent
  <2>1. Init => Sent = {}
    BY DEF Init, Sent
  <2>. QED
    BY <2>1, FS_EmptySet DEF FewSent
<1>2. LockInv => TypeInv
  BY DEF LockInv
<1>. QED
  BY <1>1, <1>2, LockAlways, FewSentStep, OneCanGoOn, PTL DEF Spec
=============================================================================
