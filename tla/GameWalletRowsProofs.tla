------------------------- MODULE GameWalletRowsProofs -------------------------
(***************************************************************************)
(* Facts about the operators of GameWalletRows, cited by the proofs about  *)
(* the services that share those rows.                                     *)
(***************************************************************************)
EXTENDS GameWalletRows, FiniteSetTheorems, WellFoundedInduction, TLAPS

\* A row is a multiple of a micro-unit and not negative.
Sound(row) ==
    /\ row.balance \in Nat
    /\ row.balance % 100 = 0
    /\ row.totalDeposited \in Nat
    /\ row.totalWithdrawn \in Nat

RowsSound == \A w \in Wallet : Sound(wallet[w])

(***************************************************************************)
(* Arithmetic of safe-math.ts.                                             *)
(***************************************************************************)
LEMMA MicroNat ==
    ASSUME NEW x \in Nat
    PROVE  Micro(x) \in Nat /\ Micro(x) % 100 = 0
  BY DEF Micro

\* Rounding never takes an amount past a balance that covers it.
LEMMA MicroCovered ==
    ASSUME NEW a \in Nat, NEW b \in Nat, b % 100 = 0, a <= b
    PROVE  Micro(b) = b /\ Micro(a) <= b
  BY DEF Micro

LEMMA MicroMultiple ==
    ASSUME NEW b \in Nat, b % 100 = 0
    PROVE  Micro(b) = b
  BY DEF Micro

\* A credit keeps the row sound and adds the rounded amount.
LEMMA CreditedSound ==
    ASSUME NEW row \in Row, Sound(row), NEW a \in Nat
    PROVE  /\ Credited(row, a) \in Row
           /\ Sound(Credited(row, a))
           /\ Credited(row, a).balance = row.balance + Micro(a)
           /\ Credited(row, a).totalWithdrawn = row.totalWithdrawn
  <1>1. /\ Micro(a) \in Nat /\ Micro(a) % 100 = 0
        /\ Micro(row.totalDeposited) \in Nat
        /\ Micro(row.balance) = row.balance
    BY MicroNat, MicroMultiple DEF Sound
  <1>2. /\ SafeAdd(row.balance, a) = row.balance + Micro(a)
        /\ SafeAdd(row.balance, a) \in Nat
        /\ SafeAdd(row.balance, a) % 100 = 0
    BY <1>1 DEF Sound, SafeAdd
  <1>3. SafeAdd(row.totalDeposited, a) \in Nat
    BY <1>1 DEF SafeAdd
  <1>. QED
    BY <1>2, <1>3 DEF Sound, Credited, Row

\* A covered debit keeps the row sound and takes the rounded amount.
LEMMA DebitedSound ==
    ASSUME NEW row \in Row, Sound(row), NEW a \in Nat, Covers(row, a)
    PROVE  /\ Debited(row, a) \in Row
           /\ Sound(Debited(row, a))
           /\ Debited(row, a).balance = row.balance - Micro(a)
           /\ Debited(row, a).totalDeposited = row.totalDeposited
  <1>1. /\ Micro(a) \in Nat /\ Micro(a) % 100 = 0
        /\ Micro(row.totalWithdrawn) \in Nat
        /\ Micro(row.balance) = row.balance
        /\ Micro(a) <= row.balance
    BY MicroNat, MicroCovered DEF Sound, Covers
  <1>2. /\ SafeSub(row.balance, a) = row.balance - Micro(a)
        /\ SafeSub(row.balance, a) \in Nat
        /\ SafeSub(row.balance, a) % 100 = 0
    BY <1>1 DEF Sound, SafeSub
  <1>3. SafeAdd(row.totalWithdrawn, a) \in Nat
    BY <1>1 DEF SafeAdd
  <1>. QED
    BY <1>2, <1>3 DEF Sound, Debited, Row

LEMMA EmptySound == EmptyRow \in Row /\ Sound(EmptyRow)
  BY DEF EmptyRow, Row, Sound

LEMMA OpeningSound ==
    ASSUME NEW w \in Wallet
    PROVE  OpeningRow(w) \in Row /\ Sound(OpeningRow(w))
  BY GameWalletAssumption DEF OpeningRow, Row, Sound

LEMMA PairUpdate ==
    ASSUME NEW S, NEW f \in S, NEW t \in S, f # t, NEW x, NEW y,
           NEW b, NEW c, b = [s \in S |-> b[s]], c = [s \in S |-> c[s]],
           c[f] = x, c[t] = y, \A s \in S \ {f, t} : c[s] = b[s]
    PROVE  c = [b EXCEPT ![f] = x, ![t] = y]
  OBVIOUS
-----------------------------------------------------------------------------
(***************************************************************************)
(* Waiting.  Where each of finitely many waits for one of them, some wait  *)
(* for exactly one another: take a smallest set that is not empty and      *)
(* waits for its own members only.                                         *)
(***************************************************************************)
LEMMA SmallestOf ==
    ASSUME NEW Sizes, Sizes \subseteq Nat, Sizes # {}
    PROVE  \E n \in Sizes : \A m \in Sizes : n <= m
<1>1. PICK n \in Sizes : \A m \in Sizes : <<m, n>> \notin OpToRel(<, Nat)
  BY NatLessThanWellFounded, WFMin
<1>2. \A m \in Sizes : ~(m < n)
  BY <1>1 DEF OpToRel
<1>. QED
  BY <1>2

LEMMA CircleOfWaits ==
    ASSUME NEW W, IsFiniteSet(W), W # {}, NEW for \in [W -> W]
    PROVE  \E S \in SUBSET W :
              S # {} /\ \A q \in W : q \in S <=> \E r \in S : q = for[r]
<1>. DEFINE Closed == {S \in SUBSET W : S # {} /\ \A r \in S : for[r] \in S}
            Sizes == {Cardinality(S) : S \in Closed}
<1>1. \A S \in Closed : IsFiniteSet(S) /\ Cardinality(S) \in Nat
  BY FS_Subset, FS_CardinalityType
<1>2. W \in Closed
  OBVIOUS
<1>3. Sizes \subseteq Nat /\ Sizes # {}
  BY <1>1, <1>2
<1>. HIDE DEF Sizes
<1>4. PICK n \in Sizes : \A m \in Sizes : n <= m
  BY <1>3, SmallestOf
<1>5. PICK S \in Closed : \A T \in Closed : Cardinality(S) <= Cardinality(T)
  BY <1>4 DEF Sizes
<1>. DEFINE T == {for[r] : r \in S}
<1>6. T \in SUBSET S /\ T \in Closed
  BY <1>5
<1>7. Cardinality(T) <= Cardinality(S) /\ (Cardinality(S) = Cardinality(T) => S = T)
  BY <1>1, <1>5, <1>6, FS_Subset
<1>8. Cardinality(S) \in Nat /\ Cardinality(T) \in Nat /\ Cardinality(S) <= Cardinality(T)
  BY <1>1, <1>5, <1>6
<1>. QED
  BY <1>5, <1>6, <1>7, <1>8
=============================================================================
