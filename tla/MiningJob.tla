------------------------------ MODULE MiningJob ------------------------------
(***************************************************************************)
(* The work a miner is sent (coinb1, coinb2 and merkleBranch of a Job) and *)
(* what a miner makes of it: the coinbase with its extra nonces, and the   *)
(* Merkle root for the header.  SplitCoinbase and MerkleTreeBranch are     *)
(* used in three places, which differ in the transactions they take into   *)
(* the tree (Callers below).                                               *)
(* The coinbases they split come from outside the repository: conn.go:451  *)
(* and client.go:203 take one of the miner package, main3.go:78 the one    *)
(* that mining.CreateJaxCoinbaseTx made.                                   *)
(* Hashes are terms: two are equal when they are made of the same things.  *)
(***************************************************************************)
EXTENDS Integers, Sequences

CONSTANTS
  PowersOfTwo,    (* 1, 2, 4, ...: the sizes of a level of a Merkle tree   *)
  MaxTxs,         (* bound: transactions in a block                        *)
  Heights,        (* the first push of a coinbase's script: the height     *)
  Nonces,         (* what the second one pushes: an extra nonce            *)
  Prefix,         (* bytes of a coinbase before the length of its script   *)
  Rest,           (* bytes of its script after the extra nonce             *)
  Suffix,         (* bytes after its script                                *)
  ExtraNonce2     (* what the miner puts in                                *)

ASSUME PowersAssumption ==
  /\ PowersOfTwo \subseteq Nat \ {0}
  /\ \A w \in PowersOfTwo : w = 1 \/ (w % 2 = 0 /\ w \div 2 \in PowersOfTwo)
  /\ \A v, w \in PowersOfTwo : v < w => 2 * v \in PowersOfTwo /\ 2 * v <= w

ASSUME TxsAssumption ==
  /\ MaxTxs \in Nat \ {0}
  /\ \A n \in 1..MaxTxs : \E w \in PowersOfTwo : n <= w /\ w < 2 * n

(* What the comments of SplitCoinbase say of a height: an opcode (0, or     *)
(* more than 0xF), or the count of its bytes and the bytes.  AddInt64      *)
(* pushes numbers so.                                                      *)
ASSUME HeightsAssumption ==
  \A h \in Heights : /\ h \in Seq(Nat) /\ h # <<>>
                     /\ Len(h) = (IF h[1] > 15 THEN 1 ELSE 1 + h[1])

(* What SplitCoinbase takes for granted of a coinbase of others: 41 bytes,  *)
(* then the length of the script in one byte (its constant index 42), and  *)
(* an extra nonce pushed with its length in one byte, as AddData does for  *)
(* 2 to 75 bytes.  Nothing in the repository says how long the nonces are. *)
ASSUME BytesAssumption ==
  /\ Nonces \subseteq Seq(Nat) /\ \A n \in Nonces : Len(n) \in 2..75
  /\ Prefix \in Seq(Nat) /\ Len(Prefix) = 41
  /\ Rest \in Seq(Nat) /\ Suffix \in Seq(Nat)
  /\ ExtraNonce2 \in Seq(Nat) /\ Len(ExtraNonce2) = 4

VARIABLES
  split,           (* coinb1 and coinb2 are there                          *)
  caller,          (* who makes the job                                    *)
  ntxs,            (* the transactions of the block                        *)
  height, nonce,   (* what the script of its coinbase begins with          *)
  coinb1, coinb2,  (* the two parts of the coinbase                        *)
  store,   (* the array of BuildMerkleTreeStore from which the branch is   *)
  mined,   (* the array for the block with the miner's coinbase            *)
  i,       (* the loop variable of BuildMerkleTreeStore                    *)
  k,       (* the loop variable of MerkleTreeBranch                        *)
  root     (* what the miner makes of its coinbase and the branch so far   *)

inputs   == <<caller, ntxs, height, nonce>>
parts    == <<split, coinb1, coinb2>>
treeVars == <<store, mined, i>>
vars     == <<inputs, parts, treeVars, k, root>>

(* conn.serve clears the block first and sends an empty branch, which is   *)
(* that of a tree of one; HandleMessage of client.go builds the tree       *)
(* without the coinbase, and main3.go with it.                             *)
Callers == {"serve", "handleMessage", "main3"}

-----------------------------------------------------------------------------
(* Coinbases.                                                              *)

(* The height, the extra nonce, and then what no one looks at.             *)
BTCCoinbaseScript(h, n) == h \o <<Len(n)>> \o n \o Rest

(* What MsgTx.Serialize makes of a coinbase of others, taken to have a      *)
(* script like BTCCoinbaseScript's.  (The one script that main3.go has     *)
(* from that function goes into a transaction which is never split.)       *)
Coinbase(h, n) ==
  LET script == BTCCoinbaseScript(h, n)
  IN  Prefix \o <<Len(script)>> \o script \o Suffix

(* The extra nonce of every worker, and of its miner.                      *)
ExtraNonce1 == <<0, 0, 0, 0>>
FreshNonce  == ExtraNonce1 \o ExtraNonce2

(* The index of the length of the extra nonce, counted from 0 as in Go.    *)
HeightLen(raw) == IF raw[43] > 15 THEN 0 ELSE raw[43]

ExtraNonceLenIdx(raw) == 42 + 1 + HeightLen(raw)

(* Mutant: the old length of the extra nonce stays.                        *)
HalvesUnpatched(raw) ==
  LET idx == ExtraNonceLenIdx(raw)
  IN  <<SubSeq(raw, 1, idx + 1), SubSeq(raw, idx + raw[idx + 1] + 2, Len(raw))>>

(* part1 shares its array with rawTx: append writes the 8 into rawTx, over *)
(* the length that has been read before.                                   *)
Halves(raw) ==
  LET idx == ExtraNonceLenIdx(raw)
      len == raw[idx + 1]
      buf == [raw EXCEPT ![idx + 1] = 8]
  IN  <<SubSeq(buf, 1, idx + 1), SubSeq(buf, idx + len + 2, Len(buf))>>

(* What a miner puts together, and what the halves of its job will give.   *)
Assembled == coinb1 \o FreshNonce \o coinb2

MinersCoinbase ==
  LET halves == Halves(Coinbase(height, nonce))
  IN  halves[1] \o FreshNonce \o halves[2]

-----------------------------------------------------------------------------
(* Merkle trees.                                                           *)

Nil        == <<>>
Txid(raw)  == <<raw>>
OwnTxid(j) == <<<<j>>>>
Hash(l, r) == <<l, r>>

(* A node without a right brother is hashed with itself.                   *)
Parent(l, r) ==
  CASE l = Nil             -> Nil
    [] l # Nil /\ r = Nil  -> Hash(l, l)
    [] l # Nil /\ r # Nil  -> Hash(l, r)

NextPowerOfTwo(n) == CHOOSE w \in PowersOfTwo : n <= w /\ w < 2 * n

(* The array before the loop: the leaves of n transactions, and nil.       *)
Leaves(n, Leaf(_)) ==
  [p \in 0..2 * NextPowerOfTwo(n) - 2 |-> IF p < n THEN Leaf(p) ELSE Nil]

(* An iteration of its loop: the parent of the nodes at j and j + 1.       *)
Joined(a, w, j) == [a EXCEPT ![w + j \div 2] = Parent(a[j], a[j + 1])]

JobTxs   == IF caller = "handleMessage" THEN ntxs - 1 ELSE ntxs
JobWidth == NextPowerOfTwo(JobTxs)
Width    == NextPowerOfTwo(ntxs)

JobLeaf(p) == OwnTxid(p + ntxs - JobTxs)

(* Reference: the transactions of the block that a miner's share stands    *)
(* for, its own coinbase first.  main3.go rebuilds one of the coinbase     *)
(* alone (119-142).                                                        *)
MinedLeaf(p) == IF p = 0 THEN Txid(MinersCoinbase) ELSE OwnTxid(p)

-----------------------------------------------------------------------------
(* Every variable keeps its type.                                          *)
TypeOK ==
  /\ split \in BOOLEAN /\ caller \in Callers
  /\ ntxs \in 1..MaxTxs /\ JobTxs \in 1..MaxTxs
  /\ height \in Heights /\ nonce \in Nonces
  /\ coinb1 \in Seq(Nat) /\ coinb2 \in Seq(Nat)
  /\ DOMAIN store = 0..2 * JobWidth - 2
  /\ DOMAIN mined = 0..2 * Width - 2
  /\ i \in 0..2 * Width - 2 /\ k \in 1..2 * JobWidth - 1

Init ==
  /\ split = FALSE /\ caller \in Callers
  /\ ntxs \in CASE caller = "serve"         -> {1}
                [] caller = "handleMessage" -> 2..MaxTxs
                [] caller = "main3"         -> 1..MaxTxs
  /\ height \in Heights /\ nonce \in Nonces
  /\ coinb1 = <<>> /\ coinb2 = <<>>
  /\ store = Leaves(JobTxs, JobLeaf) /\ mined = Leaves(ntxs, MinedLeaf)
  /\ i = 0 /\ k = 2 * JobWidth - 1 /\ root = Nil

SplitCoinbase ==
  /\ ~split /\ split' = TRUE
  /\ LET halves == Halves(Coinbase(height, nonce))
     IN  coinb1' = halves[1] /\ coinb2' = halves[2]
  /\ root' = Txid(Assembled')
  /\ UNCHANGED <<inputs, treeVars, k>>

(* The library builds both arrays, a parent at a time.                     *)
BuildMerkleTreeStore ==
  /\ split /\ i < 2 * Width - 2
  /\ i' = i + 2
  /\ mined' = Joined(mined, Width, i)
  /\ store' = IF i < 2 * JobWidth - 2 THEN Joined(store, JobWidth, i)
              ELSE store
  /\ UNCHANGED <<inputs, parts, k, root>>

Built == split /\ i = 2 * Width - 2

(* Mutant: the node itself, and not its brother.                           *)
Left == store[2 * JobWidth - 1 - k]

(* The node of which an iteration of MerkleTreeBranch takes the hash.      *)
Sibling == store[2 * JobWidth - 1 - k + 1]

(* Mutant: half, without the place of the root.                            *)
TooShort == k \div 2 - 1

Shorter == (k - 1) \div 2

(* An iteration; the callers leave out what is nil.  Miners hash what they *)
(* have with each step in turn.                                            *)
MerkleTreeBranch ==
  /\ Built /\ k > 1 /\ k' = Shorter
  /\ root' = IF Sibling = Nil THEN root ELSE Hash(root, Sibling)
  /\ UNCHANGED <<inputs, parts, treeVars>>

Solved == Built /\ k <= 1

Terminated == Solved /\ UNCHANGED vars

Next ==
  SplitCoinbase \/ BuildMerkleTreeStore \/ MerkleTreeBranch \/ Terminated

Spec == Init /\ [][Next]_vars

-----------------------------------------------------------------------------
(* The root of the block that has the miner's extra nonces.                *)
MinedRoot == mined[2 * Width - 2]

(* SplitCoinbase finds the extra nonce, whichever way the height is pushed  *)
(* and however long the nonce is: what a miner puts together is the        *)
(* coinbase with its own nonces in the place of the old one.  At most the  *)
(* length of the script is wrong, and only if the old nonce had not 8      *)
(* bytes: SplitCoinbase corrects the length of the nonce, not that one.    *)
CoinbaseRebuilt ==
  split =>
    LET whole == Coinbase(height, FreshNonce)
    IN  /\ DOMAIN Assembled = DOMAIN whole
        /\ \A j \in DOMAIN whole :
             Assembled[j] # whole[j] => j = 42 /\ Len(nonce) # 8

(* A miner that follows the branch of conn.serve or main3.go finds the root *)
(* of the block that has, in the first place, the coinbase it put          *)
(* together: the branch depends on no byte of the old one, has a step for  *)
(* every level and none nil.                                               *)
JobSolvable == Solved /\ caller # "handleMessage" => root = MinedRoot

-----------------------------------------------------------------------------
(* What a comment says, and the code does not do.                          *)

(* "List of hashes, will be used for calculation of merkle root": with the *)
(* branch of a job one calculates the root of its block.                   *)
BranchGivesRoot == Solved => root = MinedRoot
=============================================================================
