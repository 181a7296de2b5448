--------------------------- MODULE BlockPartition ---------------------------
(***************************************************************************)
(* How RenderPageBlocks (internal/pdf/pdf.go) divides the pages of a PDF   *)
(* into blocks, one per exam, and the blocks into sub-documents, one per   *)
(* renderer.  Pages count from 1, sequences do too.                        *)
(***************************************************************************)
EXTENDS Integers, Sequences, FiniteSets

CONSTANTS Cores, MaxConcurrentBlocks     \* GOMAXPROCS

ASSUME CoresAssumption == Cores \in Nat /\ MaxConcurrentBlocks \in Nat

Least(a, b)    == IF a < b THEN a ELSE b
Greatest(a, b) == IF a > b THEN a ELSE b

\* The renderers asked for, when the caller leaves the number to the package.
Parallelism(blockSize) ==
  Greatest(1, Least(MaxConcurrentBlocks, Cores \div 2) + 2 - blockSize)

\* The blocks dealt out to the subsets one at a time, in turns.
BlocksPerRegion(numBlocks, numSubsets) ==
  LET dealt[k \in 0..numBlocks] ==
        IF k = 0 THEN [i \in 1..numSubsets |-> 0]
        ELSE [dealt[k - 1] EXCEPT ![((k - 1) % numSubsets) + 1] = @ + 1]
  IN  dealt[numBlocks]

Divides(n, blockSize) == n % blockSize = 0

\* blockPartition.  Each subset is a sequence of blocks; its own bounds are
\* those of its first and last block.
Subsets(n, blockSize, numSubsets) ==
  LET regions == Least(n \div blockSize, numSubsets)
      blocks  == BlocksPerRegion(n \div blockSize, regions)
      from[i \in 1..(regions + 1)] ==
        IF i = 1 THEN 1 ELSE from[i - 1] + blocks[i - 1] * blockSize
  IN  [i \in 1..regions |->
        [j \in 1..blocks[i] |-> [from |-> from[i] + (j - 1) * blockSize,
                                 thru |-> from[i] + j * blockSize - 1]]]

\* Bug: every renderer starts at the first page of the PDF.
PagesRenderedAnywhere(subset, j, blockSize) ==
  [k \in 1..blockSize |-> (j - 1) * blockSize + k]

\* renderPages: a renderer counts the pages of its own sub-document, which
\* begins with the first page of its first block.
PagesRendered(subset, j, blockSize) ==
  [k \in 1..blockSize |-> subset[1].from - 1 + (j - 1) * blockSize + k]
=============================================================================
