-------------------------------- MODULE EventIds --------------------------------
(***************************************************************************)
(* Event ids (internal/db/eventid.go): height, place in the block, number  *)
(* of the transaction and of the event, packed into the decimal digits of  *)
(* one number.  Rows carry it, and the pages of actions are cut by it.     *)
(***************************************************************************)
EXTENDS Naturals

CONSTANTS
    TxIndexScale,       \* txIndexScale, 10^4 in the code
    TypeDigit           \* typeDigit, 10^9 in the code

ASSUME EventIdsAssumption ==
    /\ TxIndexScale \in Nat \ {0, 1}
    /\ TypeDigit \in Nat
    /\ TxIndexScale < TypeDigit /\ TypeDigit % TxIndexScale = 0

\* blockHeightScale: the digit that tells the places is the tenth.
BlockHeightScale == 10 * TypeDigit

\* An id before it is packed.
EventId(height, location, tx, index) ==
    [height |-> height, location |-> location, tx |-> tx, index |-> index]

Wrong_AsBigint(e) ==
    e.height * BlockHeightScale +
       CASE e.location = "BeginBlockEvents" -> e.index
         [] e.location = "TxsResults"       -> TypeDigit + e.index * TxIndexScale + e.tx
         [] e.location = "EndBlockEvents"   -> 9 * TypeDigit + e.index
AsBigint(e) ==
    e.height * BlockHeightScale +
       CASE e.location = "BeginBlockEvents" -> e.index
         [] e.location = "TxsResults"       -> TypeDigit + e.tx * TxIndexScale + e.index
         [] e.location = "EndBlockEvents"   -> 9 * TypeDigit + e.index

\* Opposite of AsBigint; the end of a block is a transaction after all others.
EndBlockPseudoTx == (10 * TypeDigit) \div TxIndexScale - 1
ParseEventId(eid) ==
    LET rest == eid % BlockHeightScale
        height == eid \div BlockHeightScale
    IN  IF rest < TypeDigit THEN EventId(height, "BeginBlockEvents", 0, rest)
        ELSE IF rest < 9 * TypeDigit
             THEN EventId(height, "TxsResults", (rest - TypeDigit) \div TxIndexScale, rest % TxIndexScale)
             ELSE EventId(height, "EndBlockEvents", EndBlockPseudoTx, rest % TypeDigit)

HeightFromEventId(eid) == eid \div BlockHeightScale
HeightToEventId(height) == height * BlockHeightScale

=============================================================================
